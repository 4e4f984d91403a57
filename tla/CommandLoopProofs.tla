-------------------------- MODULE CommandLoopProofs --------------------------
(***************************************************************************)
(* What is proved of readline's command loop: RingInvariant, MacroIsWhatRan*)
(* and InputInOrder, for any keymaps, lines, limits and bounds.            *)
(***************************************************************************)
EXTENDS CommandLoop, WellFoundedInduction, SequenceTheorems, TLAPS

-----------------------------------------------------------------------------
(* Numbers and sequences *)

\* A set of natural numbers has a least one,
LEMMA Least ==
  ASSUME NEW S \in SUBSET Nat, S # {}
  PROVE  \E m \in S : \A n \in S : m <= n
<1> DEFINE R == {ss \in Nat \X Nat : ss[1] < ss[2]}
<1>1. IsWellFoundedOn(R, Nat)
  BY NatLessThanWellFounded DEF OpToRel
<1>2. \E x \in S : \A y \in S : ~ (<<y, x>> \in R)
  <2> HIDE DEF R
  <2> QED
    BY <1>1, WFMin
<1>3. \A x, y \in Nat : <<y, x>> \in R <=> y < x
  OBVIOUS
<1> HIDE DEF R
<1>4. PICK x \in S : \A y \in S : ~ (<<y, x>> \in R)
  BY <1>2
<1>5. ASSUME NEW y \in S PROVE x <= y
  <2>1. x \in Nat /\ y \in Nat /\ ~ (<<y, x>> \in R)
    BY <1>4
  <2>2. ~ (y < x)
    BY <1>3, <2>1
  <2> QED
    BY <2>1, <2>2
<1> QED
  BY <1>5

\* and one that is bounded a greatest one.
LEMMA Greatest ==
  ASSUME NEW L \in Nat, NEW S \in SUBSET (0 .. L), S # {}
  PROVE  \E m \in S : \A n \in S : n <= m
<1> DEFINE T == {L - n : n \in S}
<1>1. T \in SUBSET Nat /\ T # {} /\ \A n \in S : L - n \in T
  <2>1. \A n \in S : L - n \in T
    OBVIOUS
  <2>2. \A n \in S : L - n \in Nat
    OBVIOUS
  <2>3. T \in SUBSET Nat
    BY <2>2
  <2> QED
    BY <2>1, <2>3
<1>2. \A t \in T : \E n \in S : t = L - n
  OBVIOUS
<1> HIDE DEF T
<1>3. PICK t \in T : \A u \in T : t <= u
  BY <1>1, Least
<1>4. PICK m \in S : t = L - m
  BY <1>2
<1>5. ASSUME NEW n \in S PROVE n <= m
  <2>1. t <= L - n
    BY <1>1, <1>3
  <2> QED
    BY <1>4, <2>1
<1> QED
  BY <1>5

\* Min and Max choose them.
LEMMA MinChosen ==
  ASSUME NEW S \in SUBSET Nat, S # {}
  PROVE  Min(S) \in S /\ \A n \in S : Min(S) <= n
BY Least DEF Min

\* The same of a set of numbers that has a bound, and its maximum.
LEMMA MaxChosen ==
  ASSUME NEW L \in Nat, NEW S \in SUBSET (0 .. L), S # {}
  PROVE  Max(S) \in S /\ \A n \in S : n <= Max(S)
BY Greatest DEF Max

\* What the operators on sequences return.
LEMMA SequenceFacts ==
  ASSUME NEW S, NEW q \in Seq(S), NEW r \in Seq(S), NEW e \in S
  PROVE  /\ Len(q) \in Nat /\ q \o r \in Seq(S) /\ Append(q, e) \in Seq(S) /\ <<e>> \in Seq(S)
         /\ Len(q \o r) = Len(q) + Len(r) /\ Len(Append(q, e)) = Len(q) + 1
         /\ q \o <<e>> = Append(q, e)
         /\ q # <<>> => Head(q) \in S /\ Tail(q) \in Seq(S) /\ Last(q) \in S
                        /\ Len(Tail(q)) = Len(q) - 1
BY DEF Last

\* A part of a sequence.
LEMMA PartOf ==
  ASSUME NEW S, NEW q \in Seq(S), NEW m \in Nat \ {0}, NEW n \in Int, n <= Len(q)
  PROVE  /\ SubSeq(q, m, n) \in Seq(S)
         /\ Len(SubSeq(q, m, n)) = IF m <= n THEN n - m + 1 ELSE 0
         /\ \A k \in 1 .. (n - m + 1) : SubSeq(q, m, n)[k] = q[m + k - 1]
OBVIOUS

\* Sequences of the same length with the same elements are the same.
LEMMA SameSequence ==
  ASSUME NEW S, NEW q \in Seq(S), NEW r \in Seq(S), Len(q) = Len(r),
         \A k \in 1 .. Len(q) : q[k] = r[k]
  PROVE  q = r
OBVIOUS

-----------------------------------------------------------------------------
(* The sources of keys and the macro *)

\* A macro that runs, the sources of keys, the macro being defined, a slot of the ring.
MacroRun == {m \in [keys : Seq(Key), at : Nat] : m.at <= Len(m.keys)}
Sources == [pending : Key \cup {None}, macros : Seq(MacroRun), ungot : Seq(Key), typed : Seq(Key)]
MacroState == [keys : Seq(Key) \cup {<<None>>}, on : BOOLEAN]
Slot == Seq(Key) \ {<<>>}

\* The types of what is read, in sets that readline's operations keep.
KeysOK ==
  /\ bound \in Keymaps /\ input \in Sources /\ Len(input.macros) <= MaxLevel + 1
  /\ path \in Seq(Key) /\ macro \in MacroState
  /\ arg \in [count : 0 .. MaxArg \cup {1}, length : Nat]
  /\ made \in [keys : Seq(Key), exact : BOOLEAN]

\* The macro holds the keys that ran, and those of the sequence being read.
Holds(m, ran, rest) ==
  /\ m.on => m.keys # <<None>>
  /\ m.keys # <<None>> => m.keys = ran \o (IF m.on THEN rest ELSE <<>>)

MacroPart == made.exact => Holds(macro, made.keys, path)

\* The types of the line and the ring.
OnLine(l, p) == l \in Seq(Key) /\ p \in 0 .. Len(l)

RingIs(slots, i) ==
  /\ slots \in Seq(Slot) /\ Len(slots) <= MaxKills
  /\ i \in (IF slots = <<>> THEN {0} ELSE 1 .. Len(slots))

TextOK ==
  /\ OnLine(line, point) /\ RingIs(ring, index)
  /\ lastKill \in BOOLEAN /\ lastFunc \in Commands \cup {None}
  /\ killing \in [on : BOOLEAN, line : Seq(Key), excused : BOOLEAN]

\* The last slot, put in at the point, gives back the line before.
Restores(l, p, slots, before) == slots # <<>> /\ Splice(l, p, slots[Len(slots)]) = before

\* Something was killed, unless there was nothing.
Shorter(l, before) == (l = <<>> /\ before = <<>>) \/ Len(l) < Len(before)

\* A run of kills: _rl_last_command_was_kill is set in it, and outside it only
\* where the run is excused. In it the last slot holds all that it took.
KillRun ==
  /\ ~killing.on /\ ~killing.excused => ~lastKill
  /\ killing.on => lastKill /\ Shorter(line, killing.line)
  /\ killing.on /\ ~killing.excused /\ line # killing.line =>
       Restores(line, point, ring, killing.line)

\* The line is the one before the yank with the slot in it, and the point behind that.
Yanked(l, p, slots, i, before) ==
  /\ OnLine(before.line, before.point) /\ slots # <<>>
  /\ p = before.point + Len(slots[i])
  /\ l = Splice(before.line, before.point, slots[i])

YankPlace == lastFunc \in Yanks => Yanked(line, point, ring, index, yanked)

-----------------------------------------------------------------------------
(* What readline does with its keys leaves keys *)

\* Sources with other contents are sources.
WithPending(in, p) == [in EXCEPT !.pending = p]
WithMacros(in, ms) == [in EXCEPT !.macros = ms]
WithUngot(in, q) == [in EXCEPT !.ungot = q]
WithTyped(in, q) == [in EXCEPT !.typed = q]

\* Replacing one of the sources by another of its kind leaves the rest of them.
LEMMA SourcesKept ==
  ASSUME NEW in \in Sources
  PROVE  /\ \A p \in Key \cup {None} :
              WithPending(in, p) \in Sources /\ WithPending(in, p).macros = in.macros
         /\ \A ms \in Seq(MacroRun) :
              /\ WithMacros(in, ms) \in Sources /\ WithMacros(in, ms).macros = ms
              /\ WithMacros(in, ms).ungot = in.ungot /\ WithMacros(in, ms).typed = in.typed
         /\ \A q \in Seq(Key) :
              /\ WithUngot(in, q) \in Sources /\ WithUngot(in, q).macros = in.macros
              /\ WithTyped(in, q) \in Sources /\ WithTyped(in, q).macros = in.macros
<1> DEFINE A == Key \cup {None}
           B == Seq(MacroRun)
           C == Seq(Key)
<1>1. Sources = [pending : A, macros : B, ungot : C, typed : C]
  BY DEF Sources
<1> HIDE DEF A, B, C
<1>2. ASSUME NEW p \in A, NEW ms \in B, NEW q \in C
      PROVE  /\ WithPending(in, p) \in Sources /\ WithPending(in, p).macros = in.macros
             /\ WithMacros(in, ms) \in Sources /\ WithMacros(in, ms).macros = ms
             /\ WithMacros(in, ms).ungot = in.ungot /\ WithMacros(in, ms).typed = in.typed
             /\ WithUngot(in, q) \in Sources /\ WithUngot(in, q).macros = in.macros
             /\ WithTyped(in, q) \in Sources /\ WithTyped(in, q).macros = in.macros
  BY <1>1 DEF WithPending, WithMacros, WithUngot, WithTyped
<1>3. None \in A /\ <<>> \in B /\ <<>> \in C
  BY DEF A, B, C
<1> QED
  BY <1>2, <1>3 DEF A, B, C

\* A sequence with another first element.
WithFirst(q, e) == [q EXCEPT ![1] = e]

\* It is as long, and of the same elements.
LEMMA FirstReplaced ==
  ASSUME NEW S, NEW q \in Seq(S), q # <<>>, NEW e \in S
  PROVE  WithFirst(q, e) \in Seq(S) /\ Len(WithFirst(q, e)) = Len(q)
<1>1. PICK n \in Nat : n = Len(q) /\ q \in [1 .. n -> S]
  OBVIOUS
<1>2. WithFirst(q, e) \in [1 .. n -> S]
  BY <1>1 DEF WithFirst
<1> QED
  BY <1>1, <1>2

\* The macros that are not exhausted.
LEMMA LiveIn ==
  ASSUME NEW macros \in Seq(MacroRun)
  PROVE  /\ Live(macros) \in Seq(MacroRun) /\ Len(Live(macros)) <= Len(macros)
         /\ Live(macros) # <<>> => Live(macros)[1].at < Len(Live(macros)[1].keys)
<1> DEFINE left == {k \in DOMAIN macros : macros[k].at < Len(macros[k].keys)}
<1>1. Len(macros) \in Nat /\ DOMAIN macros = 1 .. Len(macros)
  OBVIOUS
<1>2. CASE left = {}
  <2>1. Live(macros) = <<>>
    BY <1>2 DEF Live
  <2> QED
    BY <1>1, <2>1
<1>3. CASE left # {}
  <2>1. left \in SUBSET Nat
    BY <1>1
  <2>2. Live(macros) = SubSeq(macros, Min(left), Len(macros))
    BY <1>3 DEF Live
  <2>3. Min(left) \in left
    <3> HIDE DEF left
    <3> QED
      BY <1>3, <2>1, MinChosen
  <2>4. PICK m \in 1 .. Len(macros) : m = Min(left) /\ macros[m].at < Len(macros[m].keys)
    BY <1>1, <2>3
  <2>5. /\ SubSeq(macros, m, Len(macros)) \in Seq(MacroRun)
        /\ Len(SubSeq(macros, m, Len(macros))) <= Len(macros)
        /\ SubSeq(macros, m, Len(macros))[1] = macros[m]
    BY <1>1, PartOf
  <2> QED
    BY <2>2, <2>4, <2>5
<1> QED
  BY <1>2, <1>3

\* A key read is a key, and what is left are sources.
LEMMA ReadKeeps ==
  ASSUME NEW in \in Sources, HasKey(in)
  PROVE  /\ NextKey(in) \in Key /\ Read(in) \in Sources
         /\ Len(Read(in).macros) <= Len(in.macros)
<1>1. /\ in.macros \in Seq(MacroRun) /\ in.ungot \in Seq(Key) /\ in.typed \in Seq(Key)
      /\ in.pending \in Key \cup {None} /\ Len(in.macros) \in Nat
  BY DEF Sources
<1> DEFINE macros == Live(in.macros)
<1>2. /\ macros \in Seq(MacroRun) /\ Len(macros) <= Len(in.macros) /\ Len(macros) \in Nat
      /\ macros # <<>> => macros[1].at < Len(macros[1].keys)
  BY <1>1, LiveIn
<1>3. CASE in.pending # None
  <2>1. NextKey(in) = in.pending /\ Read(in) = WithPending(in, None)
    BY <1>3 DEF NextKey, Read, WithPending
  <2>2. None \in Key \cup {None}
    OBVIOUS
  <2>3. WithPending(in, None) \in Sources /\ WithPending(in, None).macros = in.macros
    BY <2>2, SourcesKept
  <2> QED
    BY <1>1, <1>3, <2>1, <2>3
<1>4. CASE in.pending = None /\ macros # <<>>
  <2>1. /\ NextKey(in) = macros[1].keys[macros[1].at + 1]
        /\ Read(in) = [in EXCEPT !.macros = [macros EXCEPT ![1].at = @ + 1]]
    BY <1>4 DEF NextKey, Read
  <2> HIDE DEF macros
  <2>2. /\ 1 \in 1 .. Len(macros) /\ macros[1] \in MacroRun
        /\ macros[1].keys \in Seq(Key) /\ macros[1].at \in Nat
    BY <1>2, <1>4 DEF MacroRun
  <2>3. macros[1].keys[macros[1].at + 1] \in Key
    BY <1>2, <1>4, <2>2
  <2>4. PICK n \in Nat : n = macros[1].at + 1 /\ n <= Len(macros[1].keys)
    BY <1>2, <1>4, <2>2
  <2>5. PICK r \in MacroRun : r = [macros[1] EXCEPT !.at = n]
    BY <2>2, <2>4 DEF MacroRun
  <2>6. Read(in) = WithMacros(in, WithFirst(macros, r))
    BY <2>1, <2>4, <2>5 DEF WithMacros, WithFirst
  <2>7. PICK ms \in Seq(MacroRun) : ms = WithFirst(macros, r) /\ Len(ms) = Len(macros)
    BY <1>2, <1>4, FirstReplaced
  <2>8. Read(in) \in Sources /\ Read(in).macros = ms
    BY <2>6, <2>7, SourcesKept
  <2> QED
    BY <1>2, <2>1, <2>3, <2>7, <2>8
<1>5. CASE in.pending = None /\ macros = <<>> /\ in.ungot # <<>>
  <2>1. /\ NextKey(in) = Head(in.ungot \o in.typed)
        /\ Read(in) = WithUngot(WithMacros(in, <<>>), Tail(WithMacros(in, <<>>).ungot))
    BY <1>5 DEF NextKey, Read, WithMacros, WithUngot
  <2>2. Tail(in.ungot) \in Seq(Key) /\ in.ungot \o in.typed \in Seq(Key)
        /\ in.ungot \o in.typed # <<>>
    BY <1>1, <1>5
  <2>3. ASSUME NEW q \in Seq(Key), q # <<>> PROVE Head(q) \in Key
    BY <2>3
  <2>4. <<>> \in Seq(MacroRun) /\ Len(<<>>) <= Len(in.macros)
    BY <1>1
  <2>5. /\ WithMacros(in, <<>>) \in Sources /\ WithMacros(in, <<>>).macros = <<>>
        /\ WithMacros(in, <<>>).ungot = in.ungot
    BY <2>4, SourcesKept
  <2>6. PICK i1 \in Sources : i1 = WithMacros(in, <<>>)
    BY <2>5
  <2>7. PICK q \in Seq(Key) : q = Tail(in.ungot)
    BY <2>2
  <2>8. WithUngot(i1, q) \in Sources /\ WithUngot(i1, q).macros = i1.macros
    BY SourcesKept
  <2>9. NextKey(in) \in Key
    BY <2>1, <2>2, <2>3
  <2> QED
    BY <2>1, <2>4, <2>5, <2>6, <2>7, <2>8, <2>9
<1>6. CASE in.pending = None /\ macros = <<>> /\ in.ungot = <<>>
  <2>1. /\ NextKey(in) = Head(in.ungot \o in.typed)
        /\ Read(in) = WithTyped(WithMacros(in, <<>>), Tail(WithMacros(in, <<>>).typed))
    BY <1>6 DEF NextKey, Read, WithMacros, WithTyped
  <2>2. in.typed # <<>>
    BY <1>6 DEF HasKey
  <2>3. in.ungot \o in.typed = in.typed
    BY <1>1, <1>6
  <2>4. Head(in.typed) \in Key /\ Tail(in.typed) \in Seq(Key)
    BY <1>1, <2>2, SequenceFacts
  <2>5. <<>> \in Seq(MacroRun) /\ Len(<<>>) <= Len(in.macros)
    BY <1>1
  <2>6. /\ WithMacros(in, <<>>) \in Sources /\ WithMacros(in, <<>>).macros = <<>>
        /\ WithMacros(in, <<>>).typed = in.typed
    BY <2>5, SourcesKept
  <2>7. PICK i1 \in Sources : i1 = WithMacros(in, <<>>)
    BY <2>6
  <2>8. PICK q \in Seq(Key) : q = Tail(in.typed)
    BY <2>4
  <2>9. WithTyped(i1, q) \in Sources /\ WithTyped(i1, q).macros = i1.macros
    BY SourcesKept
  <2> QED
    BY <2>1, <2>3, <2>4, <2>5, <2>6, <2>7, <2>8, <2>9
<1> QED
  BY <1>3, <1>4, <1>5, <1>6

\* So does putting keys back.
LEMMA PutBackKeeps ==
  ASSUME NEW in \in Sources, NEW back \in Seq(Key)
  PROVE  PutBack(in, back) \in Sources /\ Len(PutBack(in, back).macros) = Len(in.macros)
<1>1. in.macros \in Seq(MacroRun) /\ in.ungot \in Seq(Key) /\ Len(in.macros) \in Nat
  BY DEF Sources
<1>2. CASE in.macros # <<>>
  <2> DEFINE first == in.macros[1]
             at == Max({0, first.at - Len(back)})
  <2>1. first \in MacroRun /\ first.at \in Nat /\ first.keys \in Seq(Key)
        /\ first.at <= Len(first.keys)
    BY <1>1, <1>2 DEF MacroRun
  <2>2. at \in 0 .. first.at
    <3>1. Len(back) \in Nat
      OBVIOUS
    <3>2. \A a, b \in Nat : Max({0, a - b}) \in 0 .. a
      <4> TAKE a \in Nat, b \in Nat
      <4>1. CASE a >= b
        BY <4>1 DEF Max
      <4>2. CASE a < b
        BY <4>2 DEF Max
      <4> QED
        BY <4>1, <4>2
    <3> QED
      BY <2>1, <3>1, <3>2
  <2> HIDE DEF at
  <2>3. PICK n \in Nat : n = at /\ n <= first.at
    BY <2>1, <2>2
  <2>7. PICK r \in MacroRun : r = [first EXCEPT !.at = n]
    <3>1. ASSUME NEW m \in MacroRun, NEW k \in Nat, k <= m.at
          PROVE  [m EXCEPT !.at = k] \in MacroRun
      BY <3>1 DEF MacroRun
    <3> HIDE DEF first
    <3>2. PICK m \in MacroRun : m = first
      BY <2>1
    <3>3. [m EXCEPT !.at = n] \in MacroRun
      BY <2>3, <3>1, <3>2
    <3> QED
      BY <3>2, <3>3
  <2>4. PICK ms \in Seq(MacroRun) : ms = WithFirst(in.macros, r) /\ Len(ms) = Len(in.macros)
    BY <1>1, <1>2, FirstReplaced
  <2>6. PutBack(in, back) = WithMacros(in, WithFirst(in.macros, r))
    BY <1>2, <2>3, <2>7 DEF PutBack, at, WithMacros, WithFirst
  <2> QED
    BY <2>4, <2>6, SourcesKept
<1>3. CASE in.macros = <<>>
  <2>1. PutBack(in, back) = WithUngot(in, back \o in.ungot) /\ back \o in.ungot \in Seq(Key)
    BY <1>1, <1>3 DEF PutBack, WithUngot
  <2>2. PICK q \in Seq(Key) : q = back \o in.ungot
    BY <2>1
  <2>3. WithUngot(in, q) \in Sources /\ WithUngot(in, q).macros = in.macros
    BY SourcesKept
  <2> QED
    BY <2>1, <2>2, <2>3
<1> QED
  BY <1>2, <1>3

\* What a command may make of the sources and the macro.
Outcome(e) ==
  /\ e.abort \in BOOLEAN /\ e.input \in Sources /\ Len(e.input.macros) <= MaxLevel + 1
  /\ e.macro \in MacroState /\ (e.abort => e.macro = NoMacro)

\* An abort, and a command that does nothing else with them.
LEMMA AbortsKeeps ==
  ASSUME NEW in \in Sources
  PROVE  Aborts(in).abort /\ Outcome(Aborts(in))
<1>1. WithMacros(in, <<>>) \in Sources /\ WithMacros(in, <<>>).macros = <<>>
  <2>3. <<>> \in Seq(MacroRun)
    OBVIOUS
  <2>1. PICK ms \in Seq(MacroRun) : ms = <<>>
    BY <2>3
  <2>2. WithMacros(in, ms) \in Sources /\ WithMacros(in, ms).macros = ms
    BY SourcesKept
  <2> QED
    BY <2>1, <2>2
<1>2. PICK i1 \in Sources : i1 = WithMacros(in, <<>>)
  BY <1>1
<1>3. WithPending(i1, None) \in Sources /\ WithPending(i1, None).macros = i1.macros
  BY SourcesKept
<1>4. [in EXCEPT !.pending = None, !.macros = <<>>] = WithPending(i1, None)
  BY <1>2 DEF WithPending, WithMacros, Sources
<1>5. Aborts(in).abort /\ Aborts(in).input = WithPending(i1, None) /\ Aborts(in).macro = NoMacro
  BY <1>4 DEF Aborts
<1>6. NoMacro \in MacroState
  BY DEF NoMacro, MacroState
<1>7. Len(<<>>) <= MaxLevel + 1
  BY MaxLevelAssumption
<1> QED
  BY <1>1, <1>2, <1>3, <1>5, <1>6, <1>7 DEF Outcome

\* A command that changes neither the sources nor the macro leaves them proper.
LEMMA DoesKeeps ==
  ASSUME NEW in \in Sources, Len(in.macros) <= MaxLevel + 1, NEW m \in MacroState
  PROVE  /\ ~Does(in, m).abort /\ Does(in, m).input = in /\ Does(in, m).macro = m
         /\ Outcome(Does(in, m))
BY DEF Does, Outcome

\* A macro of keys is not the one that stands for no macro.
LEMMA NoneIsNoKey == <<None>> \notin Seq(Key)
<1>1. <<None>> \in Seq(Key) => <<None>>[1] \in Key
  OBVIOUS
<1> QED
  BY <1>1, CommandLoopAssumption

\* The keys recorded.
LEMMA AddKeeps ==
  ASSUME NEW m \in MacroState, NEW new \in Seq(Key), new # <<>>
  PROVE  /\ AddMacroChars(m, new) \in MacroState /\ AddMacroChars(m, new).on = m.on
         /\ ~m.on => AddMacroChars(m, new) = m
         /\ m.on => /\ AddMacroChars(m, new).keys \in Seq(Key)
                    /\ AddMacroChars(m, new).keys # <<None>>
                    /\ m.keys # <<None>> => AddMacroChars(m, new).keys = m.keys \o new
<1>1. m.keys \in Seq(Key) \cup {<<None>>} /\ m.on \in BOOLEAN
  BY DEF MacroState
<1>2. <<None>> \notin Seq(Key)
  BY NoneIsNoKey
<1>3. CASE ~m.on
  BY <1>3 DEF AddMacroChars
<1>4. CASE m.on
  <2> DEFINE all == IF m.keys = <<None>> THEN new ELSE m.keys \o new
  <2>1. all \in Seq(Key)
    BY <1>1
  <2>2. AddMacroChars(m, new) = [m EXCEPT !.keys = all]
    BY <1>4 DEF AddMacroChars
  <2> HIDE DEF all
  <2>3. AddMacroChars(m, new) \in MacroState /\ AddMacroChars(m, new).keys = all
        /\ AddMacroChars(m, new).on = m.on
    BY <2>1, <2>2 DEF MacroState
  <2> QED
    BY <1>2, <1>4, <2>1, <2>3 DEF all
<1> QED
  BY <1>3, <1>4

\* Macros are called until they are nested too deep.
LEMMA CalledKeeps ==
  ASSUME NEW in \in Sources, Len(in.macros) <= MaxLevel + 1, NEW m \in MacroState,
         NEW count \in Int, NEW ks \in Seq(Key)
  PROVE  LET e == WithMacroInput(in, m, count, ks)
         IN  Outcome(e) /\ (~e.abort => e.macro = m)
<1>1. CASE count < 0 \/ Len(in.macros) + count > MaxLevel + 1
  <2>1. WithMacroInput(in, m, count, ks) = Aborts(in)
    BY <1>1 DEF WithMacroInput
  <2> QED
    BY <2>1, AbortsKeeps
<1>2. CASE ~(count < 0 \/ Len(in.macros) + count > MaxLevel + 1)
  <2> DEFINE run == [keys |-> ks, at |-> 0]
             runs == [k \in 1 .. count |-> run]
  <2>1. run \in MacroRun
    BY DEF MacroRun
  <2> HIDE DEF run
  <2>2. count \in Nat /\ runs \in Seq(MacroRun) /\ Len(runs) = count
    BY <1>2, <2>1
  <2>3. in.macros \in Seq(MacroRun) /\ Len(in.macros) \in Nat
    BY DEF Sources
  <2> HIDE DEF runs
  <2>8. ASSUME NEW S, NEW q \in Seq(S), NEW r \in Seq(S)
        PROVE  q \o r \in Seq(S) /\ Len(q \o r) = Len(q) + Len(r)
    OBVIOUS
  <2>4. PICK ms \in Seq(MacroRun) : ms = runs \o in.macros /\ Len(ms) = count + Len(in.macros)
    BY <2>2, <2>3, <2>8
  <2>5. WithMacros(in, ms) \in Sources /\ WithMacros(in, ms).macros = ms
    BY SourcesKept
  <2>6. WithMacroInput(in, m, count, ks) = Does(WithMacros(in, ms), m)
    BY <1>2, <2>4 DEF WithMacroInput, WithMacros, runs, run
  <2>7. Len(ms) <= MaxLevel + 1
    BY <1>2, <2>2, <2>3, <2>4, MaxLevelAssumption
  <2> QED
    BY <2>5, <2>6, <2>7, DoesKeeps
<1> QED
  BY <1>1, <1>2

\* Without a definition there is no macro, or one of keys.
LEMMA MacroOfKeys ==
  ASSUME NEW m \in MacroState, ~m.on, m # NoMacro
  PROVE  m.keys \in Seq(Key)
<1>1. m.keys = <<None>> => m = [keys |-> <<None>>, on |-> FALSE]
  BY DEF MacroState
<1>2. m.keys \in Seq(Key) \cup {<<None>>}
  BY DEF MacroState
<1> QED
  BY <1>1, <1>2 DEF NoMacro

\* A call of the last macro; while one is defined its last key is erased.
LEMMA CallKeeps ==
  ASSUME NEW in \in Sources, Len(in.macros) <= MaxLevel + 1, NEW m \in MacroState,
         m.on => m.keys \in Seq(Key), NEW count \in Int
  PROVE  LET e == CallMacro(in, m, count)
         IN  /\ Outcome(e)
             /\ ~e.abort => /\ m # NoMacro /\ e.macro.on = m.on
                            /\ e.macro.keys = IF m.on THEN Front(m.keys) ELSE m.keys
<1>1. m.keys \in Seq(Key) \cup {<<None>>} /\ m.on \in BOOLEAN
  BY DEF MacroState
<1>2. CASE m = NoMacro
  <2>1. CallMacro(in, m, count) = Aborts(in)
    BY <1>2 DEF CallMacro
  <2> QED
    BY <2>1, AbortsKeeps
<1>3. CASE m # NoMacro /\ m.on
  <2> DEFINE m1 == [m EXCEPT !.keys = Front(@)]
  <2>1. CallMacro(in, m, count) = Does(in, m1)
    BY <1>3 DEF CallMacro
  <2>2. Front(m.keys) \in Seq(Key)
    BY <1>3, PartOf DEF Front
  <2>3. m1 \in MacroState /\ m1.keys = Front(m.keys) /\ m1.on = m.on
    BY <2>2 DEF MacroState
  <2> HIDE DEF m1
  <2>4. LET e == Does(in, m1) IN Outcome(e) /\ e.macro = m1
    BY <2>3, DoesKeeps
  <2> QED
    BY <1>3, <2>1, <2>3, <2>4
<1>4. CASE m # NoMacro /\ ~m.on
  <2>1. m.keys \in Seq(Key)
    BY <1>4, MacroOfKeys
  <2>2. CallMacro(in, m, count) = WithMacroInput(in, m, count, m.keys)
    BY <1>4 DEF CallMacro
  <2>3. LET e == WithMacroInput(in, m, count, m.keys) IN Outcome(e) /\ (~e.abort => e.macro = m)
    BY <2>1, CalledKeeps
  <2> QED
    BY <1>4, <2>2, <2>3
<1> QED
  BY <1>1, <1>2, <1>3, <1>4

\* The beginning of a definition.
LEMMA StartKeeps ==
  ASSUME NEW in \in Sources, Len(in.macros) <= MaxLevel + 1, NEW m \in MacroState,
         NEW explicit \in BOOLEAN
  PROVE  LET e == StartMacro(in, m, explicit)
         IN  /\ Outcome(e)
             /\ ~e.abort => e.macro.on /\ e.macro.keys = IF explicit THEN m.keys ELSE <<>>
<1>1. m.keys \in Seq(Key) \cup {<<None>>} /\ m.on \in BOOLEAN
  BY DEF MacroState
<1> DEFINE on == [m EXCEPT !.on = TRUE]
           new == [on EXCEPT !.keys = <<>>]
<1>2. /\ on \in MacroState /\ on.on /\ on.keys = m.keys
      /\ new \in MacroState /\ new.on /\ new.keys = <<>>
  <2>1. <<>> \in Seq(Key)
    OBVIOUS
  <2> QED
    BY <1>1, <2>1 DEF MacroState
<1>3. CASE m.on
  <2>1. StartMacro(in, m, explicit) = Aborts(in)
    BY <1>3 DEF StartMacro
  <2> QED
    BY <2>1, AbortsKeeps
<1>4. CASE ~m.on /\ ~explicit
  <2>1. StartMacro(in, m, explicit) = Does(in, new)
    BY <1>4 DEF StartMacro
  <2> HIDE DEF new
  <2>2. LET e == Does(in, new) IN Outcome(e) /\ e.macro = new
    BY <1>2, DoesKeeps
  <2> QED
    BY <1>2, <1>4, <2>1, <2>2
<1>5. CASE ~m.on /\ explicit /\ m = NoMacro
  <2>1. StartMacro(in, m, explicit) = Does(in, on)
    BY <1>5 DEF StartMacro
  <2> HIDE DEF on
  <2>2. LET e == Does(in, on) IN Outcome(e) /\ e.macro = on
    BY <1>2, DoesKeeps
  <2> QED
    BY <1>2, <1>5, <2>1, <2>2
<1>6. CASE ~m.on /\ explicit /\ m # NoMacro
  <2>3. m.keys \in Seq(Key)
    BY <1>6, MacroOfKeys
  <2>1. StartMacro(in, m, explicit) = WithMacroInput(in, on, 1, m.keys) /\ m.keys \in Seq(Key)
    BY <1>6, <2>3 DEF StartMacro
  <2> HIDE DEF on
  <2>4. PICK n \in Int : n = 1
    OBVIOUS
  <2>5. LET e == WithMacroInput(in, on, n, m.keys) IN Outcome(e) /\ (~e.abort => e.macro = on)
    BY <1>2, <2>1, CalledKeeps
  <2>2. LET e == WithMacroInput(in, on, 1, m.keys) IN Outcome(e) /\ (~e.abort => e.macro = on)
    BY <2>4, <2>5
  <2> QED
    BY <1>2, <1>6, <2>1, <2>2
<1> QED
  BY <1>1, <1>3, <1>4, <1>5, <1>6

\* The end of a definition: the keys that end it are taken out.
LEMMA EndKeeps ==
  ASSUME NEW in \in Sources, Len(in.macros) <= MaxLevel + 1, NEW m \in MacroState,
         m.on => m.keys \in Seq(Key), NEW count \in Int, NEW length \in Nat
  PROVE  LET e == EndMacro(in, m, count, length)
         IN  /\ Outcome(e)
             /\ ~e.abort => /\ m.on /\ ~e.macro.on
                            /\ e.macro.keys = SubSeq(m.keys, 1, Len(m.keys) - length)
<1>1. m.on \in BOOLEAN
  BY DEF MacroState
<1>2. CASE ~m.on
  <2>1. EndMacro(in, m, count, length) = Aborts(in)
    BY <1>2 DEF EndMacro
  <2> QED
    BY <2>1, AbortsKeeps
<1>3. CASE m.on
  <2> DEFINE left == SubSeq(m.keys, 1, Len(m.keys) - length)
             m1 == [keys |-> left, on |-> FALSE]
  <2>1. Len(m.keys) \in Nat
    BY <1>3
  <2>2. Len(m.keys) - length \in Int /\ Len(m.keys) - length <= Len(m.keys)
    BY <2>1
  <2>3. left \in Seq(Key)
    BY <1>3, <2>2, PartOf
  <2> HIDE DEF left
  <2>4. m1 \in MacroState /\ ~m1.on
    BY <2>3 DEF MacroState
  <2>5. EndMacro(in, m, count, length) = CallMacro(in, m1, count - 1) /\ count - 1 \in Int
    BY <1>3 DEF EndMacro, left
  <2> HIDE DEF m1
  <2>6. PICK n \in Int : n = count - 1
    OBVIOUS
  <2>7. LET e == CallMacro(in, m1, n)
        IN  /\ Outcome(e)
            /\ ~e.abort => e.macro.on = m1.on /\ e.macro.keys = m1.keys
    BY <2>4, CallKeeps
  <2>8. ~m1.on /\ m1.keys = left
    BY DEF m1
  <2> QED
    BY <1>3, <2>5, <2>6, <2>7, <2>8 DEF left
<1> QED
  BY <1>1, <1>2, <1>3

-----------------------------------------------------------------------------
(* What a command leaves of the keys *)

\* A command of a keymap.
Command == [cmd : Commands, text : Seq(Key)]

\* What rl_insert reads ahead.
LEMMA AheadIsTyped ==
  ASSUME NEW in \in Sources
  PROVE  Ahead(in) \in Seq(Key) /\ Len(Ahead(in)) <= Len(in.typed)
<1>1. in.typed \in Seq(Key) /\ Len(in.typed) \in Nat
  BY DEF Sources
<1>2. CASE in.macros # <<>> \/ in.ungot # <<>>
  <2>1. Ahead(in) = <<>>
    BY <1>2 DEF Ahead
  <2> QED
    BY <1>1, <2>1
<1>3. CASE ~(in.macros # <<>> \/ in.ungot # <<>>)
  <2> DEFINE S == {n \in 0 .. Len(in.typed) : \A k \in 1 .. n : Inserting(in.typed[k])}
  <2>1. Ahead(in) = SubSeq(in.typed, 1, Max(S))
    BY <1>3 DEF Ahead
  <2>2. S \in SUBSET (0 .. Len(in.typed)) /\ 0 \in S
    BY <1>1
  <2> HIDE DEF S
  <2>3. Max(S) \in 0 .. Len(in.typed)
    BY <1>1, <2>2, MaxChosen
  <2>4. PICK n \in 0 .. Len(in.typed) : n = Max(S)
    BY <2>3
  <2>5. SubSeq(in.typed, 1, n) \in Seq(Key) /\ Len(SubSeq(in.typed, 1, n)) <= Len(in.typed)
    BY <1>1
  <2> QED
    BY <2>1, <2>4, <2>5
<1> QED
  BY <1>2, <1>3

\* What it leaves.
LEMMA AfterInsertKeeps ==
  ASSUME NEW in \in Sources
  PROVE  AfterInsert(in) \in Sources /\ AfterInsert(in).macros = in.macros
<1> DEFINE left == SubSeq(in.typed, Len(Ahead(in)) + 1, Len(in.typed))
<1>1. in.typed \in Seq(Key) /\ Len(in.typed) \in Nat
  BY DEF Sources
<1>2. left \in Seq(Key)
  <2>1. PICK n \in Nat : n = Len(Ahead(in))
    BY AheadIsTyped
  <2>2. SubSeq(in.typed, n + 1, Len(in.typed)) \in Seq(Key)
    BY <1>1
  <2> QED
    BY <2>1, <2>2
<1> HIDE DEF left
<1>3. CASE in.macros # <<>> \/ in.ungot # <<>> \/ left = <<>>
  <2>1. AfterInsert(in) = WithTyped(in, left)
    BY <1>3 DEF AfterInsert, left, WithTyped
  <2>2. WithTyped(in, left) \in Sources /\ WithTyped(in, left).macros = in.macros
    BY <1>2, SourcesKept
  <2> QED
    BY <2>1, <2>2
<1>4. CASE ~(in.macros # <<>> \/ in.ungot # <<>> \/ left = <<>>)
  <2>1. PICK key \in Key, q \in Seq(Key) : key = Head(left) /\ q = Tail(left)
    <3>1. ASSUME NEW r \in Seq(Key), r # <<>> PROVE Head(r) \in Key /\ Tail(r) \in Seq(Key)
      BY <3>1
    <3> QED
      BY <1>2, <1>4, <3>1
  <2>2. key \in Key \cup {None}
    OBVIOUS
  <2>3. PICK i1 \in Sources : i1 = WithPending(in, key) /\ i1.macros = in.macros
    BY <2>2, SourcesKept
  <2>4. WithTyped(i1, q) \in Sources /\ WithTyped(i1, q).macros = i1.macros
    BY SourcesKept
  <2>5. AfterInsert(in) = WithTyped(i1, q)
    BY <1>4, <2>1, <2>3 DEF AfterInsert, left, WithPending, WithTyped
  <2> QED
    BY <2>3, <2>4, <2>5
<1> QED
  BY <1>3, <1>4

\* What a command makes of the sources and the macro.
LEMMA EffectKeeps ==
  ASSUME NEW c \in Command, NEW in \in Sources, Len(in.macros) <= MaxLevel + 1,
         NEW m \in MacroState, m.on => m.keys \in Seq(Key), NEW length \in Nat,
         arg.count \in Int
  PROVE  LET e == Effect(c, in, m, length)
         IN  /\ Outcome(e)
             /\ c.cmd \in Kills \cup {"self-insert", "digit-argument", "left"} => ~e.abort
             /\ c.cmd \in Yanks /\ YankFails(c.cmd) => e.abort
             /\ ~e.abort =>
                  /\ c.cmd \notin {"start-kbd-macro", "end-kbd-macro", "call-last-kbd-macro"} =>
                       e.macro = m
                  /\ c.cmd = "start-kbd-macro" =>
                       e.macro.on /\ e.macro.keys = IF Explicit THEN m.keys ELSE <<>>
                  /\ c.cmd = "end-kbd-macro" =>
                       /\ m.on /\ ~e.macro.on
                       /\ e.macro.keys = SubSeq(m.keys, 1, Len(m.keys) - length)
                  /\ c.cmd = "call-last-kbd-macro" =>
                       /\ m # NoMacro /\ e.macro.on = m.on
                       /\ e.macro.keys = IF m.on THEN Front(m.keys) ELSE m.keys
<1>1. c.cmd \in Commands /\ c.text \in Seq(Key)
  BY DEF Command
<1>2. CASE c.cmd = "self-insert"
  <2>1. Effect(c, in, m, length) = Does(AfterInsert(in), m)
    BY <1>2 DEF Effect, Yanks
  <2>2. PICK i1 \in Sources : i1 = AfterInsert(in) /\ Len(i1.macros) <= MaxLevel + 1
    BY AfterInsertKeeps
  <2>3. ~Does(i1, m).abort /\ Does(i1, m).macro = m /\ Outcome(Does(i1, m))
    BY <2>2, DoesKeeps
  <2> QED
    BY <1>2, <2>1, <2>2, <2>3 DEF Yanks
<1>3. CASE c.cmd = "macro"
  <2>1. Effect(c, in, m, length) = WithMacroInput(in, m, 1, c.text)
    BY <1>3 DEF Effect, Yanks
  <2>2. PICK n \in Int, ks \in Seq(Key) : n = 1 /\ ks = c.text
    BY <1>1
  <2>3. LET e == WithMacroInput(in, m, n, ks) IN Outcome(e) /\ (~e.abort => e.macro = m)
    BY CalledKeeps
  <2> QED
    BY <1>3, <2>1, <2>2, <2>3 DEF Yanks, Kills
<1>4. CASE c.cmd = "start-kbd-macro"
  <2>1. Effect(c, in, m, length) = StartMacro(in, m, Explicit)
    BY <1>4 DEF Effect, Yanks
  <2>2. ASSUME NEW b \in BOOLEAN
        PROVE  LET e == StartMacro(in, m, b)
               IN  Outcome(e) /\ (~e.abort => e.macro.on /\ e.macro.keys = IF b THEN m.keys ELSE <<>>)
    BY StartKeeps
  <2>3. Explicit \in BOOLEAN
    BY DEF Explicit
  <2>4. LET e == StartMacro(in, m, Explicit)
        IN  /\ Outcome(e)
            /\ ~e.abort => e.macro.on /\ e.macro.keys = IF Explicit THEN m.keys ELSE <<>>
    BY <2>2, <2>3
  <2> QED
    BY <1>4, <2>1, <2>4 DEF Yanks, Kills
<1>5. CASE c.cmd = "end-kbd-macro"
  <2>1. Effect(c, in, m, length) = EndMacro(in, m, arg.count, length)
    BY <1>5 DEF Effect, Yanks
  <2>2. PICK n \in Int : n = arg.count
    OBVIOUS
  <2>3. LET e == EndMacro(in, m, n, length)
        IN  /\ Outcome(e)
            /\ ~e.abort => /\ m.on /\ ~e.macro.on
                           /\ e.macro.keys = SubSeq(m.keys, 1, Len(m.keys) - length)
    BY EndKeeps
  <2> QED
    BY <1>5, <2>1, <2>2, <2>3 DEF Yanks, Kills
<1>6. CASE c.cmd = "call-last-kbd-macro"
  <2>1. Effect(c, in, m, length) = CallMacro(in, m, arg.count)
    BY <1>6 DEF Effect, Yanks
  <2>2. PICK n \in Int : n = arg.count
    OBVIOUS
  <2>3. LET e == CallMacro(in, m, n)
        IN  /\ Outcome(e)
            /\ ~e.abort => /\ m # NoMacro /\ e.macro.on = m.on
                           /\ e.macro.keys = IF m.on THEN Front(m.keys) ELSE m.keys
    BY CallKeeps
  <2> QED
    BY <1>6, <2>1, <2>2, <2>3 DEF Yanks, Kills
<1>7. CASE c.cmd = "abort" \/ (c.cmd \in Yanks /\ YankFails(c.cmd))
  <2>1. Effect(c, in, m, length) = Aborts(in)
    BY <1>7 DEF Effect, Yanks
  <2> QED
    BY <1>7, <2>1, AbortsKeeps DEF Yanks, Kills
<1>8. CASE c.cmd \in Kills \cup {"digit-argument", "left"} \/ (c.cmd \in Yanks /\ ~YankFails(c.cmd))
  <2>1. Effect(c, in, m, length) = Does(in, m)
    BY <1>8 DEF Effect, Yanks, Kills
  <2>3. ~Does(in, m).abort /\ Does(in, m).macro = m /\ Outcome(Does(in, m))
    BY DoesKeeps
  <2> QED
    BY <1>8, <2>1, <2>3 DEF Yanks, Kills
<1> QED
  BY <1>1, <1>2, <1>3, <1>4, <1>5, <1>6, <1>7, <1>8 DEF Commands

-----------------------------------------------------------------------------
(* Texts *)

\* A line, or a part of one: kept folded, so that the provers see few sequences.
Text == Seq(Key)

\* Joining two texts, and the parts of what was joined.
LEMMA Joined ==
  ASSUME NEW a \in Text, NEW b \in Text
  PROVE  /\ a \o b \in Text /\ Len(a \o b) = Len(a) + Len(b)
         /\ SubSeq(a \o b, 1, Len(a)) = a
         /\ SubSeq(a \o b, Len(a) + 1, Len(a \o b)) = b
         /\ a \o <<>> = a /\ <<>> \o a = a
         /\ \A k \in 1 .. Len(a) : (a \o b)[k] = a[k]
         /\ \A k \in 1 .. Len(b) : (a \o b)[Len(a) + k] = b[k]
<1> USE DEF Text
<1>1. a \o b \in Text /\ Len(a \o b) = Len(a) + Len(b) /\ Len(a) \in Nat /\ Len(b) \in Nat
  OBVIOUS
<1>2. /\ \A k \in 1 .. Len(a) : (a \o b)[k] = a[k]
      /\ \A k \in 1 .. Len(b) : (a \o b)[Len(a) + k] = b[k]
  OBVIOUS
<1>3. SubSeq(a \o b, 1, Len(a)) = a
  <2>1. PICK ab \in Text : ab = a \o b
    BY <1>1
  <2>2. /\ SubSeq(ab, 1, Len(a)) \in Text /\ Len(SubSeq(ab, 1, Len(a))) = Len(a)
        /\ \A k \in 1 .. Len(a) : SubSeq(ab, 1, Len(a))[k] = ab[k]
    BY <1>1, <2>1
  <2> QED
    BY <1>2, <2>1, <2>2, SameSequence
<1>4. SubSeq(a \o b, Len(a) + 1, Len(a \o b)) = b
  <2>1. PICK ab \in Text : ab = a \o b
    BY <1>1
  <2>2. PICK r \in Text : r = SubSeq(ab, Len(a) + 1, Len(ab))
    BY <1>1, <2>1
  <2>3. Len(r) = Len(b) /\ \A k \in 1 .. Len(b) : r[k] = ab[Len(a) + k]
    BY <1>1, <2>1, <2>2
  <2> QED
    BY <1>2, <2>1, <2>2, <2>3, SameSequence
<1>5. a \o <<>> = a /\ <<>> \o a = a
  OBVIOUS
<1> QED
  BY <1>1, <1>2, <1>3, <1>4, <1>5

\* Joining is associative.
LEMMA Associative ==
  ASSUME NEW a \in Text, NEW b \in Text, NEW c \in Text
  PROVE  (a \o b) \o c = a \o (b \o c)
BY DEF Text

\* A text is its two parts.
LEMMA Halves ==
  ASSUME NEW l \in Text, NEW p \in 0 .. Len(l)
  PROVE  /\ SubSeq(l, 1, p) \in Text /\ Len(SubSeq(l, 1, p)) = p
         /\ SubSeq(l, p + 1, Len(l)) \in Text /\ Len(SubSeq(l, p + 1, Len(l))) = Len(l) - p
         /\ l = SubSeq(l, 1, p) \o SubSeq(l, p + 1, Len(l))
<1> USE DEF Text
<1>1. Len(l) \in Nat
  OBVIOUS
<1>7. PICK n \in Nat : n = Len(l) /\ p \in Nat /\ p <= n
  BY <1>1
<1>2. PICK a \in Text : a = SubSeq(l, 1, p) /\ Len(a) = p /\ \A k \in 1 .. p : a[k] = l[k]
  <2>1. SubSeq(l, 1, p) \in Text /\ Len(SubSeq(l, 1, p)) = p
    BY <1>7, PartOf
  <2>2. \A k \in 1 .. p : SubSeq(l, 1, p)[k] = l[k]
    BY <1>7
  <2> QED
    BY <2>1, <2>2
<1>3. PICK b \in Text : /\ b = SubSeq(l, p + 1, Len(l)) /\ Len(b) = n - p
                          /\ \A k \in 1 .. (n - p) : b[k] = l[p + k]
  <2>1. SubSeq(l, p + 1, n) \in Text /\ Len(SubSeq(l, p + 1, n)) = n - p
    BY <1>7, PartOf
  <2>2. \A k \in 1 .. (n - p) : SubSeq(l, p + 1, n)[k] = l[p + k]
    BY <1>7
  <2> QED
    BY <1>7, <2>1, <2>2
<1>9. n - p \in Nat /\ p + (n - p) = n
  BY <1>7
<1>10. PICK m \in Nat : m = n - p /\ n = p + m
  BY <1>9
<1>11. /\ a \o b \in Text /\ Len(a \o b) = Len(a) + Len(b)
       /\ \A k \in 1 .. Len(a) : (a \o b)[k] = a[k]
       /\ \A k \in 1 .. Len(b) : (a \o b)[Len(a) + k] = b[k]
  BY Joined
<1>4. Len(a \o b) = n /\ a \o b \in Text
  BY <1>10, <1>11, <1>2, <1>3
<1>8. /\ \A k \in 1 .. p : (a \o b)[k] = a[k]
      /\ \A k \in 1 .. (n - p) : (a \o b)[p + k] = b[k]
  BY <1>10, <1>11, <1>2, <1>3
<1>5. ASSUME NEW k \in 1 .. Len(l) PROVE l[k] = (a \o b)[k]
  <2>1. CASE k <= p
    <3>1. k \in 1 .. p
      BY <1>7, <2>1
    <3> QED
      BY <1>2, <1>8, <3>1
  <2>2. CASE ~(k <= p)
    <3>1. PICK d \in 1 .. (n - p) : k = p + d
      <4>1. k - p \in 1 .. (n - p) /\ k = p + (k - p)
        BY <1>7, <2>2
      <4> QED
        BY <4>1
    <3> QED
      BY <1>3, <1>8, <3>1
  <2> QED
    BY <2>1, <2>2
<1>6. l = a \o b
  BY <1>7, <1>4, <1>5, SameSequence
<1> QED
  BY <1>7, <1>2, <1>3, <1>6

\* The same, with names for the parts.
LEMMA TwoParts ==
  ASSUME NEW l \in Text, NEW p \in 0 .. Len(l)
  PROVE  \E a, b \in Text :
           /\ a = SubSeq(l, 1, p) /\ Len(a) = p /\ l = a \o b
           /\ b = SubSeq(l, p + 1, Len(l)) /\ Len(b) = Len(l) - p
<1>1. /\ SubSeq(l, 1, p) \in Text /\ Len(SubSeq(l, 1, p)) = p
      /\ SubSeq(l, p + 1, Len(l)) \in Text /\ Len(SubSeq(l, p + 1, Len(l))) = Len(l) - p
      /\ l = SubSeq(l, 1, p) \o SubSeq(l, p + 1, Len(l))
  BY Halves
<1> QED
  BY <1>1

\* A part of a part.
LEMMA PartOfPart ==
  ASSUME NEW l \in Text, NEW p \in Nat, NEW d \in Nat, p + d <= Len(l)
  PROVE  LET r == SubSeq(l, p + 1, Len(l))
         IN  /\ SubSeq(r, 1, d) = SubSeq(l, p + 1, p + d)
             /\ SubSeq(r, d + 1, Len(r)) = SubSeq(l, p + d + 1, Len(l))
<1> USE DEF Text
<1>1. PICK n \in Nat : n = Len(l) /\ p + d <= n
  OBVIOUS
<1>2. PICK c \in Nat : c = n - p /\ n = p + c /\ d <= c
  <2>1. n - p \in Nat /\ n = p + (n - p) /\ d <= n - p
    BY <1>1
  <2> QED
    BY <2>1
<1>3. /\ SubSeq(l, p + 1, n) \in Text /\ Len(SubSeq(l, p + 1, n)) = c
      /\ \A k \in 1 .. c : SubSeq(l, p + 1, n)[k] = l[p + k]
  BY <1>1, <1>2
<1>4. PICK r \in Text : /\ r = SubSeq(l, p + 1, n) /\ Len(r) = c
                          /\ \A k \in 1 .. c : r[k] = l[p + k]
  BY <1>3
<1>5. SubSeq(r, 1, d) = SubSeq(l, p + 1, p + d)
  <2>1. /\ SubSeq(r, 1, d) \in Text /\ Len(SubSeq(r, 1, d)) = d
        /\ \A k \in 1 .. d : SubSeq(r, 1, d)[k] = r[k]
    BY <1>2, <1>4
  <2>2. /\ SubSeq(l, p + 1, p + d) \in Text /\ Len(SubSeq(l, p + 1, p + d)) = d
        /\ \A k \in 1 .. d : SubSeq(l, p + 1, p + d)[k] = l[p + k]
    <3>1. PICK g \in Nat : g = p + d /\ g <= Len(l) /\ p + 1 \in Nat \ {0}
      BY <1>1
    <3>2. SubSeq(l, p + 1, g) \in Text
      BY <3>1, PartOf
    <3>3. Len(SubSeq(l, p + 1, g)) = d
      BY <3>1
    <3>4. \A k \in 1 .. d : SubSeq(l, p + 1, g)[k] = l[p + k]
      BY <3>1
    <3> QED
      BY <3>1, <3>2, <3>3, <3>4
  <2>3. \A k \in 1 .. d : k \in 1 .. c
    BY <1>2
  <2>4. \A k \in 1 .. d : SubSeq(r, 1, d)[k] = SubSeq(l, p + 1, p + d)[k]
    BY <1>4, <2>1, <2>2, <2>3
  <2> QED
    BY <2>1, <2>2, <2>4, SameSequence
<1>6. SubSeq(r, d + 1, c) = SubSeq(l, p + d + 1, n)
  <2> DEFINE e == c - d
  <2>5. e \in Nat /\ c = d + e /\ n = p + d + e
    BY <1>2
  <2> HIDE DEF e
  <2>1. /\ SubSeq(r, d + 1, c) \in Text /\ Len(SubSeq(r, d + 1, c)) = e
        /\ \A k \in 1 .. e : SubSeq(r, d + 1, c)[k] = r[d + k]
    BY <1>4, <2>5
  <2>2. /\ SubSeq(l, p + d + 1, n) \in Text /\ Len(SubSeq(l, p + d + 1, n)) = e
        /\ \A k \in 1 .. e : SubSeq(l, p + d + 1, n)[k] = l[p + d + k]
    <3>1. PICK g \in Nat : g = p + d /\ n = g + e
      BY <2>5
    <3>2. /\ SubSeq(l, g + 1, n) \in Text /\ Len(SubSeq(l, g + 1, n)) = e
          /\ \A k \in 1 .. e : SubSeq(l, g + 1, n)[k] = l[g + k]
      <4>1. g + 1 \in Nat \ {0} /\ n \in Int /\ n <= Len(l) /\ (n - (g + 1)) + 1 = e
        BY <1>1, <2>5, <3>1
      <4>2. SubSeq(l, g + 1, n) \in Text
        BY <4>1, PartOf
      <4>3. Len(SubSeq(l, g + 1, n)) = e
        BY <1>1, <2>5, <3>1
      <4>4. \A k \in 1 .. e : SubSeq(l, g + 1, n)[k] = l[g + k]
        BY <1>1, <2>5, <3>1
      <4> QED
        BY <4>2, <4>3, <4>4
    <3> QED
      BY <3>1, <3>2
  <2>3. \A k \in 1 .. e : d + k \in 1 .. c /\ p + (d + k) = p + d + k
    BY <2>5
  <2>4. ASSUME NEW k \in 1 .. e PROVE SubSeq(r, d + 1, c)[k] = SubSeq(l, p + d + 1, n)[k]
    <3>1. SubSeq(r, d + 1, c)[k] = r[d + k]
      BY <2>1
    <3>2. PICK g \in 1 .. c : g = d + k /\ p + g = p + d + k
      BY <2>3
    <3>3. r[g] = l[p + g]
      BY <1>4
    <3>4. SubSeq(l, p + d + 1, n)[k] = l[p + d + k]
      BY <2>2
    <3> QED
      BY <3>1, <3>2, <3>3, <3>4
  <2> QED
    BY <2>1, <2>2, <2>4, SameSequence
<1> QED
  BY <1>1, <1>4, <1>5, <1>6

\* A text cut out, a text put in.
LEMMA CutOut ==
  ASSUME NEW l \in Text, NEW p \in 0 .. Len(l), NEW q \in p .. Len(l)
  PROVE  /\ Cut(l, p, q) \in Text /\ Len(Cut(l, p, q)) = Len(l) - (q - p)
         /\ SubSeq(l, p + 1, q) \in Text /\ Len(SubSeq(l, p + 1, q)) = q - p
         /\ l = SubSeq(l, 1, p) \o SubSeq(l, p + 1, q) \o SubSeq(l, q + 1, Len(l))
         /\ Splice(Cut(l, p, q), p, SubSeq(l, p + 1, q)) = l
         /\ Cut(l, p, p) = l
<1>1. PICK n \in Nat : n = Len(l) /\ p \in Nat /\ q \in Nat /\ p <= q /\ q <= n
  BY DEF Text
<1>2. PICK a, r \in Text :
        /\ a = SubSeq(l, 1, p) /\ Len(a) = p /\ l = a \o r
        /\ r = SubSeq(l, p + 1, Len(l)) /\ Len(r) = Len(l) - p
  BY TwoParts
<1>3. PICK d \in Nat : d = q - p /\ q = p + d /\ d <= n - p
  <2>1. q - p \in Nat /\ q = p + (q - p) /\ q - p <= n - p
    BY <1>1
  <2> QED
    BY <2>1
<1>4. d \in 0 .. Len(r) /\ Len(r) = n - p
  <2>1. Len(r) = n - p
    BY <1>1, <1>2
  <2>2. n - p \in Nat
    BY <1>1
  <2> QED
    BY <1>3, <2>1, <2>2
<1>5. PICK m, b \in Text :
        /\ m = SubSeq(r, 1, d) /\ Len(m) = d /\ r = m \o b
        /\ b = SubSeq(r, d + 1, Len(r)) /\ Len(b) = Len(r) - d
  BY <1>4, TwoParts
<1>6. m = SubSeq(l, p + 1, q) /\ b = SubSeq(l, q + 1, Len(l))
  <2>1. p + d <= Len(l)
    BY <1>1, <1>3
  <2>3. LET s == SubSeq(l, p + 1, Len(l))
        IN  /\ SubSeq(s, 1, d) = SubSeq(l, p + 1, p + d)
            /\ SubSeq(s, d + 1, Len(s)) = SubSeq(l, p + d + 1, Len(l))
    <3>1. p \in Nat
      BY <1>1
    <3> QED
      BY <2>1, <3>1, PartOfPart
  <2>2. /\ SubSeq(r, 1, d) = SubSeq(l, p + 1, p + d)
        /\ SubSeq(r, d + 1, Len(r)) = SubSeq(l, p + d + 1, Len(l))
    BY <1>2, <2>3
  <2> QED
    BY <1>3, <1>5, <2>2
<1>7. Cut(l, p, q) = a \o b /\ a \o b \in Text /\ Len(a \o b) = n - d
  <2>1. a \o b \in Text /\ Len(a \o b) = Len(a) + Len(b)
    BY Joined
  <2>2. Cut(l, p, q) = a \o b
    BY <1>2, <1>6 DEF Cut
  <2>3. Len(a) = p /\ Len(b) = (n - p) - d
    BY <1>2, <1>4, <1>5
  <2>4. p + ((n - p) - d) = n - d
    BY <1>1, <1>3
  <2> QED
    BY <2>1, <2>2, <2>3, <2>4
<1>8. l = (a \o m) \o b
  <2>1. (a \o m) \o b = a \o (m \o b)
    BY Associative, ZenonT(60)
  <2> QED
    BY <1>2, <1>5, <2>1
<1>9. Splice(a \o b, p, m) = l
  <2>1. /\ SubSeq(a \o b, 1, Len(a)) = a
        /\ SubSeq(a \o b, Len(a) + 1, Len(a \o b)) = b
    BY Joined
  <2> QED
    BY <1>2, <1>8, <2>1 DEF Splice
<1>10. Cut(l, p, p) = l
  BY <1>1, <1>2 DEF Cut
<1> QED
  BY <1>1, <1>2, <1>3, <1>5, <1>6, <1>7, <1>8, <1>9, <1>10

\* A text put in, and cut out again.
LEMMA PutIn ==
  ASSUME NEW l \in Text, NEW p \in 0 .. Len(l), NEW new \in Text
  PROVE  /\ Splice(l, p, new) \in Text /\ Len(Splice(l, p, new)) = Len(l) + Len(new)
         /\ Cut(Splice(l, p, new), p, p + Len(new)) = l
<1>1. PICK a, b \in Text :
        /\ a = SubSeq(l, 1, p) /\ Len(a) = p /\ l = a \o b
        /\ b = SubSeq(l, p + 1, Len(l)) /\ Len(b) = Len(l) - p
  BY TwoParts
<1>2. a \o new \in Text /\ Len(a \o new) = Len(a) + Len(new)
  BY Joined
<1>3. PICK ab \in Text : ab = a \o new /\ Len(ab) = p + Len(new)
  BY <1>1, <1>2
<1>4. ab \o b = a \o (new \o b) /\ new \o b \in Text
  <2>1. (a \o new) \o b = a \o (new \o b)
    BY Associative, ZenonT(60)
  <2>2. new \o b \in Text
    BY Joined
  <2> QED
    BY <1>3, <2>1, <2>2
<1>5. PICK nb \in Text : nb = new \o b
  BY <1>4
<1>6. /\ ab \o b \in Text /\ Len(ab \o b) = Len(ab) + Len(b)
      /\ SubSeq(ab \o b, Len(ab) + 1, Len(ab \o b)) = b
  BY Joined
<1>7. SubSeq(a \o nb, 1, Len(a)) = a
  BY Joined
<1>8. Splice(l, p, new) = ab \o b
  BY <1>1, <1>3 DEF Splice
<1>9. Cut(ab \o b, p, p + Len(new)) = l
  BY <1>1, <1>3, <1>4, <1>5, <1>6, <1>7 DEF Cut
<1>10. Len(ab \o b) = Len(l) + Len(new)
  <2>1. Len(l) \in Nat /\ Len(new) \in Nat /\ p \in Nat
    BY DEF Text
  <2>2. Len(ab) = p + Len(new) /\ Len(b) = Len(l) - p
    BY <1>1, <1>3
  <2>3. (p + Len(new)) + (Len(l) - p) = Len(l) + Len(new)
    BY <2>1
  <2> QED
    BY <1>6, <2>2, <2>3
<1> QED
  BY <1>6, <1>8, <1>9, <1>10

\* The text that is empty, and the whole text, as parts.
LEMMA EmptyPart ==
  ASSUME NEW l \in Text
  PROVE  /\ <<>> \in Text /\ Len(l) \in Nat
         /\ SubSeq(l, 1, 0) = <<>> /\ SubSeq(l, Len(l) + 1, Len(l)) = <<>>
         /\ SubSeq(l, 1, Len(l)) = l
         /\ l = <<>> <=> Len(l) = 0
BY DEF Text

\* What is killed at the end is put behind what was killed before.
LEMMA KilledForward ==
  ASSUME NEW l \in Text, NEW p \in 0 .. Len(l), NEW new \in Text
  PROVE  Splice(Cut(l, p, Len(l)), p, new \o SubSeq(l, p + 1, Len(l))) = Splice(l, p, new)
<1>1. PICK a, b \in Text :
        /\ a = SubSeq(l, 1, p) /\ Len(a) = p /\ l = a \o b
        /\ b = SubSeq(l, p + 1, Len(l)) /\ Len(b) = Len(l) - p
  BY TwoParts
<1>2. /\ SubSeq(l, Len(l) + 1, Len(l)) = <<>> /\ a \o <<>> = a
      /\ SubSeq(a, 1, Len(a)) = a /\ SubSeq(a, Len(a) + 1, Len(a)) = <<>>
  BY EmptyPart, Joined
<1>3. Cut(l, p, Len(l)) = a
  BY <1>1, <1>2 DEF Cut
<1>4. new \o b \in Text /\ (a \o new) \o b = a \o (new \o b)
  <2>1. new \o b \in Text
    BY Joined
  <2>2. (a \o new) \o b = a \o (new \o b)
    BY Associative
  <2> QED
    BY <2>1, <2>2
<1>5. a \o (new \o b) \in Text /\ (a \o (new \o b)) \o <<>> = a \o (new \o b)
  <2>1. PICK nb \in Text : nb = new \o b
    BY <1>4
  <2>2. a \o nb \in Text
    BY Joined
  <2>3. PICK all \in Text : all = a \o nb
    BY <2>2
  <2>4. all \o <<>> = all
    BY Joined
  <2> QED
    BY <2>1, <2>3, <2>4
<1>6. Splice(a, p, new \o b) = a \o (new \o b)
  BY <1>1, <1>2, <1>5 DEF Splice
<1> QED
  BY <1>1, <1>3, <1>4, <1>6 DEF Splice

\* What is killed at the beginning is put before what was killed before.
LEMMA KilledBackward ==
  ASSUME NEW l \in Text, NEW p \in 0 .. Len(l), NEW new \in Text
  PROVE  Splice(Cut(l, 0, p), 0, SubSeq(l, 1, p) \o new) = Splice(l, p, new)
<1>1. PICK a, b \in Text :
        /\ a = SubSeq(l, 1, p) /\ Len(a) = p /\ l = a \o b
        /\ b = SubSeq(l, p + 1, Len(l)) /\ Len(b) = Len(l) - p
  BY TwoParts
<1>2. /\ SubSeq(l, 1, 0) = <<>> /\ <<>> \o b = b
      /\ SubSeq(b, 1, 0) = <<>> /\ SubSeq(b, 1, Len(b)) = b
  BY EmptyPart, Joined
<1>3. Cut(l, 0, p) = b
  BY <1>1, <1>2 DEF Cut
<1>4. a \o new \in Text /\ <<>> \o (a \o new) = a \o new
  <2>1. a \o new \in Text
    BY Joined
  <2>2. PICK an \in Text : an = a \o new
    BY <2>1
  <2>3. <<>> \o an = an
    BY Joined
  <2> QED
    BY <2>2, <2>3
<1>5. Splice(b, 0, a \o new) = (a \o new) \o b
  <2>1. Splice(b, 0, a \o new) = (SubSeq(b, 1, 0) \o (a \o new)) \o SubSeq(b, 0 + 1, Len(b))
    BY DEF Splice
  <2>2. 0 + 1 = 1
    OBVIOUS
  <2> QED
    BY <1>2, <1>4, <2>1, <2>2
<1> QED
  BY <1>1, <1>3, <1>5 DEF Splice

\* The kill ring stays one: its last slot is what was killed, alone or with more.
LEMMA CopyKeeps ==
  ASSUME NEW slots \in Seq(Slot), Len(slots) <= MaxKills, NEW new \in Slot,
         NEW append \in BOOLEAN, NEW more \in BOOLEAN
  PROVE  LET r == CopyToKillRing(slots, new, append, more)
         IN  /\ r \in Seq(Slot) /\ r # <<>> /\ Len(r) <= MaxKills
             /\ more /\ slots # <<>> =>
                  r[Len(r)] = IF append THEN slots[Len(slots)] \o new ELSE new \o slots[Len(slots)]
             /\ ~(more /\ slots # <<>>) => r[Len(r)] = new
<1>1. Len(slots) \in Nat /\ MaxKills \in Nat \ {0}
  BY CommandLoopAssumption
<1>2. CASE more /\ slots # <<>>
  <2> DEFINE both == IF append THEN slots[Len(slots)] \o new ELSE new \o slots[Len(slots)]
             r == [slots EXCEPT ![Len(slots)] = both]
  <2>1. slots[Len(slots)] \in Slot /\ Len(slots) \in 1 .. Len(slots)
    BY <1>1, <1>2
  <2>2. both \in Slot
    <3>1. ASSUME NEW a \in Slot, NEW b \in Slot PROVE a \o b \in Slot
      BY <3>1 DEF Slot
    <3> QED
      BY <2>1, <3>1
  <2>3. CopyToKillRing(slots, new, append, more) = r
    BY <1>2 DEF CopyToKillRing
  <2> HIDE DEF both
  <2>4. r \in Seq(Slot) /\ Len(r) = Len(slots) /\ r[Len(slots)] = both
    <3>1. PICK n \in Nat : n = Len(slots) /\ slots \in [1 .. n -> Slot] /\ n \in 1 .. n
      BY <2>1
    <3>2. r \in [1 .. n -> Slot] /\ r[n] = both
      BY <2>2, <3>1
    <3> QED
      BY <3>1, <3>2
  <2> HIDE DEF r
  <2>5. r # <<>> /\ Len(r) <= MaxKills /\ r[Len(r)] = both
    <3>1. Len(r) # 0
      BY <1>1, <2>1, <2>4
    <3> QED
      BY <2>4, <3>1
  <2> QED
    BY <1>2, <2>3, <2>4, <2>5 DEF both
<1>3. CASE ~(more /\ slots # <<>>)
  <2> DEFINE kept == IF Len(slots) = MaxKills THEN Tail(slots) ELSE slots
  <2>1. kept \in Seq(Slot) /\ Len(kept) < MaxKills
    <3>1. CASE Len(slots) = MaxKills
      <4>1. slots # <<>>
        BY <1>1, <3>1
      <4> QED
        BY <1>1, <3>1, <4>1, SequenceFacts
    <3>2. CASE Len(slots) # MaxKills
      BY <1>1, <3>2
    <3> QED
      BY <3>1, <3>2
  <2>2. CopyToKillRing(slots, new, append, more) = kept \o <<new>>
    BY <1>3 DEF CopyToKillRing
  <2> HIDE DEF kept
  <2>3. /\ kept \o <<new>> \in Seq(Slot) /\ Len(kept \o <<new>>) = Len(kept) + 1
        /\ (kept \o <<new>>)[Len(kept) + 1] = new
    BY <2>1
  <2>4. kept \o <<new>> # <<>> /\ Len(kept \o <<new>>) <= MaxKills
    BY <1>1, <2>1, <2>3
  <2> QED
    BY <1>3, <2>2, <2>3, <2>4
<1> QED
  BY <1>2, <1>3

\* A kill from p to q: the line is shorter and the ring a ring. The first of a run
\* can be taken back, and so can the next one if the ones before can.
LEMMA KillText ==
  ASSUME NEW l \in Text, NEW p \in 0 .. Len(l), NEW q \in p .. Len(l), p # q,
         NEW slots, NEW i, RingIs(slots, i), NEW append \in BOOLEAN, NEW more \in BOOLEAN
  PROVE  LET r == CopyToKillRing(slots, SubSeq(l, p + 1, q), append, more)
         IN  /\ RingIs(r, Len(r))
             /\ OnLine(Cut(l, p, q), p) /\ Len(Cut(l, p, q)) < Len(l)
             /\ ~more => Restores(Cut(l, p, q), p, r, l)
             /\ \A at, before : /\ more /\ Restores(l, at, slots, before)
                                /\ IF append THEN p = at /\ q = Len(l) ELSE p = 0 /\ q = at
                                => Restores(Cut(l, p, q), p, r, before)
<1> DEFINE new == SubSeq(l, p + 1, q)
           left == Cut(l, p, q)
<1>1. PICK n \in Nat : n = Len(l) /\ p \in Nat /\ q \in Nat /\ p < q /\ q <= n
  BY DEF Text
<1>2. /\ left \in Text /\ Len(left) = Len(l) - (q - p)
      /\ new \in Text /\ Len(new) = q - p
      /\ Splice(left, p, new) = l
  BY CutOut
<1> HIDE DEF new, left
<1>3. OnLine(left, p) /\ Len(left) < Len(l)
  <2>1. Len(left) = n - (q - p)
    BY <1>1, <1>2
  <2> QED
    BY <1>1, <1>2, <2>1 DEF OnLine, Text
<1>4. new \in Slot
  <2>1. Len(new) # 0
    BY <1>1, <1>2
  <2> QED
    BY <1>2, <2>1 DEF Slot, Text
<1>5. PICK r : r = CopyToKillRing(slots, new, append, more)
  OBVIOUS
<1>6. /\ r \in Seq(Slot) /\ r # <<>> /\ Len(r) <= MaxKills
      /\ more /\ slots # <<>> =>
           r[Len(r)] = IF append THEN slots[Len(slots)] \o new ELSE new \o slots[Len(slots)]
      /\ ~(more /\ slots # <<>>) => r[Len(r)] = new
  <2>1. slots \in Seq(Slot) /\ Len(slots) <= MaxKills
    BY DEF RingIs
  <2>2. LET s == CopyToKillRing(slots, new, append, more)
        IN  /\ s \in Seq(Slot) /\ s # <<>> /\ Len(s) <= MaxKills
            /\ more /\ slots # <<>> =>
                 s[Len(s)] = IF append THEN slots[Len(slots)] \o new ELSE new \o slots[Len(slots)]
            /\ ~(more /\ slots # <<>>) => s[Len(s)] = new
    BY <1>4, <2>1, CopyKeeps
  <2> QED
    BY <1>5, <2>2
<1>7. RingIs(r, Len(r))
  BY <1>6 DEF RingIs
<1>8. ~more => Restores(left, p, r, l)
  BY <1>2, <1>6 DEF Restores
<1>9. ASSUME NEW at, NEW before, more, Restores(l, at, slots, before),
             IF append THEN p = at /\ q = Len(l) ELSE p = 0 /\ q = at
      PROVE  Restores(left, p, r, before)
  <2>1. slots # <<>> /\ Splice(l, at, slots[Len(slots)]) = before
    BY <1>9 DEF Restores
  <2>2. PICK last \in Text : last = slots[Len(slots)]
    <3>1. slots \in Seq(Slot) /\ Len(slots) \in 1 .. Len(slots)
      BY <2>1 DEF RingIs
    <3> QED
      BY <3>1 DEF Slot, Text
  <2>3. CASE append
    <3>1. Splice(left, p, last \o new) = Splice(l, p, last)
      BY <1>9, <2>3, KilledForward DEF left, new
    <3> QED
      BY <1>6, <1>9, <2>1, <2>2, <2>3, <3>1 DEF Restores
  <2>4. CASE ~append
    <3>1. Splice(Cut(l, 0, q), 0, SubSeq(l, 1, q) \o last) = Splice(l, q, last)
      <4>1. q \in 0 .. Len(l)
        BY <1>1
      <4> QED
        BY <4>1, KilledBackward
    <3>2. p = 0 /\ q = at /\ 0 + 1 = 1
      BY <1>9, <2>4
    <3>3. Splice(left, p, new \o last) = Splice(l, at, last)
      BY <3>1, <3>2 DEF left, new
    <3> QED
      BY <1>6, <1>9, <2>1, <2>2, <2>4, <3>3 DEF Restores
  <2> QED
    BY <2>3, <2>4
<1>10. \A at, before : /\ more /\ Restores(l, at, slots, before)
                       /\ IF append THEN p = at /\ q = Len(l) ELSE p = 0 /\ q = at
                       => Restores(left, p, r, before)
  BY <1>9
<1> QED
  BY <1>3, <1>5, <1>7, <1>8, <1>10 DEF new, left

\* The text a kill command takes.
LEMMA KillIs ==
  ASSUME TextOK, NEW cmd \in Kills, Kill(cmd)
  PROVE  \E p \in 0 .. Len(line), append \in BOOLEAN : \E q \in p .. Len(line) :
           /\ line' = Cut(line, p, q) /\ point' = p
           /\ p = q => ring' = ring /\ index' = index
           /\ p # q => /\ ring' = CopyToKillRing(ring, SubSeq(line, p + 1, q), append, lastKill)
                       /\ index' = Len(ring')
           /\ IF append THEN q = Len(line) /\ (p = point \/ (cmd = "kill-whole-line" /\ p = 0))
              ELSE p = 0 /\ q = point
           /\ IsKill(cmd) <=> p # q \/ cmd = "kill-whole-line"
           /\ cmd = "kill-whole-line" => append /\ p = 0
<1> DEFINE Taken(p, append, q) ==
             /\ line' = Cut(line, p, q) /\ point' = p
             /\ p = q => ring' = ring /\ index' = index
             /\ p # q => /\ ring' = CopyToKillRing(ring, SubSeq(line, p + 1, q), append, lastKill)
                         /\ index' = Len(ring')
             /\ IF append THEN q = Len(line) /\ (p = point \/ (cmd = "kill-whole-line" /\ p = 0))
                ELSE p = 0 /\ q = point
             /\ IsKill(cmd) <=> p # q \/ cmd = "kill-whole-line"
             /\ cmd = "kill-whole-line" => append /\ p = 0
<1>1. PICK n \in Nat : n = Len(line) /\ point \in 0 .. n
  BY DEF TextOK, OnLine
<1>2. \A a, b \in Nat : a <= b => /\ Min({a, b}) = a /\ Max({a, b}) = b
                                  /\ Min({b, a}) = a /\ Max({b, a}) = b
  BY DEF Min, Max
<1>3. \A from, to :
        Extent(cmd) = <<from, to>> =>
          /\ line' = Cut(line, Min({from, to}), Max({from, to})) /\ point' = Min({from, to})
          /\ IF Min({from, to}) = Max({from, to}) THEN ring' = ring /\ index' = index
             ELSE /\ ring' = CopyToKillRing(ring,
                               SubSeq(line, Min({from, to}) + 1, Max({from, to})), from < to, lastKill)
                  /\ index' = Len(ring')
  BY DEF Kill
<1>4. CASE cmd = "kill-line"
  <2>1. Extent(cmd) = <<point, n>> /\ cmd \in Kills
    BY <1>1, <1>4 DEF Extent, Kills
  <2>2. point <= n /\ point \in Nat /\ n \in Nat
    BY <1>1
  <2>3. Min({point, n}) = point /\ Max({point, n}) = n
    BY <1>2, <2>2
  <2>4. /\ line' = Cut(line, point, n) /\ point' = point
        /\ IF point = n THEN ring' = ring /\ index' = index
           ELSE /\ ring' = CopyToKillRing(ring, SubSeq(line, point + 1, n), point < n, lastKill)
                /\ index' = Len(ring')
    BY <1>3, <2>1, <2>3
  <2>5. IsKill(cmd) <=> point # n \/ cmd = "kill-whole-line"
    BY <2>1 DEF IsKill
  <2>6. point # n => (point < n) = TRUE
    BY <2>2
  <2>7. Taken(point, TRUE, n)
    BY <1>1, <1>4, <2>4, <2>5, <2>6
  <2>8. point \in 0 .. Len(line) /\ n \in point .. Len(line)
    BY <1>1, <2>2
  <2> HIDE DEF Taken
  <2>9. \E p \in 0 .. Len(line), append \in BOOLEAN : \E q \in p .. Len(line) : Taken(p, append, q)
    BY <2>7, <2>8
  <2> QED
    BY <2>9 DEF Taken
<1>5. CASE cmd = "unix-line-discard"
  <2>1. Extent(cmd) = <<point, 0>> /\ cmd \in Kills
    BY <1>1, <1>5 DEF Extent, Kills
  <2>2. 0 <= point /\ 0 \in Nat /\ point \in Nat
    BY <1>1
  <2>3. Min({point, 0}) = 0 /\ Max({point, 0}) = point
    BY <1>2, <2>2
  <2>4. /\ line' = Cut(line, 0, point) /\ point' = 0
        /\ IF 0 = point THEN ring' = ring /\ index' = index
           ELSE /\ ring' = CopyToKillRing(ring, SubSeq(line, 0 + 1, point), point < 0, lastKill)
                /\ index' = Len(ring')
    BY <1>3, <2>1, <2>3
  <2>5. IsKill(cmd) <=> 0 # point \/ cmd = "kill-whole-line"
    BY <2>1 DEF IsKill
  <2>6. 0 # point => (point < 0) = FALSE
    BY <2>2
  <2>7. Taken(0, FALSE, point)
    BY <1>1, <1>5, <2>4, <2>5, <2>6
  <2>8. 0 \in 0 .. Len(line) /\ point \in 0 .. Len(line)
    BY <1>1, <2>2
  <2> HIDE DEF Taken
  <2>9. \E p \in 0 .. Len(line), append \in BOOLEAN : \E q \in p .. Len(line) : Taken(p, append, q)
    BY <2>7, <2>8
  <2> QED
    BY <2>9 DEF Taken
<1>6. CASE cmd = "kill-whole-line"
  <2>1. Extent(cmd) = <<0, n>> /\ cmd \in Kills
    BY <1>1, <1>6 DEF Extent, Kills
  <2>2. 0 <= n /\ 0 \in Nat /\ n \in Nat
    BY <1>1
  <2>3. Min({0, n}) = 0 /\ Max({0, n}) = n
    BY <1>2, <2>2
  <2>4. /\ line' = Cut(line, 0, n) /\ point' = 0
        /\ IF 0 = n THEN ring' = ring /\ index' = index
           ELSE /\ ring' = CopyToKillRing(ring, SubSeq(line, 0 + 1, n), 0 < n, lastKill)
                /\ index' = Len(ring')
    BY <1>3, <2>1, <2>3
  <2>5. IsKill(cmd) <=> 0 # n \/ cmd = "kill-whole-line"
    BY <2>1 DEF IsKill
  <2>6. 0 # n => (0 < n) = TRUE
    BY <2>2
  <2>7. Taken(0, TRUE, n)
    BY <1>1, <1>6, <2>4, <2>5, <2>6
  <2>8. 0 \in 0 .. Len(line) /\ n \in 0 .. Len(line)
    BY <1>1, <2>2
  <2> HIDE DEF Taken
  <2>9. \E p \in 0 .. Len(line), append \in BOOLEAN : \E q \in p .. Len(line) : Taken(p, append, q)
    BY <2>7, <2>8
  <2> QED
    BY <2>9 DEF Taken
<1> QED
  BY <1>4, <1>5, <1>6 DEF Kills

\* A kill command that kills goes on with the run of kills, or begins one.
LEMMA KillKeeps ==
  ASSUME TextOK, KillRun, NEW cmd \in Kills, IsKill(cmd), Kill(cmd), lastKill',
         killing'.on, killing'.line = IF killing.on THEN killing.line ELSE line,
         ~killing'.excused =>
           ~killing.excused /\ ~(killing.on /\ cmd = "kill-whole-line" /\ point > 0)
  PROVE  OnLine(line', point') /\ RingIs(ring', index') /\ KillRun'
<1>1. /\ line \in Text /\ point \in 0 .. Len(line) /\ RingIs(ring, index) /\ lastKill \in BOOLEAN
      /\ killing.line \in Text /\ Len(line) \in Nat
  BY DEF TextOK, OnLine, Text
<1>2. PICK p \in 0 .. Len(line), append \in BOOLEAN : \E q \in p .. Len(line) :
        /\ line' = Cut(line, p, q) /\ point' = p
        /\ p = q => ring' = ring /\ index' = index
        /\ p # q => /\ ring' = CopyToKillRing(ring, SubSeq(line, p + 1, q), append, lastKill)
                    /\ index' = Len(ring')
        /\ IF append THEN q = Len(line) /\ (p = point \/ (cmd = "kill-whole-line" /\ p = 0))
           ELSE p = 0 /\ q = point
        /\ IsKill(cmd) <=> p # q \/ cmd = "kill-whole-line"
        /\ cmd = "kill-whole-line" => append /\ p = 0
  BY KillIs
<1>3. PICK q \in p .. Len(line) :
        /\ line' = Cut(line, p, q) /\ point' = p
        /\ p = q => ring' = ring /\ index' = index
        /\ p # q => /\ ring' = CopyToKillRing(ring, SubSeq(line, p + 1, q), append, lastKill)
                    /\ index' = Len(ring')
        /\ IF append THEN q = Len(line) /\ (p = point \/ (cmd = "kill-whole-line" /\ p = 0))
           ELSE p = 0 /\ q = point
        /\ IsKill(cmd) <=> p # q \/ cmd = "kill-whole-line"
        /\ cmd = "kill-whole-line" => append /\ p = 0
  BY <1>2
<1>4. SUFFICES /\ OnLine(line', point') /\ RingIs(ring', index')
               /\ Shorter(line', killing'.line)
               /\ ~killing'.excused /\ line' # killing'.line =>
                    Restores(line', point', ring', killing'.line)
  BY DEF KillRun
<1>7. killing.on => Shorter(line, killing.line)
  BY DEF KillRun
<1>5. CASE p = q
  <2>1. line' = line /\ ring' = ring /\ index' = index
    <3>1. Cut(line, p, p) = line
      BY <1>1, CutOut
    <3> QED
      BY <1>3, <1>5, <3>1
  <2>2. p = 0 /\ Len(line) = 0 /\ point = 0 /\ point' = point
    BY <1>1, <1>3, <1>5
  <2>3. line = <<>>
    BY <1>1, <2>2, EmptyPart
  <2>4. OnLine(line', point') /\ RingIs(ring', index')
    BY <1>1, <2>1, <2>2 DEF TextOK
  <2>5. CASE ~killing.on
    <3>1. killing'.line = line
      BY <2>5
    <3> QED
      BY <1>4, <2>1, <2>3, <2>4, <3>1 DEF Shorter
  <2>6. CASE killing.on
    <3>1. killing'.line = killing.line
      BY <2>6
    <3>2. ~killing'.excused /\ line # killing.line => Restores(line, point, ring, killing.line)
      BY <2>6 DEF KillRun
    <3> QED
      BY <1>4, <1>7, <2>1, <2>2, <2>4, <2>6, <3>1, <3>2
  <2> QED
    BY <2>5, <2>6
<1>6. CASE p # q
  <2>1. PICK r : r = CopyToKillRing(ring, SubSeq(line, p + 1, q), append, lastKill)
    OBVIOUS
  <2>2. PICK l : l = Cut(line, p, q)
    OBVIOUS
  <2>3. /\ RingIs(r, Len(r)) /\ OnLine(l, p) /\ Len(l) < Len(line)
        /\ ~lastKill => Restores(l, p, r, line)
        /\ \A at, before : /\ lastKill /\ Restores(line, at, ring, before)
                           /\ IF append THEN p = at /\ q = Len(line) ELSE p = 0 /\ q = at
                           => Restores(l, p, r, before)
    <3>1. ASSUME NEW more \in BOOLEAN, NEW l0 \in Text, l0 = line, NEW slots, slots = ring, NEW i, i = index
          PROVE  LET s == CopyToKillRing(slots, SubSeq(l0, p + 1, q), append, more)
                 IN  /\ RingIs(s, Len(s))
                     /\ OnLine(Cut(l0, p, q), p) /\ Len(Cut(l0, p, q)) < Len(l0)
                     /\ ~more => Restores(Cut(l0, p, q), p, s, l0)
                     /\ \A at, before : /\ more /\ Restores(l0, at, slots, before)
                                        /\ IF append THEN p = at /\ q = Len(l0) ELSE p = 0 /\ q = at
                                        => Restores(Cut(l0, p, q), p, s, before)
      <4>1. RingIs(slots, i) /\ p \in 0 .. Len(l0) /\ q \in p .. Len(l0)
        BY <1>1, <3>1
      <4> QED
        BY <1>6, <4>1, KillText
    <3> QED
      BY <1>1, <2>1, <2>2, <3>1
  <2>4. line' = l /\ point' = p /\ ring' = r /\ index' = Len(r)
    BY <1>3, <1>6, <2>1, <2>2
  <2>5. CASE ~killing.on
    <3>1. killing'.line = line /\ (~killing'.excused => ~lastKill)
      BY <2>5 DEF KillRun
    <3> QED
      BY <1>4, <2>3, <2>4, <3>1 DEF Shorter
  <2>6. CASE killing.on
    <3>1. killing'.line = killing.line /\ lastKill
      BY <2>6 DEF KillRun
    <3>2. Len(line) < Len(killing.line) /\ line # killing.line
      <4>1. Len(l) \in Nat /\ ~(Len(line) <= Len(l))
        BY <1>1, <2>3 DEF OnLine
      <4>2. line # <<>>
        BY <1>1, <4>1, EmptyPart
      <4>3. Len(killing.line) \in Nat
        BY <1>1 DEF Text
      <4> QED
        BY <1>1, <1>7, <2>6, <4>2, <4>3 DEF Shorter
    <3>3. Shorter(l, killing.line)
      <4>1. Len(l) \in Nat /\ Len(killing.line) \in Nat
        BY <1>1, <2>3 DEF OnLine, Text
      <4> QED
        BY <1>1, <2>3, <3>2, <4>1 DEF Shorter
    <3>4. ASSUME ~killing'.excused PROVE Restores(l, p, r, killing.line)
      <4>1. Restores(line, point, ring, killing.line)
        BY <2>6, <3>2, <3>4 DEF KillRun
      <4>2. IF append THEN p = point /\ q = Len(line) ELSE p = 0 /\ q = point
        BY <1>1, <1>3, <2>6, <3>4
      <4> QED
        BY <2>3, <3>1, <4>1, <4>2
    <3> QED
      BY <1>4, <2>3, <2>4, <3>1, <3>3, <3>4
  <2> QED
    BY <2>5, <2>6
<1> QED
  BY <1>5, <1>6

\* When another command runs, the run is over, or readline has not noticed.
LEMMA OverKeeps ==
  ASSUME KillRun, ~killing'.on, lastKill' => lastKill,
         lastKill' /\ ~killing'.excused => ~killing.on /\ ~killing.excused
  PROVE  KillRun'
BY DEF KillRun

\* yank and yank-pop, when they do not abort.
LEMMA YankKeeps ==
  ASSUME TextOK, YankPlace, NEW cmd \in Yanks, ~YankFails(cmd), Yank(cmd),
         yanked' = IF cmd = "yank" THEN [line |-> line, point |-> point] ELSE yanked
  PROVE  /\ OnLine(line', point') /\ RingIs(ring', index')
         /\ Yanked(line', point', ring', index', yanked')
<1>1. line \in Text /\ point \in 0 .. Len(line) /\ RingIs(ring, index) /\ ring # <<>>
  BY DEF TextOK, OnLine, Text, YankFails
<1>2. Len(ring) \in Nat /\ index \in 1 .. Len(ring)
  BY <1>1 DEF RingIs
<1>3. ASSUME NEW before \in Text, NEW at \in 0 .. Len(before), NEW i \in 1 .. Len(ring),
             line' = Splice(before, at, ring[i]), point' = at + Len(ring[i]), index' = i,
             ring' = ring, yanked'.line = before, yanked'.point = at
      PROVE  /\ OnLine(line', point') /\ RingIs(ring', index')
             /\ Yanked(line', point', ring', index', yanked')
  <2>1. PICK new \in Text : new = ring[i]
    <3>1. ring[i] \in Slot
      BY <1>1 DEF RingIs
    <3> QED
      BY <3>1 DEF Slot, Text
  <2>2. PICK l \in Text : l = Splice(before, at, new) /\ Len(l) = Len(before) + Len(new)
    BY PutIn
  <2>3. PICK p \in 0 .. Len(l) : p = at + Len(new)
    <3>1. Len(before) \in Nat /\ Len(new) \in Nat
      BY DEF Text
    <3>2. at + Len(new) \in 0 .. Len(l)
      BY <2>2, <3>1
    <3> QED
      BY <3>2
  <2>4. OnLine(l, p) /\ line' = l /\ point' = p
    BY <1>3, <2>1, <2>2, <2>3 DEF OnLine, Text
  <2>5. RingIs(ring', index')
    BY <1>1, <1>3 DEF RingIs
  <2>6. OnLine(before, at)
    BY DEF OnLine, Text
  <2>7. Yanked(line', point', ring', index', yanked')
    BY <1>1, <1>3, <2>6 DEF Yanked
  <2> QED
    BY <2>4, <2>5, <2>7
<1>4. CASE cmd = "yank"
  <2>1. line' = Splice(Cut(line, point, point), point, ring[index])
        /\ point' = point + Len(ring[index]) /\ index' = index /\ ring' = ring
    BY <1>4 DEF Yank
  <2>2. Cut(line, point, point) = line
    <3>1. PICK l \in Text : l = line
      BY <1>1
    <3>2. PICK p \in 0 .. Len(l) : p = point
      BY <1>1, <3>1
    <3>3. p \in p .. Len(l)
      BY <3>1
    <3>4. Cut(l, p, p) = l
      BY <3>3, CutOut
    <3> QED
      BY <3>1, <3>2, <3>4
  <2>3. yanked'.line = line /\ yanked'.point = point
    BY <1>4
  <2> QED
    BY <1>1, <1>2, <1>3, <2>1, <2>2, <2>3
<1>5. CASE cmd = "yank-pop"
  <2>1. Yanked(line, point, ring, index, yanked)
    BY <1>5 DEF YankFails, YankPlace
  <2>9. PICK before \in Text : before = yanked.line
    BY <2>1 DEF Yanked, OnLine, Text
  <2>2. PICK at \in 0 .. Len(before) : before = yanked.line /\ at = yanked.point
    BY <2>1, <2>9 DEF Yanked, OnLine
  <2>3. PICK new \in Text : new = ring[index]
    <3>1. ring[index] \in Slot
      BY <1>1, <1>2 DEF RingIs
    <3> QED
      BY <3>1 DEF Slot, Text
  <2>4. line = Splice(before, at, new) /\ point = at + Len(new) /\ yanked' = yanked
    BY <1>5, <2>1, <2>2, <2>3 DEF Yanked
  <2>5. Cut(line, at, point) = before
    BY <2>4, PutIn
  <2>6. PICK i \in 1 .. Len(ring) : i = Before(index)
    <3>1. Before(index) \in 1 .. Len(ring)
      BY <1>2 DEF Before
    <3> QED
      BY <3>1
  <2>7. point - Len(ring[index]) = at
    <3>1. Len(new) \in Nat
      BY DEF Text
    <3> QED
      BY <2>3, <2>4, <3>1
  <2>8. line' = Splice(before, at, ring[i]) /\ point' = at + Len(ring[i])
        /\ index' = i /\ ring' = ring
    BY <1>5, <2>5, <2>6, <2>7 DEF Yank
  <2> QED
    BY <1>3, <2>2, <2>4, <2>8
<1> QED
  BY <1>4, <1>5 DEF Yanks

-----------------------------------------------------------------------------
(* A command keeps what is so of the keys *)

\* What a command is run with: the keys that were used, the sources they leave, the
\* keys recorded, and whether these are the keys of the sequence, one by one.
RunWith(c, used, in, recorded, length, exact) ==
  /\ c \in Command /\ used \in Slot /\ in \in Sources /\ Len(in.macros) <= MaxLevel + 1
  /\ recorded \in Slot /\ length \in Nat /\ exact \in BOOLEAN
  /\ c.cmd = "digit-argument" => Last(used) \in DOMAIN Digit
  /\ exact => /\ used = path \o <<Last(used)>> /\ recorded = <<Last(used)>>
              /\ length = arg.length + Len(used)

\* The keys recorded for a command that ran, for the command that ends the
\* definition and for the one that would call the macro.
LEMMA RecordedIsRun ==
  ASSUME NEW ran \in Text, NEW before \in Text, NEW key \in Key
  PROVE  LET used == before \o <<key>>
             all == (ran \o before) \o <<key>>
         IN  /\ used \in Text /\ Len(used) = Len(before) + 1 /\ used # <<>>
             /\ all = ran \o used /\ all \in Text
             /\ SubSeq(all, 1, Len(all) - Len(used)) = ran
<1>1. PICK one \in Text : one = <<key>> /\ Len(one) = 1
  <2>1. <<key>> \in Seq(Key) /\ Len(<<key>>) = 1
    OBVIOUS
  <2> QED
    BY <2>1 DEF Text
<1>2. PICK used \in Text : used = before \o one /\ Len(used) = Len(before) + 1
  <2>1. before \o one \in Text /\ Len(before \o one) = Len(before) + Len(one)
    BY Joined
  <2> QED
    BY <1>1, <2>1
<1>3. (ran \o before) \o one = ran \o used
  <2>1. (ran \o before) \o one = ran \o (before \o one)
    BY Associative
  <2> QED
    BY <1>2, <2>1
<1>4. /\ ran \o used \in Text /\ Len(ran \o used) = Len(ran) + Len(used)
      /\ SubSeq(ran \o used, 1, Len(ran)) = ran
  BY Joined
<1>5. Len(ran) \in Nat /\ Len(used) \in Nat /\ Len(before) \in Nat
  BY DEF Text
<1>6. Len(ran \o used) - Len(used) = Len(ran)
  BY <1>4, <1>5
<1>7. used # <<>>
  <2>1. Len(used) # 0
    BY <1>2, <1>5
  <2> QED
    BY <2>1, EmptyPart
<1> QED
  BY <1>1, <1>2, <1>3, <1>4, <1>6, <1>7

\* What was recorded before the command, and what is recorded with its keys.
LEMMA RecordKeeps ==
  ASSUME KeysOK, MacroPart, NEW used, NEW recorded \in Slot,
         made.exact, macro.on, recorded = <<Last(used)>>, used \in Slot,
         used = path \o <<Last(used)>>
  PROVE  LET m == AddMacroChars(macro, recorded)
         IN  /\ m.keys = made.keys \o used /\ m.keys # <<None>>
             /\ SubSeq(m.keys, 1, Len(m.keys) - Len(used)) = made.keys
<1>1. macro \in MacroState /\ made.keys \in Text /\ path \in Text
  BY DEF KeysOK, Text
<1>2. macro.keys # <<None>> /\ macro.keys = made.keys \o path
  BY DEF MacroPart, Holds
<1>3. PICK key \in Key : key = Last(used)
  <2>1. used \in Seq(Key) /\ used # <<>>
    BY DEF Slot
  <2>2. Last(used) \in Key
    BY <2>1 DEF Last
  <2> QED
    BY <2>2
<1>4. LET m == AddMacroChars(macro, recorded)
      IN  m.keys # <<None>> /\ m.keys = macro.keys \o recorded
  <2>1. recorded \in Seq(Key) /\ recorded # <<>>
    BY DEF Slot
  <2> QED
    BY <1>1, <1>2, <2>1, AddKeeps
<1>5. PICK ran \in Text : ran = made.keys
  BY <1>1
<1>6. PICK before \in Text : before = path
  BY <1>1
<1>7. LET u == before \o <<key>>
          all == (ran \o before) \o <<key>>
      IN  /\ all = ran \o u
          /\ SubSeq(all, 1, Len(all) - Len(u)) = ran
  BY RecordedIsRun
<1>8. used = before \o <<key>> /\ recorded = <<key>> /\ macro.keys = ran \o before
  BY <1>2, <1>3, <1>5, <1>6
<1> HIDE DEF AddMacroChars
<1>9. AddMacroChars(macro, recorded).keys = (ran \o before) \o <<key>>
  BY <1>4, <1>8
<1> QED
  BY <1>4, <1>5, <1>7, <1>8, <1>9

\* After a command the macro holds what ran, and the types are kept.
LEMMA RunKeepsKeys ==
  ASSUME KeysOK, MacroPart, NEW c, NEW used, NEW in, NEW recorded, NEW length, NEW exact,
         RunWith(c, used, in, recorded, length, exact),
         Run(c, used, in, recorded, length, exact), bound' = bound
  PROVE  KeysOK' /\ MacroPart'
<1>1. /\ c \in Command /\ c.cmd \in Commands /\ used \in Slot /\ used \in Seq(Key) /\ used # <<>>
      /\ in \in Sources /\ Len(in.macros) <= MaxLevel + 1 /\ length \in Nat
      /\ recorded \in Slot /\ recorded \in Seq(Key) /\ recorded # <<>> /\ exact \in BOOLEAN
  BY DEF RunWith, Command, Slot
<1>2. /\ macro \in MacroState /\ made.keys \in Seq(Key) /\ made.exact \in BOOLEAN
      /\ arg.count \in Int /\ arg.length \in Nat
  BY CommandLoopAssumption DEF KeysOK
<1>3. PICK m \in MacroState :
        /\ m = AddMacroChars(macro, recorded) /\ m.on = macro.on
        /\ ~macro.on => m = macro
        /\ m.on => m.keys \in Seq(Key)
  <2>1. /\ AddMacroChars(macro, recorded) \in MacroState
        /\ AddMacroChars(macro, recorded).on = macro.on
        /\ ~macro.on => AddMacroChars(macro, recorded) = macro
        /\ macro.on => AddMacroChars(macro, recorded).keys \in Seq(Key)
    BY <1>1, <1>2, AddKeeps
  <2> QED
    BY <2>1
<1> DEFINE Made(e) ==
      /\ Outcome(e)
      /\ ~e.abort =>
           /\ c.cmd \notin {"start-kbd-macro", "end-kbd-macro", "call-last-kbd-macro"} =>
                e.macro = m
           /\ c.cmd = "start-kbd-macro" =>
                e.macro.on /\ e.macro.keys = IF Explicit THEN m.keys ELSE <<>>
           /\ c.cmd = "end-kbd-macro" =>
                /\ m.on /\ ~e.macro.on
                /\ e.macro.keys = SubSeq(m.keys, 1, Len(m.keys) - length)
           /\ c.cmd = "call-last-kbd-macro" =>
                /\ m # NoMacro /\ e.macro.on = m.on
                /\ e.macro.keys = IF m.on THEN Front(m.keys) ELSE m.keys
<1>12. Made(Effect(c, in, m, length))
  BY <1>1, <1>2, <1>3, EffectKeeps, SMTT(40)
<1> HIDE DEF Made
<1>4. PICK e : e = Effect(c, in, m, length) /\ Made(e)
  BY <1>12
<1> USE DEF Made
<1>5. input' = e.input /\ macro' = e.macro /\ path' = <<>>
  BY <1>3, <1>4 DEF Run, Reset
<1>6. arg' \in [count : 0 .. MaxArg \cup {1}, length : Nat]
  <2>1. NoArg \in [count : 0 .. MaxArg \cup {1}, length : Nat]
    BY DEF NoArg
  <2>2. arg' = NoArg \/ (c.cmd = "digit-argument" /\
                           arg' = [count |-> Digit[Last(used)], length |-> length])
    BY DEF Run, Reset
  <2>3. c.cmd = "digit-argument" => Digit[Last(used)] \in 0 .. MaxArg
    BY CommandLoopAssumption DEF RunWith
  <2> QED
    BY <1>1, <2>1, <2>2, <2>3
<1>7. PICK all \in Seq(Key) :
        /\ all = used \o (IF c.cmd = "self-insert" THEN Ahead(in) ELSE <<>>)
        /\ c.cmd # "self-insert" => all = used
        /\ exact /\ all = path \o <<Last(all)>> => all = used
  <2>1. Ahead(in) \in Seq(Key) /\ <<>> \in Seq(Key)
    BY <1>1, AheadIsTyped
  <2>2. PICK more \in Seq(Key) : more = IF c.cmd = "self-insert" THEN Ahead(in) ELSE <<>>
    BY <2>1
  <2>3. used \o more \in Seq(Key) /\ (more = <<>> => used \o more = used)
    BY <1>1
  <2>4. exact /\ used \o more = path \o <<Last(used \o more)>> => more = <<>>
    <3>1. SUFFICES ASSUME exact, used \o more = path \o <<Last(used \o more)>>
                   PROVE  more = <<>>
      OBVIOUS
    <3>2. \A x : Len(path \o <<x>>) = Len(path) + 1 /\ Len(path) \in Nat
      BY DEF KeysOK
    <3>3. Len(used \o more) = Len(path) + 1 /\ Len(used) = Len(path) + 1
      BY <3>1, <3>2 DEF RunWith
    <3>4. Len(used \o more) = Len(used) + Len(more) /\ Len(used) \in Nat /\ Len(more) \in Nat
      BY <1>1, <2>2
    <3>5. Len(more) = 0
      BY <3>3, <3>4
    <3> QED
      BY <2>2, <3>5
  <2> QED
    BY <2>2, <2>3, <2>4
<1>8. made' = IF c.cmd = "start-kbd-macro" THEN [keys |-> <<>>, exact |-> ~Explicit]
              ELSE IF ~macro.on THEN made
              ELSE [keys |-> IF c.cmd \in {"call-last-kbd-macro", "end-kbd-macro"}
                               THEN made.keys ELSE made.keys \o all,
                    exact |-> made.exact /\ exact /\ all = path \o <<Last(all)>>
                              /\ input.macros = <<>> /\ in.macros = <<>> /\ ~Explicit
                              /\ (c.cmd = "call-last-kbd-macro" => Len(all) = 1)]
  BY <1>7 DEF Run, Note
<1>9. made' \in [keys : Seq(Key), exact : BOOLEAN]
  <2>1. made \in [keys : Seq(Key), exact : BOOLEAN]
    BY DEF KeysOK
  <2>2. made.keys \o all \in Seq(Key) /\ <<>> \in Seq(Key)
    BY <1>2, <1>7
  <2>3. ASSUME NEW ks \in Seq(Key), NEW b \in BOOLEAN
        PROVE  [keys |-> ks, exact |-> b] \in [keys : Seq(Key), exact : BOOLEAN]
    OBVIOUS
  <2> QED
    BY <1>2, <1>8, <2>1, <2>2, <2>3
<1>10. KeysOK'
  <2>1. e.input \in Sources /\ Len(e.input.macros) <= MaxLevel + 1 /\ e.macro \in MacroState
    BY <1>4 DEF Outcome
  <2>2. bound' \in Keymaps /\ <<>> \in Seq(Key)
    BY DEF KeysOK
  <2> QED
    BY <1>5, <1>6, <1>9, <2>1, <2>2 DEF KeysOK
<1>11. MacroPart'
  <2>1. SUFFICES ASSUME made'.exact PROVE Holds(e.macro, made'.keys, <<>>)
    BY <1>5 DEF MacroPart
  <2>2. CASE e.abort
    BY <1>4, <2>2 DEF Outcome, Holds, NoMacro
  <2>3. CASE ~e.abort /\ c.cmd = "start-kbd-macro"
    <3>1. made'.keys = <<>> /\ ~Explicit
      BY <1>8, <2>1, <2>3
    <3>2. e.macro.keys = <<>> /\ <<>> \o <<>> = <<>> /\ <<>> # <<None>>
      BY <1>4, <2>3, <3>1
    <3> QED
      BY <3>1, <3>2 DEF Holds
  <2>4. CASE ~e.abort /\ c.cmd # "start-kbd-macro" /\ ~macro.on
    <3>1. made' = made /\ Holds(macro, made.keys, path)
      BY <1>8, <2>1, <2>4 DEF MacroPart
    <3>2. ~e.macro.on /\ e.macro.keys = macro.keys
      BY <1>3, <1>4, <2>4
    <3> QED
      BY <2>4, <3>1, <3>2 DEF Holds
  <2>5. CASE ~e.abort /\ c.cmd # "start-kbd-macro" /\ macro.on
    <3>1. /\ made.exact /\ exact /\ all = used /\ ~Explicit
          /\ c.cmd = "call-last-kbd-macro" => Len(used) = 1
      BY <1>7, <1>8, <2>1, <2>5
    <3>2. /\ m.keys = made.keys \o used /\ m.keys # <<None>>
          /\ SubSeq(m.keys, 1, Len(m.keys) - Len(used)) = made.keys
      <4>1. used = path \o <<Last(used)>> /\ recorded = <<Last(used)>>
        BY <3>1 DEF RunWith
      <4> QED
        BY <1>1, <1>3, <2>5, <3>1, <4>1, RecordKeeps
    <3>3. CASE c.cmd = "end-kbd-macro"
      <4>1. length = Len(used)
        BY <1>1, <1>2, <3>1 DEF RunWith, Explicit
      <4>2. made'.keys = made.keys /\ ~e.macro.on /\ e.macro.keys = made.keys
        BY <1>4, <1>8, <2>5, <3>2, <3>3, <4>1
      <4>3. made.keys \o <<>> = made.keys
        BY <1>2
      <4> QED
        BY <4>2, <4>3 DEF Holds
    <3>4. CASE c.cmd = "call-last-kbd-macro"
      <4>1. made'.keys = made.keys /\ e.macro.keys = Front(m.keys)
        BY <1>3, <1>4, <1>8, <2>5, <3>4
      <4>2. Front(m.keys) = made.keys
        BY <3>1, <3>2, <3>4 DEF Front
      <4>3. made.keys \o <<>> = made.keys
        BY <1>2
      <4>4. made.keys # <<None>>
        BY <1>2, NoneIsNoKey
      <4> QED
        BY <4>1, <4>2, <4>3, <4>4 DEF Holds
    <3>5. CASE c.cmd \notin {"end-kbd-macro", "call-last-kbd-macro"}
      <4>1. e.macro = m
        BY <1>4, <2>5, <3>5
      <4>2. made'.keys = made.keys \o used
        BY <1>8, <2>5, <3>1, <3>5
      <4>3. (made.keys \o used) \o <<>> = made.keys \o used
        BY <1>1, <1>2
      <4> QED
        BY <3>2, <4>1, <4>2, <4>3 DEF Holds
    <3> QED
      BY <3>3, <3>4, <3>5
  <2> QED
    BY <2>2, <2>3, <2>4, <2>5
<1> QED
  BY <1>10, <1>11

-----------------------------------------------------------------------------
(* A command keeps what is so of the line and the kill ring *)

\* The line, the ring and what is known of the last yank, after a command.
LineKept ==
  /\ OnLine(line', point') /\ RingIs(ring', index') /\ lastFunc' \in Commands \cup {None}
  /\ lastFunc' \in Yanks => Yanked(line', point', ring', index', yanked')

\* A command that neither kills nor yanks.
LEMMA EditKeeps ==
  ASSUME TextOK, KeysOK, YankPlace, NEW c \in Command, NEW key \in Key, NEW in \in Sources,
         Edit(c, key, in), c.cmd \notin Kills \cup Yanks, yanked' = yanked
  PROVE  LineKept
<1>1. /\ line \in Text /\ point \in 0 .. Len(line) /\ RingIs(ring, index) /\ c.cmd \in Commands
      /\ lastFunc \in Commands \cup {None} /\ Len(line) \in Nat
  BY DEF TextOK, OnLine, Text, Command
<1>2. ring' = ring /\ index' = index
  BY DEF Edit
<1>3. lastFunc' = IF c.cmd \in {"digit-argument", "macro"} THEN lastFunc ELSE c.cmd
  BY DEF Edit, LastFunc
<1>4. RingIs(ring', index') /\ lastFunc' \in Commands \cup {None}
  BY <1>1, <1>2, <1>3
<1>5. CASE c.cmd = "self-insert"
  <2>1. PICK new \in Text : /\ new = [k \in 1 .. arg.count |-> key] \o Ahead(in)
                            /\ line' = Splice(line, point, new) /\ point' = point + Len(new)
    <3>1. arg.count \in Nat
      BY CommandLoopAssumption DEF KeysOK
    <3>2. [k \in 1 .. arg.count |-> key] \in Text
      BY <3>1 DEF Text
    <3>3. Ahead(in) \in Text
      BY AheadIsTyped DEF Text
    <3>4. [k \in 1 .. arg.count |-> key] \o Ahead(in) \in Text
      BY <3>2, <3>3, Joined
    <3> QED
      BY <1>5, <3>4 DEF Edit, Kills, Yanks
  <2>2. PICK l \in Text, p \in Nat : l = line /\ p = point /\ p \in 0 .. Len(l)
    BY <1>1
  <2>3. Splice(l, p, new) \in Text /\ Len(Splice(l, p, new)) = Len(l) + Len(new)
    BY <2>2, PutIn
  <2>4. p + Len(new) \in 0 .. Len(Splice(l, p, new))
    <3>1. Len(l) \in Nat /\ Len(new) \in Nat
      BY DEF Text
    <3> QED
      BY <2>2, <2>3, <3>1
  <2>5. OnLine(line', point')
    BY <2>1, <2>2, <2>3, <2>4 DEF OnLine, Text
  <2> QED
    BY <1>3, <1>4, <1>5, <2>5 DEF LineKept, Yanks
<1>6. CASE c.cmd # "self-insert"
  <2>1. line' = line /\ point' = IF c.cmd = "left" THEN Max({0, point - 1}) ELSE point
    BY <1>6 DEF Edit
  <2>2. Max({0, point - 1}) \in 0 .. Len(line)
    <3>1. \A n \in Nat : Max({0, n - 1}) = IF n = 0 THEN 0 ELSE n - 1
      BY DEF Max
    <3> QED
      BY <1>1, <3>1
  <2>3. PICK p \in 0 .. Len(line) : p = point'
    BY <1>1, <2>1, <2>2
  <2>4. OnLine(line', point')
    BY <1>1, <2>1, <2>3 DEF OnLine, Text
  <2>5. CASE c.cmd \in {"digit-argument", "macro"}
    <3>1. line' = line /\ point' = point /\ lastFunc' = lastFunc
      BY <1>3, <2>1, <2>5
    <3> QED
      BY <1>2, <1>4, <2>4, <3>1 DEF LineKept, YankPlace
  <2>6. CASE c.cmd \notin {"digit-argument", "macro"}
    BY <1>3, <1>4, <2>4, <2>6 DEF LineKept
  <2> QED
    BY <2>5, <2>6
<1> QED
  BY <1>5, <1>6

\* After a command the line, the ring, the run of kills and the yank are as stated.
LEMMA RunKeepsText ==
  ASSUME KeysOK, TextOK, KillRun, YankPlace,
         NEW c, NEW used, NEW in, NEW recorded, NEW length, NEW exact,
         RunWith(c, used, in, recorded, length, exact),
         Run(c, used, in, recorded, length, exact)
  PROVE  TextOK' /\ KillRun' /\ YankPlace'
<1>1. /\ c \in Command /\ c.cmd \in Commands /\ used \in Seq(Key) /\ used # <<>>
      /\ in \in Sources /\ Len(in.macros) <= MaxLevel + 1 /\ length \in Nat
      /\ recorded \in Seq(Key) /\ recorded # <<>>
  BY DEF RunWith, Command, Slot
<1>2. PICK key \in Key : key = Last(used)
  BY <1>1 DEF Last
<1>3. PICK m \in MacroState : m = AddMacroChars(macro, recorded) /\ (m.on => m.keys \in Seq(Key))
  <2>1. macro \in MacroState
    BY DEF KeysOK
  <2> QED
    BY <1>1, <2>1, AddKeeps
<1> DEFINE Made(e) ==
      /\ e.abort \in BOOLEAN
      /\ c.cmd \in Kills \cup {"self-insert", "digit-argument", "left"} => ~e.abort
      /\ c.cmd \in Yanks /\ YankFails(c.cmd) => e.abort
<1>4. Made(Effect(c, in, m, length))
  <2>1. arg.count \in Int
    BY CommandLoopAssumption DEF KeysOK
  <2> QED
    BY <1>1, <1>3, <2>1, EffectKeeps DEF Outcome
<1> HIDE DEF Made
<1>5. PICK e : e = Effect(c, in, m, length) /\ Made(e)
  BY <1>4
<1> USE DEF Made
<1>6. /\ line \in Text /\ point \in 0 .. Len(line) /\ RingIs(ring, index)
      /\ lastKill \in BOOLEAN /\ lastFunc \in Commands \cup {None}
      /\ killing \in [on : BOOLEAN, line : Seq(Key), excused : BOOLEAN]
  BY DEF TextOK, OnLine, Text
<1>7. NoteKills(c, e.abort)
  BY <1>3, <1>5 DEF Run
<1>8. killing' \in [on : BOOLEAN, line : Seq(Key), excused : BOOLEAN]
  <2>1. ASSUME NEW l \in Seq(Key), NEW b \in BOOLEAN, NEW x \in BOOLEAN
        PROVE  [on |-> b, line |-> l, excused |-> x] \in [on : BOOLEAN, line : Seq(Key), excused : BOOLEAN]
    OBVIOUS
  <2>2. killing.line \in Seq(Key) /\ line \in Seq(Key) /\ <<>> \in Seq(Key)
    BY <1>6 DEF Text
  <2>3. CASE IsKill(c.cmd)
    BY <1>7, <2>1, <2>2, <2>3 DEF NoteKills
  <2>4. CASE ~IsKill(c.cmd)
    BY <1>6, <1>7, <2>1, <2>2, <2>4 DEF NoteKills
  <2> QED
    BY <2>3, <2>4
<1>9. SUFFICES LineKept /\ lastKill' \in BOOLEAN /\ KillRun'
  BY <1>8 DEF TextOK, LineKept, YankPlace
<1>10. CASE e.abort
  <2>1. /\ line' = line /\ point' = point /\ ring' = ring /\ index' = index
        /\ lastKill' = lastKill /\ lastFunc' = None
    BY <1>3, <1>5, <1>10 DEF Run
  <2>2. None \notin Yanks
    BY DEF None, Yanks
  <2>3. LineKept /\ lastKill' \in BOOLEAN
    BY <1>6, <2>1, <2>2 DEF LineKept, TextOK
  <2>4. ~IsKill(c.cmd) /\ c.cmd # "digit-argument"
    BY <1>5, <1>10 DEF IsKill
  <2>5. ~killing'.on /\ (~killing'.excused => ~killing.on /\ ~killing.excused)
    BY <1>7, <1>10, <2>4 DEF NoteKills
  <2>6. KillRun'
    BY <2>1, <2>5, OverKeeps
  <2> QED
    BY <2>3, <2>6
<1>11. CASE ~e.abort
  <2>1. Edit(c, key, in) /\ yanked' = IF c.cmd = "yank" THEN [line |-> line, point |-> point] ELSE yanked
    BY <1>2, <1>3, <1>5, <1>11 DEF Run
  <2>2. lastKill' \in BOOLEAN
    BY <2>1 DEF Edit
  <2>3. lastFunc' = IF c.cmd \in {"digit-argument", "macro"} THEN lastFunc ELSE c.cmd
    BY <2>1 DEF Edit, LastFunc
  <2>4. CASE c.cmd \in Kills /\ IsKill(c.cmd)
    <3>1. Kill(c.cmd) /\ lastKill'
      BY <2>1, <2>4 DEF Edit
    <3>2. /\ killing'.on /\ killing'.line = IF killing.on THEN killing.line ELSE line
          /\ ~killing'.excused =>
               ~killing.excused /\ ~(killing.on /\ c.cmd = "kill-whole-line" /\ point > 0)
      BY <1>7, <2>4 DEF NoteKills
    <3>3. OnLine(line', point') /\ RingIs(ring', index') /\ KillRun'
      BY <2>4, <3>1, <3>2, KillKeeps
    <3>4. lastFunc' = c.cmd /\ c.cmd \notin Yanks
      BY <2>3, <2>4 DEF Kills, Yanks
    <3> QED
      BY <1>1, <2>2, <3>3, <3>4 DEF LineKept
  <2>5. CASE ~IsKill(c.cmd) /\ c.cmd # "digit-argument"
    <3>1. lastKill' => lastKill /\ input'.pending # None
      BY <2>1, <2>5 DEF Edit
    <3>2. ~killing'.on /\ (input'.pending # None /\ ~killing'.excused => ~killing.on /\ ~killing.excused)
      BY <1>7, <2>5 DEF NoteKills
    <3>3. KillRun'
      BY <3>1, <3>2, OverKeeps
    <3>4. CASE c.cmd \in Kills
      <4>1. Kill(c.cmd)
        BY <2>1, <3>4 DEF Edit
      <4>2. PICK p \in 0 .. Len(line), append \in BOOLEAN : \E q \in p .. Len(line) :
              /\ line' = Cut(line, p, q) /\ point' = p
              /\ p = q => ring' = ring /\ index' = index
              /\ p # q => /\ ring' = CopyToKillRing(ring, SubSeq(line, p + 1, q), append, lastKill)
                          /\ index' = Len(ring')
              /\ IF append THEN q = Len(line) /\ (p = point \/ (c.cmd = "kill-whole-line" /\ p = 0))
                 ELSE p = 0 /\ q = point
              /\ IsKill(c.cmd) <=> p # q \/ c.cmd = "kill-whole-line"
              /\ c.cmd = "kill-whole-line" => append /\ p = 0
        BY <3>4, <4>1, KillIs
      <4>3. line' = Cut(line, p, p) /\ point' = p /\ ring' = ring /\ index' = index
        BY <2>5, <4>2
      <4>4. Cut(line, p, p) = line
        <5>1. PICK l \in Text : l = line /\ p \in 0 .. Len(l) /\ p \in p .. Len(l)
          BY <1>6
        <5>2. Cut(l, p, p) = l
          BY <5>1, CutOut
        <5> QED
          BY <5>1, <5>2
      <4>5. OnLine(line', point') /\ RingIs(ring', index')
        BY <1>6, <4>3, <4>4 DEF OnLine, Text
      <4>6. lastFunc' = c.cmd /\ c.cmd \notin Yanks
        BY <2>3, <3>4 DEF Kills, Yanks
      <4> QED
        BY <1>1, <2>2, <3>3, <4>5, <4>6 DEF LineKept
    <3>5. CASE c.cmd \in Yanks
      <4>1. ~YankFails(c.cmd) /\ Yank(c.cmd)
        BY <1>5, <1>11, <2>1, <3>5 DEF Edit, Kills, Yanks
      <4>2. /\ OnLine(line', point') /\ RingIs(ring', index')
            /\ Yanked(line', point', ring', index', yanked')
        BY <2>1, <3>5, <4>1, YankKeeps
      <4>3. lastFunc' = c.cmd
        BY <2>3, <3>5 DEF Yanks
      <4> QED
        BY <1>1, <2>2, <3>3, <4>2, <4>3 DEF LineKept
    <3>6. CASE c.cmd \notin Kills \cup Yanks
      <4>1. yanked' = yanked
        BY <2>1, <3>6 DEF Yanks
      <4>2. LineKept
        BY <1>1, <2>1, <3>6, <4>1, EditKeeps
      <4> QED
        BY <2>2, <3>3, <4>2
    <3> QED
      BY <3>4, <3>5, <3>6
  <2>6. CASE c.cmd = "digit-argument"
    <3>1. c.cmd \notin Kills \cup Yanks /\ c.cmd \notin {"yank", "self-insert", "left"} /\ ~IsKill(c.cmd)
      BY <2>6 DEF Kills, Yanks, IsKill
    <3>2. yanked' = yanked /\ killing' = killing
      BY <1>7, <2>1, <2>6, <3>1 DEF NoteKills
    <3>3. line' = line /\ point' = point /\ ring' = ring /\ index' = index /\ (lastKill' <=> lastKill)
      BY <2>1, <2>6, <3>1 DEF Edit
    <3>4. LineKept
      BY <1>1, <2>1, <3>1, <3>2, EditKeeps
    <3>5. KillRun'
      BY <3>2, <3>3 DEF KillRun
    <3> QED
      BY <2>2, <3>4, <3>5
  <2>7. IsKill(c.cmd) => c.cmd \in Kills
    BY DEF IsKill
  <2> QED
    BY <2>4, <2>5, <2>6, <2>7
<1> QED
  BY <1>5, <1>10, <1>11

-----------------------------------------------------------------------------
(* Every step keeps the invariant *)

\* The inductive invariant.
IInv ==
  /\ KeysOK /\ MacroPart /\ TextOK /\ KillRun /\ YankPlace
  /\ typed \in 0 .. MaxTyped

\* A command of the keymap is one.
LEMMA BoundIsCommand ==
  ASSUME KeysOK, NEW s \in DOMAIN bound
  PROVE  /\ s \in Slot /\ bound[s] \in Command
         /\ bound[s].cmd = "digit-argument" => Last(s) \in DOMAIN Digit
<1>1. bound \in Keymaps
  BY DEF KeysOK
<1> QED
  BY <1>1, KeymapsAssumption DEF Slot, Command

\* A command keeps the invariant.
LEMMA RunKeeps ==
  ASSUME IInv, NEW c, NEW used, NEW in, NEW recorded, NEW length, NEW exact,
         RunWith(c, used, in, recorded, length, exact),
         Run(c, used, in, recorded, length, exact), bound' = bound, typed' = typed
  PROVE  IInv'
<1>1. KeysOK' /\ MacroPart'
  BY RunKeepsKeys DEF IInv
<1>2. TextOK' /\ KillRun' /\ YankPlace'
  BY RunKeepsText DEF IInv
<1> QED
  BY <1>1, <1>2 DEF IInv

\* The line and the ring are what they were.
LEMMA TextUnchanged ==
  ASSUME TextOK, KillRun, YankPlace, UNCHANGED <<text, killing, yanked>>
  PROVE  TextOK' /\ KillRun' /\ YankPlace'
BY DEF TextOK, KillRun, YankPlace, text

\* The user types.
LEMMA TypeKeeps == IInv /\ Type => IInv'
<1> SUFFICES ASSUME IInv, Type PROVE IInv'
  OBVIOUS
<1>1. PICK key \in UNION {ToSet(s) : s \in DOMAIN bound} : input' = [input EXCEPT !.typed = Append(@, key)]
  BY DEF Type
<1>2. key \in Key
  <2>1. PICK s \in DOMAIN bound : key \in ToSet(s)
    BY <1>1
  <2>2. s \in Seq(Key)
    BY BoundIsCommand DEF IInv, Slot
  <2>3. \A k \in DOMAIN s : s[k] \in Key
    BY <2>2
  <2> QED
    BY <2>1, <2>3 DEF ToSet
<1>3. input \in Sources /\ input.typed \in Seq(Key)
  BY DEF IInv, KeysOK, Sources
<1>4. PICK q \in Seq(Key) : q = Append(input.typed, key)
  <2>1. Append(input.typed, key) \in Seq(Key)
    BY <1>2, <1>3, SequenceFacts
  <2> QED
    BY <2>1
<1>5. WithTyped(input, q) \in Sources /\ WithTyped(input, q).macros = input.macros
  BY <1>3, SourcesKept
<1>6. input' = WithTyped(input, q)
  BY <1>1, <1>4 DEF WithTyped
<1>7. KeysOK' /\ MacroPart'
  BY <1>5, <1>6 DEF IInv, Type, KeysOK, MacroPart
<1>8. TextOK' /\ KillRun' /\ YankPlace'
  BY TextUnchanged DEF IInv, Type
<1>9. typed' \in 0 .. MaxTyped
  BY CommandLoopAssumption DEF IInv, Type
<1> QED
  BY <1>7, <1>8, <1>9 DEF IInv

\* Another digit of a numeric argument.
LEMMA DigitKeeps ==
  ASSUME IInv, NEW key \in DOMAIN Digit, NEW in \in Sources, Len(in.macros) <= MaxLevel + 1,
         MoreDigits(key, in), bound' = bound, typed' = typed
  PROVE  IInv'
<1>1. /\ bound \in Keymaps /\ path \in Seq(Key) /\ macro \in MacroState
      /\ arg \in [count : 0 .. MaxArg \cup {1}, length : Nat]
      /\ made \in [keys : Seq(Key), exact : BOOLEAN]
  BY DEF IInv, KeysOK
<1>2. /\ input' = in /\ made' = [made EXCEPT !.exact = FALSE]
      /\ path' = path /\ macro' = macro /\ line' = line /\ point' = point /\ ring' = ring
      /\ index' = index /\ lastFunc' = lastFunc /\ yanked' = yanked
  BY DEF MoreDigits
<1>3. PICK n \in Nat : n = arg.count * 10 + Digit[key]
  <2>1. PICK a \in Nat : a = arg.count
    BY <1>1, CommandLoopAssumption
  <2>2. PICK d \in Nat : d = Digit[key]
    BY CommandLoopAssumption
  <2>3. a * 10 + d \in Nat
    OBVIOUS
  <2> QED
    BY <2>1, <2>2, <2>3
<1>4. made' \in [keys : Seq(Key), exact : BOOLEAN] /\ ~made'.exact
  BY <1>1, <1>2
<1>5. CASE n > MaxArg
  <2>1. arg' = NoArg /\ lastKill' = FALSE /\ NoteKills([cmd |-> "none"], FALSE)
    BY <1>3, <1>5 DEF MoreDigits
  <2>2. ~IsKill("none")
    BY DEF IsKill, Kills
  <2>3. killing' = [on |-> FALSE, line |-> <<>>,
                    excused |-> (killing.on \/ killing.excused) /\ input'.pending # None]
    BY <2>1, <2>2 DEF NoteKills
  <2>4. killing' \in [on : BOOLEAN, line : Seq(Key), excused : BOOLEAN] /\ ~killing'.on
    <3>1. ASSUME NEW x \in BOOLEAN
          PROVE  [on |-> FALSE, line |-> <<>>, excused |-> x] \in [on : BOOLEAN, line : Seq(Key), excused : BOOLEAN]
      OBVIOUS
    <3> QED
      BY <2>3, <3>1
  <2>5. KillRun'
    BY <2>1, <2>4, OverKeeps DEF IInv
  <2>6. TextOK' /\ YankPlace'
    BY <1>2, <2>1, <2>4 DEF IInv, TextOK, YankPlace
  <2>7. NoArg \in [count : 0 .. MaxArg \cup {1}, length : Nat]
    BY DEF NoArg
  <2>8. KeysOK' /\ MacroPart'
    BY <1>1, <1>2, <1>4, <2>1, <2>7 DEF KeysOK, MacroPart
  <2> QED
    BY <2>5, <2>6, <2>8 DEF IInv
<1>6. CASE ~(n > MaxArg)
  <2>1. arg' = [arg EXCEPT !.count = n] /\ UNCHANGED <<lastKill, killing>>
    BY <1>3, <1>6 DEF MoreDigits
  <2>2. n \in 0 .. MaxArg
    BY <1>6, CommandLoopAssumption
  <2>3. arg' \in [count : 0 .. MaxArg \cup {1}, length : Nat]
    <3>1. PICK counts : counts = 0 .. MaxArg \cup {1}
      OBVIOUS
    <3>2. arg \in [count : counts, length : Nat] /\ n \in counts
      BY <1>1, <2>2, <3>1
    <3> QED
      BY <2>1, <3>1, <3>2
  <2>4. KeysOK' /\ MacroPart'
    BY <1>1, <1>2, <1>4, <2>3 DEF KeysOK, MacroPart
  <2>5. TextOK' /\ KillRun' /\ YankPlace'
    BY <1>2, <2>1, TextUnchanged DEF IInv, text
  <2> QED
    BY <2>4, <2>5 DEF IInv
<1> QED
  BY <1>5, <1>6

\* A key that leads to a keymap.
LEMMA KeymapKeeps ==
  ASSUME IInv, NEW key \in Key, NEW in \in Sources, Len(in.macros) <= MaxLevel + 1,
         MoreKeys(key, in), bound' = bound, typed' = typed
  PROVE  IInv'
<1>1. /\ bound \in Keymaps /\ path \in Seq(Key) /\ macro \in MacroState
      /\ arg \in [count : 0 .. MaxArg \cup {1}, length : Nat]
      /\ made \in [keys : Seq(Key), exact : BOOLEAN]
  BY DEF IInv, KeysOK
<1>2. /\ input' = in /\ path' = Append(path, key) /\ macro' = AddMacroChars(macro, <<key>>)
      /\ arg' = arg /\ made' = made
  BY DEF MoreKeys
<1>3. <<key>> \in Seq(Key) /\ <<key>> # <<>> /\ Append(path, key) \in Seq(Key)
  BY <1>1, SequenceFacts
<1>4. LET m == AddMacroChars(macro, <<key>>)
      IN  /\ m \in MacroState /\ m.on = macro.on
          /\ ~macro.on => m = macro
          /\ macro.on => /\ m.keys # <<None>>
                         /\ macro.keys # <<None>> => m.keys = macro.keys \o <<key>>
  BY <1>1, <1>3, AddKeeps
<1> HIDE DEF AddMacroChars
<1>5. KeysOK'
  BY <1>1, <1>2, <1>3, <1>4 DEF IInv, KeysOK
<1>6. MacroPart'
  <2>1. SUFFICES ASSUME made.exact PROVE Holds(macro', made.keys, path')
    BY <1>2 DEF MacroPart
  <2>2. Holds(macro, made.keys, path)
    BY <2>1 DEF IInv, MacroPart
  <2>3. CASE ~macro.on
    BY <1>2, <1>4, <2>2, <2>3 DEF Holds
  <2>4. CASE macro.on
    <3>1. macro'.keys = (made.keys \o path) \o <<key>> /\ macro'.keys # <<None>> /\ macro'.on
      BY <1>2, <1>4, <2>2, <2>4 DEF Holds
    <3>2. (made.keys \o path) \o <<key>> = made.keys \o (path \o <<key>>)
      <4>1. made.keys \in Text /\ path \in Text /\ <<key>> \in Text
        BY <1>1, <1>3 DEF Text
      <4> QED
        BY <4>1, Associative
    <3>3. path \o <<key>> = Append(path, key)
      BY <1>1
    <3> QED
      BY <1>2, <3>1, <3>2, <3>3 DEF Holds
  <2> QED
    BY <2>3, <2>4
<1>7. TextOK' /\ KillRun' /\ YankPlace'
  BY TextUnchanged DEF IInv, MoreKeys
<1> QED
  BY <1>5, <1>6, <1>7 DEF IInv

\* Keys that nothing is bound to.
LEMMA NotBoundKeeps ==
  ASSUME IInv, NEW key \in Key, NEW in \in Sources, NotBound(key, in),
         bound' = bound, typed' = typed
  PROVE  IInv'
<1>1. PICK e : e = Aborts(in) /\ e.abort /\ Outcome(e)
  <2>1. Aborts(in).abort /\ Outcome(Aborts(in))
    BY AbortsKeeps
  <2> QED
    BY <2>1
<1>2. /\ input' = e.input /\ macro' = e.macro /\ path' = <<>> /\ arg' = NoArg /\ lastFunc' = None
      /\ line' = line /\ point' = point /\ ring' = ring /\ index' = index
      /\ lastKill' = lastKill /\ made' = made
      /\ NoteKills([cmd |-> "abort"], TRUE)
  BY <1>1 DEF NotBound
<1>3. NoArg \in [count : 0 .. MaxArg \cup {1}, length : Nat] /\ <<>> \in Seq(Key)
  BY DEF NoArg
<1>4. KeysOK'
  BY <1>1, <1>2, <1>3 DEF IInv, KeysOK, Outcome
<1>5. MacroPart'
  BY <1>1, <1>2 DEF MacroPart, Outcome, Holds, NoMacro
<1>6. killing' = [on |-> FALSE, line |-> <<>>, excused |-> killing.on \/ killing.excused]
  <2>1. ~IsKill("abort")
    BY DEF IsKill, Kills
  <2> QED
    BY <1>2, <2>1 DEF NoteKills
<1>7. /\ killing' \in [on : BOOLEAN, line : Seq(Key), excused : BOOLEAN] /\ ~killing'.on
      /\ ~killing'.excused => ~killing.on /\ ~killing.excused
  <2>1. ASSUME NEW x \in BOOLEAN
        PROVE  [on |-> FALSE, line |-> <<>>, excused |-> x] \in [on : BOOLEAN, line : Seq(Key), excused : BOOLEAN]
    OBVIOUS
  <2> QED
    BY <1>6, <2>1
<1>8. KillRun'
  BY <1>2, <1>7, OverKeeps DEF IInv
<1>9. TextOK' /\ YankPlace'
  <2>1. None \notin Yanks
    BY DEF None, Yanks
  <2> QED
    BY <1>2, <1>7, <2>1 DEF IInv, TextOK, YankPlace
<1> QED
  BY <1>4, <1>5, <1>8, <1>9 DEF IInv

\* The shadow function of a beginning of the sequence.
LEMMA FallBackKeeps ==
  ASSUME IInv, NEW all \in Seq(Key), NEW in \in Sources, Len(in.macros) <= MaxLevel + 1,
         NEW recorded \in Seq(Key), NEW n \in 1 .. Len(all), SubSeq(all, 1, n) \in DOMAIN bound,
         FallBack(all, in, recorded, n), bound' = bound, typed' = typed
  PROVE  IInv'
<1>1. PICK used \in DOMAIN bound : used = SubSeq(all, 1, n)
  OBVIOUS
<1>2. /\ used \in Slot /\ bound[used] \in Command
      /\ bound[used].cmd = "digit-argument" => Last(used) \in DOMAIN Digit
  BY BoundIsCommand DEF IInv
<1>3. PICK key \in Key : key = Last(used)
  <2>1. used \in Seq(Key) /\ used # <<>>
    BY <1>2 DEF Slot
  <2>2. Last(used) \in Key
    BY <2>1 DEF Last
  <2> QED
    BY <2>2
<1>4. PICK back \in Seq(Key) : back = SubSeq(all, n + 1, Len(all))
  <2>1. SubSeq(all, n + 1, Len(all)) \in Seq(Key)
    OBVIOUS
  <2> QED
    BY <2>1
<1>5. PICK in1 \in Sources : in1 = PutBack(in, back) /\ Len(in1.macros) <= MaxLevel + 1
  <2>1. PutBack(in, back) \in Sources /\ Len(PutBack(in, back).macros) = Len(in.macros)
    BY PutBackKeeps
  <2> QED
    BY <2>1
<1>6. PICK rec \in Slot : rec = recorded \o <<Last(used)>>
  <2>1. recorded \o <<key>> \in Seq(Key) /\ recorded \o <<key>> # <<>>
    OBVIOUS
  <2> QED
    BY <1>3, <2>1 DEF Slot
<1>7. PICK length \in Nat : length = arg.length + n
  <2>1. arg.length \in Nat
    BY DEF IInv, KeysOK
  <2> QED
    BY <2>1
<1>8. Run(bound[used], used, in1, rec, length, FALSE)
  BY <1>1, <1>4, <1>5, <1>6, <1>7 DEF FallBack
<1>9. RunWith(bound[used], used, in1, rec, length, FALSE)
  BY <1>2, <1>5 DEF RunWith
<1> QED
  BY <1>8, <1>9, RunKeeps

\* A key is read.
LEMMA ReadKeyKeeps == IInv /\ ReadKey => IInv'
<1> SUFFICES ASSUME IInv, ReadKey PROVE IInv'
  OBVIOUS
<1>1. input \in Sources /\ Len(input.macros) <= MaxLevel + 1 /\ path \in Seq(Key) /\ HasKey(input)
  BY DEF IInv, KeysOK, ReadKey
<1>2. PICK in \in Sources : in = Read(input) /\ Len(in.macros) <= MaxLevel + 1
  <2>1. Read(input) \in Sources /\ Len(Read(input).macros) <= Len(input.macros)
    BY <1>1, ReadKeeps
  <2>2. Len(Read(input).macros) \in Nat /\ Len(input.macros) \in Nat
    BY <1>1, <2>1 DEF Sources
  <2>3. Len(Read(input).macros) <= MaxLevel + 1
    BY <1>1, <2>1, <2>2, MaxLevelAssumption
  <2> QED
    BY <2>1, <2>3
<1>3. PICK key \in Key : key = NextKey(input)
  <2>1. NextKey(input) \in Key
    BY <1>1, ReadKeeps
  <2> QED
    BY <2>1
<1>4. PICK all \in Slot : all = Append(path, key)
  <2>1. Append(path, key) \in Seq(Key)
    BY <1>1, SequenceFacts
  <2>2. Append(path, key) # <<>>
    <3>1. Len(Append(path, key)) # 0
      BY <1>1
    <3> QED
      BY <3>1
  <2> QED
    BY <2>1, <2>2 DEF Slot
<1>5. bound' = bound /\ typed' = typed
  BY DEF ReadKey
<1>6. IF InArgument /\ key \in DOMAIN Digit THEN MoreDigits(key, in)
      ELSE IF IsKeymap(bound, all) THEN MoreKeys(key, in)
      ELSE IF all \in DOMAIN bound
        THEN Run(bound[all], all, in, <<key>>, arg.length + Len(all), TRUE)
      ELSE IF Shadowed(bound, path) # {}
        THEN \E i \in Shadowed(bound, path) : FallBack(all, in, <<key>>, i)
      ELSE NotBound(key, in)
  BY <1>2, <1>3, <1>4 DEF ReadKey
<1>7. CASE key \in DOMAIN Digit /\ MoreDigits(key, in)
  BY <1>2, <1>5, <1>7, DigitKeeps
<1>8. CASE MoreKeys(key, in)
  BY <1>2, <1>5, <1>8, KeymapKeeps
<1>9. CASE all \in DOMAIN bound /\ Run(bound[all], all, in, <<key>>, arg.length + Len(all), TRUE)
  <2>1. PICK s \in DOMAIN bound : s = all
    BY <1>9
  <2>2. bound[s] \in Command /\ (bound[s].cmd = "digit-argument" => Last(s) \in DOMAIN Digit)
    BY BoundIsCommand DEF IInv
  <2>3. PICK length \in Nat : length = arg.length + Len(all)
    <3>1. arg.length \in Nat /\ Len(all) \in Nat
      BY DEF IInv, KeysOK, Slot
    <3> QED
      BY <3>1
  <2>4. PICK rec \in Slot : rec = <<key>>
    <3>1. <<key>> \in Seq(Key) /\ <<key>> # <<>>
      OBVIOUS
    <3> QED
      BY <3>1 DEF Slot
  <2>5. Last(all) = key /\ all = path \o <<key>>
    BY <1>1, <1>4 DEF Last
  <2>6. RunWith(bound[all], all, in, rec, length, TRUE)
    BY <1>2, <2>1, <2>2, <2>3, <2>4, <2>5 DEF RunWith
  <2>7. Run(bound[all], all, in, rec, length, TRUE)
    BY <1>9, <2>3, <2>4
  <2> QED
    BY <1>5, <2>6, <2>7, RunKeeps
<1>10. CASE \E i \in Shadowed(bound, path) : FallBack(all, in, <<key>>, i)
  <2>1. PICK n \in 1 .. Len(path) : SubSeq(path, 1, n) \in DOMAIN bound /\ FallBack(all, in, <<key>>, n)
    BY <1>10 DEF Shadowed
  <2>2. n \in 1 .. Len(all) /\ SubSeq(all, 1, n) = SubSeq(path, 1, n)
    <3>1. PICK l \in Nat : l = Len(path) /\ Len(all) = l + 1 /\ n <= l
      BY <1>1, <1>4
    <3>2. all \in Seq(Key)
      BY DEF Slot
    <3>3. /\ SubSeq(all, 1, n) \in Seq(Key) /\ Len(SubSeq(all, 1, n)) = n
          /\ \A k \in 1 .. n : SubSeq(all, 1, n)[k] = all[k]
      BY <3>1, <3>2
    <3>4. /\ SubSeq(path, 1, n) \in Seq(Key) /\ Len(SubSeq(path, 1, n)) = n
          /\ \A k \in 1 .. n : SubSeq(path, 1, n)[k] = path[k]
      BY <1>1, <3>1
    <3>5. \A k \in 1 .. n : all[k] = path[k]
      BY <1>1, <1>4, <3>1
    <3>6. SubSeq(all, 1, n) = SubSeq(path, 1, n)
      BY <3>3, <3>4, <3>5, SameSequence
    <3> QED
      BY <3>1, <3>6
  <2>3. all \in Seq(Key) /\ <<key>> \in Seq(Key)
    BY DEF Slot
  <2>4. PICK rec \in Seq(Key) : rec = <<key>>
    BY <2>3
  <2>5. FallBack(all, in, rec, n) /\ SubSeq(all, 1, n) \in DOMAIN bound
    BY <2>1, <2>2, <2>4
  <2> QED
    BY <1>2, <1>5, <2>2, <2>3, <2>5, FallBackKeeps
<1>11. CASE NotBound(key, in)
  BY <1>5, <1>11, NotBoundKeeps
<1> QED
  BY <1>6, <1>7, <1>8, <1>9, <1>10, <1>11

\* No key comes.
LEMMA TimeoutKeeps == IInv /\ Timeout => IInv'
<1> SUFFICES ASSUME IInv, Timeout PROVE IInv'
  OBVIOUS
<1>1. /\ input \in Sources /\ Len(input.macros) <= MaxLevel + 1 /\ path \in Seq(Key)
      /\ path \in DOMAIN bound /\ FallBack(path, input, <<>>, Len(path))
      /\ bound' = bound /\ typed' = typed
  BY DEF IInv, KeysOK, Timeout
<1>2. path # <<>>
  BY <1>1, BoundIsCommand DEF IInv, Slot
<1>3. PICK all \in Seq(Key), n \in 1 .. Len(path) : all = path /\ n = Len(path) /\ n \in 1 .. Len(all)
  <2>1. Len(path) \in 1 .. Len(path)
    BY <1>1, <1>2
  <2> QED
    BY <1>1, <2>1
<1>4. SubSeq(all, 1, n) = all
  BY <1>3
<1>5. PICK in \in Sources : in = input
  BY <1>1
<1>6. PICK rec \in Seq(Key) : rec = <<>>
  <2>1. <<>> \in Seq(Key)
    OBVIOUS
  <2> QED
    BY <2>1
<1>7. /\ FallBack(all, in, rec, n) /\ Len(in.macros) <= MaxLevel + 1
      /\ SubSeq(all, 1, n) \in DOMAIN bound
  BY <1>1, <1>3, <1>4, <1>5, <1>6
<1> QED
  BY <1>1, <1>3, <1>7, FallBackKeeps

\* The invariant holds at first.
LEMMA InitIsFine == Init => IInv
<1> SUFFICES ASSUME Init PROVE IInv
  OBVIOUS
<1>1. KeysOK
  <2>1. <<>> \in Seq(MacroRun) /\ <<>> \in Seq(Key) /\ Len(<<>>) <= MaxLevel + 1
    BY MaxLevelAssumption
  <2>2. input \in Sources /\ Len(input.macros) <= MaxLevel + 1
    BY <2>1 DEF Init, Sources
  <2>3. macro \in MacroState
    BY DEF Init, NoMacro, MacroState
  <2>4. arg \in [count : 0 .. MaxArg \cup {1}, length : Nat]
    BY DEF Init, NoArg
  <2>5. made \in [keys : Seq(Key), exact : BOOLEAN]
    BY <2>1 DEF Init
  <2> QED
    BY <2>1, <2>2, <2>3, <2>4, <2>5 DEF Init, KeysOK
<1>2. MacroPart
  BY DEF Init, MacroPart
<1>3. TextOK
  <2>1. line \in Seq(Key) /\ point \in 0 .. Len(line)
    <3>1. line \in Seq(Key)
      BY CommandLoopAssumption DEF Init
    <3>2. Len(line) \in Nat
      BY <3>1
    <3> QED
      BY <3>1, <3>2 DEF Init
  <2>2. RingIs(ring, index)
    <3>1. <<>> \in Seq(Slot) /\ Len(<<>>) <= MaxKills
      BY CommandLoopAssumption
    <3> QED
      BY <3>1 DEF Init, RingIs
  <2>3. killing \in [on : BOOLEAN, line : Seq(Key), excused : BOOLEAN]
    <3>1. <<>> \in Seq(Key)
      OBVIOUS
    <3> QED
      BY <3>1 DEF Init
  <2> QED
    BY <2>1, <2>2, <2>3 DEF Init, TextOK, OnLine
<1>4. KillRun
  BY DEF Init, KillRun
<1>5. YankPlace
  BY DEF Init, YankPlace, None, Yanks
<1>6. typed \in 0 .. MaxTyped
  BY CommandLoopAssumption DEF Init
<1> QED
  BY <1>1, <1>2, <1>3, <1>4, <1>5, <1>6 DEF IInv

\* Every step keeps it.
LEMMA StepKeeps == IInv /\ [Next]_vars => IInv'
<1>1. CASE UNCHANGED vars
  BY <1>1 DEF IInv, vars, keys, text, KeysOK, MacroPart, TextOK, KillRun, YankPlace
<1> QED
  BY <1>1, TypeKeeps, ReadKeyKeeps, TimeoutKeeps DEF Next

\* What it says of the ring and of the macro.
LEMMA IInvMeans == IInv => RingInvariant /\ MacroIsWhatRan
<1> SUFFICES ASSUME IInv PROVE RingInvariant /\ MacroIsWhatRan
  OBVIOUS
<1>1. TypeOK
  <2>1. /\ input.pending \in Key \cup {None} /\ input.ungot \in Seq(Key) /\ input.typed \in Seq(Key)
        /\ input.macros \in Seq(MacroRun)
    BY DEF IInv, KeysOK, Sources
  <2>2. \A m \in ToSet(input.macros) : m.keys \in Seq(Key) /\ m.at \in 0 .. Len(m.keys)
    <3>1. SUFFICES ASSUME NEW k \in DOMAIN input.macros
                   PROVE  LET m == input.macros[k] IN m.keys \in Seq(Key) /\ m.at \in 0 .. Len(m.keys)
      BY DEF ToSet
    <3>2. input.macros[k] \in MacroRun
      BY <2>1
    <3> QED
      BY <3>2 DEF MacroRun
  <2>3. macro.keys \in MacroKeys /\ macro.on \in BOOLEAN
    <3>1. macro.keys \in Seq(Key) \cup {<<None>>} /\ macro.on \in BOOLEAN
      BY DEF IInv, KeysOK, MacroState
    <3>2. Seq(Key) \subseteq Seq(Key \cup {None}) /\ <<None>> \in Seq(Key \cup {None})
      OBVIOUS
    <3> QED
      BY <3>1, <3>2 DEF MacroKeys
  <2>4. arg.count \in 0 .. MaxArg \cup {1} /\ arg.length \in Nat
    BY DEF IInv, KeysOK
  <2> QED
    BY <2>1, <2>2, <2>3, <2>4 DEF IInv, KeysOK, TextOK, TypeOK, OnLine, RingIs, Slot
<1>2. KillsYankBack
  BY DEF IInv, KillRun, Restores, KillsYankBack
<1>3. YankPopReplaces
  BY DEF IInv, YankPlace, Yanked, YankPopReplaces
<1>4. MacroIsWhatRan
  BY DEF IInv, MacroPart, Holds, MacroIsWhatRan
<1> QED
  BY <1>1, <1>2, <1>3, <1>4 DEF RingInvariant

\* RingInvariant: the types; yanking after a run of kills gives back what they
\* removed; after yank and yank-pop nothing else of the line is replaced.
THEOREM RingInvariantHolds == Spec => []RingInvariant
<1>1. Spec => []IInv
  BY InitIsFine, StepKeeps, PTL DEF Spec
<1> QED
  BY <1>1, IInvMeans, PTL

\* MacroIsWhatRan: a keyboard macro holds the keys of the commands that ran while
\* it was defined, when each of them ran for the keys of its own sequence.
THEOREM MacroIsWhatRanHolds == Spec => []MacroIsWhatRan
<1>1. Spec => []IInv
  BY InitIsFine, StepKeeps, PTL DEF Spec
<1> QED
  BY <1>1, IInvMeans, PTL

-----------------------------------------------------------------------------
(* InputInOrder: whatever the keymap, the macros, the keys typed ahead and  *)
(* those put back, readline's command loop neither loses a key nor reads    *)
(* one twice, and reads them in their order. (Not in the case the property  *)
(* excludes: keys put back that came from two macros.)                      *)


-----------------------------------------------------------------------------
(* Texts *)

\* Two texts, and one behind them.
Two(a, b, k) == a \o b \in Text /\ (a \o b) \o k = a \o (b \o k)

\* Texts may be joined in any grouping, and the text joined is one.
LEMMA TwoAndOne == \A a, b, k \in Text : Two(a, b, k)
<1> TAKE a, b, k \in Text
<1>1. a \o b \in Text
  BY Joined
<1>2. (a \o b) \o k = a \o (b \o k)
  BY Associative
<1> QED
  BY <1>1, <1>2 DEF Two

-----------------------------------------------------------------------------
(* Joining the texts of a sequence: FlattenSeq is defined by recursion on   *)
(* their number. A set of counterexamples would have a least one.           *)

\* The sequences of texts.
Texts == Seq(Text)

\* What the recursion asks of a function.
Flattens(f, q) ==
  f = [i \in 1 .. Len(q) |-> IF i = 1 THEN q[i] ELSE f[i - 1] \o q[i]]

\* Two functions that do it agree, as far as their texts do.
LEMMA OneFlattens ==
  ASSUME NEW q, NEW r, NEW n \in Nat, n <= Len(q), n <= Len(r),
         Len(q) \in Nat, Len(r) \in Nat, \A i \in 1 .. n : q[i] = r[i],
         NEW f, Flattens(f, q), NEW g, Flattens(g, r)
  PROVE  \A i \in 1 .. n : f[i] = g[i]
<1> DEFINE S == {i \in 1 .. n : f[i] # g[i]}
<1>1. SUFFICES ASSUME S # {} PROVE FALSE
  OBVIOUS
<1>2. S \in SUBSET Nat
  OBVIOUS
<1>3. PICK m \in S : \A i \in S : m <= i
  <2> HIDE DEF S
  <2> QED
    BY <1>1, <1>2, Least
<1>4. m \in 1 .. n /\ f[m] # g[m] /\ m \in 1 .. Len(q) /\ m \in 1 .. Len(r)
  OBVIOUS
<1>5. /\ f[m] = IF m = 1 THEN q[m] ELSE f[m - 1] \o q[m]
      /\ g[m] = IF m = 1 THEN r[m] ELSE g[m - 1] \o r[m]
  BY <1>4 DEF Flattens
<1>6. CASE m = 1
  BY <1>4, <1>5, <1>6
<1>7. CASE m # 1
  <2>1. m - 1 \in 1 .. n /\ ~(m <= m - 1)
    BY <1>4, <1>7
  <2>2. f[m - 1] = g[m - 1]
    BY <1>3, <2>1
  <2> QED
    BY <1>4, <1>5, <1>7, <2>2
<1> QED
  BY <1>6, <1>7

\* A function that does it gives texts.
LEMMA FlattensTexts ==
  ASSUME NEW q \in Texts, NEW f, Flattens(f, q)
  PROVE  \A i \in 1 .. Len(q) : f[i] \in Text
<1> DEFINE S == {i \in 1 .. Len(q) : f[i] \notin Text}
<1>1. SUFFICES ASSUME S # {} PROVE FALSE
  OBVIOUS
<1>2. S \in SUBSET Nat /\ Len(q) \in Nat
  BY DEF Texts
<1>3. PICK m \in S : \A i \in S : m <= i
  <2> HIDE DEF S
  <2> QED
    BY <1>1, <1>2, Least
<1>4. m \in 1 .. Len(q) /\ f[m] \notin Text
  OBVIOUS
<1>5. f[m] = IF m = 1 THEN q[m] ELSE f[m - 1] \o q[m]
  BY <1>4 DEF Flattens
<1>6. q[m] \in Text
  BY <1>4 DEF Texts
<1>7. CASE m = 1
  BY <1>4, <1>5, <1>6, <1>7
<1>8. CASE m # 1
  <2>1. m - 1 \in 1 .. Len(q) /\ ~(m <= m - 1)
    BY <1>2, <1>4, <1>8
  <2>2. PICK a \in Text : a = f[m - 1]
    BY <1>3, <2>1
  <2>3. PICK b \in Text : b = q[m]
    BY <1>6
  <2>4. a \o b \in Text
    BY Joined
  <2> QED
    BY <1>4, <1>5, <1>8, <2>2, <2>3, <2>4
<1> QED
  BY <1>7, <1>8

\* One text more is one step of the recursion more.
LEMMA FlattensMore ==
  ASSUME NEW q \in Texts, NEW s \in Text, NEW f, Flattens(f, q), NEW g,
         g = [i \in 1 .. Len(q) + 1 |->
                IF i <= Len(q) THEN f[i] ELSE IF q = <<>> THEN s ELSE f[Len(q)] \o s]
  PROVE  Flattens(g, Append(q, s))
<1>1. PICK n \in Nat : n = Len(q) /\ (n = 0 <=> q = <<>>)
  BY DEF Texts
<1>2. /\ Len(Append(q, s)) = n + 1 /\ Append(q, s)[n + 1] = s
      /\ \A i \in 1 .. n : Append(q, s)[i] = q[i]
  BY <1>1 DEF Texts
<1>3. ASSUME NEW i \in 1 .. n + 1
      PROVE  g[i] = IF i = 1 THEN Append(q, s)[i] ELSE g[i - 1] \o Append(q, s)[i]
  <2>1. CASE i <= n
    <3>1. i \in 1 .. n /\ g[i] = f[i] /\ Append(q, s)[i] = q[i]
      BY <1>1, <1>2, <2>1
    <3>2. f[i] = IF i = 1 THEN q[i] ELSE f[i - 1] \o q[i]
      BY <1>1, <3>1 DEF Flattens
    <3>3. i # 1 => i - 1 \in 1 .. n + 1 /\ i - 1 <= n
      BY <3>1
    <3>4. i # 1 => g[i - 1] = f[i - 1]
      BY <1>1, <3>3
    <3> QED
      BY <3>1, <3>2, <3>4
  <2>2. CASE ~(i <= n)
    <3>1. i = n + 1 /\ Append(q, s)[i] = s
      BY <1>2, <2>2
    <3>2. g[i] = IF n = 0 THEN s ELSE f[n] \o s
      BY <1>1, <2>2
    <3>3. n # 0 => n \in 1 .. n + 1 /\ n <= n /\ i - 1 = n /\ i # 1
      BY <3>1
    <3>4. n # 0 => g[n] = f[n]
      BY <1>1, <3>3
    <3> QED
      BY <3>1, <3>2, <3>3, <3>4
  <2> QED
    BY <2>1, <2>2
<1>4. g = [i \in 1 .. n + 1 |-> g[i]]
  BY <1>1
<1>5. g = [i \in 1 .. n + 1 |-> IF i = 1 THEN Append(q, s)[i] ELSE g[i - 1] \o Append(q, s)[i]]
  BY <1>3, <1>4
<1> QED
  BY <1>2, <1>5 DEF Flattens

\* What is appended to the second of two sequences is appended to both.
LEMMA AppendBehind ==
  ASSUME NEW S, NEW q \in Seq(S), NEW t \in Seq(S), NEW s \in S
  PROVE  q \o t \in Seq(S) /\ q \o Append(t, s) = Append(q \o t, s)
OBVIOUS

\* A sequence ends with its last element.
LEMMA LastApart ==
  ASSUME NEW S, NEW q \in Seq(S), q # <<>>
  PROVE  \E r \in Seq(S), e \in S : q = Append(r, e) /\ Len(q) = Len(r) + 1
<1>1. PICK r \in Seq(S), e \in S : q = Append(r, e)
  BY SequenceEmptyOrAppend
<1> QED
  BY <1>1, AppendProperties

\* There is a function that does it.
LEMMA FlattenExists == \A q \in Texts : \E f : Flattens(f, q)
<1> DEFINE Bad(q) == ~ \E f : Flattens(f, q)
           S == {n \in Nat : \E q \in Texts : Len(q) = n /\ Bad(q)}
<1>1. \A q \in Texts : Len(q) \in Nat
  BY DEF Texts
<1>2. SUFFICES S = {}
  <2> HIDE DEF Bad
  <2>1. \A q \in Texts : Bad(q) => Len(q) \in S
    BY <1>1
  <2> QED
    BY <2>1 DEF Bad
<1>3. SUFFICES ASSUME S # {} PROVE FALSE
  OBVIOUS
<1>4. PICK m \in S : \A n \in S : m <= n
  <2>1. S \in SUBSET Nat
    OBVIOUS
  <2> HIDE DEF S
  <2> QED
    BY <1>3, <2>1, Least
<1>5. PICK q \in Texts : Len(q) = m /\ Bad(q)
  BY <1>4
<1>6. CASE q = <<>>
  <2>1. Len(q) = 0
    BY <1>6
  <2> DEFINE f == [i \in 1 .. 0 |-> <<>>]
  <2>2. f = [i \in 1 .. 0 |-> IF i = 1 THEN q[i] ELSE f[i - 1] \o q[i]]
    OBVIOUS
  <2>3. Flattens(f, q)
    BY <2>1, <2>2 DEF Flattens
  <2> QED
    BY <1>5, <2>3
<1>7. CASE q # <<>>
  <2>1. PICK r \in Texts, s \in Text : q = Append(r, s) /\ Len(q) = Len(r) + 1
    BY <1>7, LastApart DEF Texts
  <2>2. Len(r) \in Nat /\ ~(m <= Len(r))
    BY <1>1, <1>5, <2>1
  <2>3. ~Bad(r)
    BY <1>4, <2>2
  <2>4. PICK f : Flattens(f, r)
    BY <2>3
  <2>5. PICK g : g = [i \in 1 .. Len(r) + 1 |->
                        IF i <= Len(r) THEN f[i] ELSE IF r = <<>> THEN s ELSE f[Len(r)] \o s]
    OBVIOUS
  <2>6. Flattens(g, Append(r, s))
    BY <2>4, <2>5, FlattensMore
  <2> QED
    BY <1>5, <2>1, <2>6
<1> QED
  BY <1>6, <1>7

\* FlattenSeq is what it gives for all of the texts.
LEMMA FlattenIs ==
  ASSUME NEW q \in Texts, q # <<>>
  PROVE  \E f : Flattens(f, q) /\ FlattenSeq(q) = f[Len(q)]
<1>1. Len(q) # 0
  BY DEF Texts
<1>2. PICK f : f = CHOOSE g : Flattens(g, q)
  OBVIOUS
<1>3. Flattens(f, q)
  <2>1. \E g : Flattens(g, q)
    BY FlattenExists
  <2> QED
    BY <1>2, <2>1
<1>4. FlattenSeq(q) = f[Len(q)]
  BY <1>1, <1>2 DEF FlattenSeq, Flattens
<1> QED
  BY <1>3, <1>4

\* FlattenSeq of no texts is empty.
LEMMA FlattenNone == FlattenSeq(<<>>) = <<>>
BY DEF FlattenSeq

\* FlattenSeq of one text more has that text at its end.
LEMMA FlattenMore ==
  ASSUME NEW q \in Texts, NEW s \in Text
  PROVE  FlattenSeq(q) \in Text /\ FlattenSeq(Append(q, s)) = FlattenSeq(q) \o s
<1>1. PICK n \in Nat : n = Len(q)
  BY DEF Texts
<1>2. /\ Append(q, s) \in Texts /\ Len(Append(q, s)) = n + 1 /\ Append(q, s)[n + 1] = s
      /\ \A i \in 1 .. n : q[i] = Append(q, s)[i]
  BY <1>1 DEF Texts
<1>3. PICK r \in Texts : r = Append(q, s) /\ r # <<>>
  <2>1. Len(Append(q, s)) # 0
    BY <1>2
  <2>2. Len(<<>>) = 0
    OBVIOUS
  <2> QED
    BY <1>2, <2>1, <2>2
<1>4. PICK g : Flattens(g, r) /\ FlattenSeq(r) = g[n + 1]
  BY <1>2, <1>3, FlattenIs
<1>5. g[n + 1] = IF n + 1 = 1 THEN s ELSE g[n] \o s
  <2>1. n + 1 \in 1 .. Len(r) /\ (n + 1) - 1 = n
    BY <1>2, <1>3
  <2>2. g[n + 1] = IF n + 1 = 1 THEN r[n + 1] ELSE g[(n + 1) - 1] \o r[n + 1]
    BY <1>4, <2>1 DEF Flattens
  <2> QED
    BY <1>2, <1>3, <2>1, <2>2
<1>6. CASE q = <<>>
  <2>1. FlattenSeq(q) = <<>> /\ <<>> \in Text /\ <<>> \o s = s
    BY <1>6, FlattenNone, Joined DEF Text
  <2>2. n = 0
    BY <1>1, <1>6
  <2> QED
    BY <1>3, <1>4, <1>5, <2>1, <2>2
<1>7. CASE q # <<>>
  <2>1. n # 0
    BY <1>1, <1>7 DEF Texts
  <2>2. PICK f : Flattens(f, q) /\ FlattenSeq(q) = f[n]
    BY <1>1, <1>7, FlattenIs
  <2>3. \A i \in 1 .. n : f[i] = g[i]
    <3>1. n <= Len(q) /\ n <= Len(r) /\ Len(q) \in Nat /\ Len(r) \in Nat
      BY <1>1, <1>2, <1>3
    <3>2. \A i \in 1 .. n : q[i] = r[i]
      BY <1>2, <1>3
    <3> QED
      BY <1>4, <2>2, <3>1, <3>2, OneFlattens
  <2>4. f[n] \in Text /\ f[n] = g[n]
    BY <1>1, <2>1, <2>2, <2>3, FlattensTexts
  <2> QED
    BY <1>3, <1>4, <1>5, <2>1, <2>2, <2>4
<1> QED
  BY <1>6, <1>7

\* Joined texts are joined,
LEMMA FlattenTwo ==
  \A q \in Texts : \A r \in Texts : FlattenSeq(q \o r) = FlattenSeq(q) \o FlattenSeq(r)
<1> SUFFICES ASSUME NEW q \in Texts
             PROVE  \A r \in Texts : FlattenSeq(q \o r) = FlattenSeq(q) \o FlattenSeq(r)
  OBVIOUS
<1> DEFINE Bad(r) == FlattenSeq(q \o r) # FlattenSeq(q) \o FlattenSeq(r)
           S == {n \in Nat : \E r \in Texts : Len(r) = n /\ Bad(r)}
<1>1. \A r \in Texts : Len(r) \in Nat
  BY DEF Texts
<1>2. SUFFICES S = {}
  <2> HIDE DEF Bad
  <2>1. \A r \in Texts : Bad(r) => Len(r) \in S
    BY <1>1
  <2> QED
    BY <2>1 DEF Bad
<1>3. SUFFICES ASSUME S # {} PROVE FALSE
  OBVIOUS
<1>4. PICK m \in S : \A n \in S : m <= n
  <2>1. S \in SUBSET Nat
    OBVIOUS
  <2> HIDE DEF S
  <2> QED
    BY <1>3, <2>1, Least
<1>5. PICK r \in Texts : Len(r) = m /\ Bad(r)
  BY <1>4
<1>6. PICK a \in Text : a = FlattenSeq(q)
  <2>1. <<>> \in Text
    BY DEF Text
  <2> QED
    BY <2>1, FlattenMore
<1>7. CASE r = <<>>
  <2>1. q \o r = q
    BY <1>7 DEF Texts
  <2>2. a \o <<>> = a
    BY Joined DEF Text
  <2> QED
    BY <1>5, <1>6, <1>7, <2>1, <2>2, FlattenNone
<1>8. CASE r # <<>>
  <2>1. PICK t \in Texts, s \in Text : r = Append(t, s) /\ Len(r) = Len(t) + 1
    BY <1>8, LastApart DEF Texts
  <2>2. Len(t) \in Nat /\ ~(m <= Len(t))
    BY <1>1, <1>5, <2>1
  <2>3. FlattenSeq(q \o t) = a \o FlattenSeq(t)
    <3>1. ~Bad(t)
      BY <1>4, <2>2
    <3> QED
      BY <1>6, <3>1
  <2>4. PICK b \in Text : b = FlattenSeq(t) /\ FlattenSeq(r) = b \o s
    BY <2>1, FlattenMore
  <2>5. q \o t \in Texts /\ q \o r = Append(q \o t, s)
    BY <2>1, AppendBehind DEF Texts
  <2>6. FlattenSeq(q \o r) = FlattenSeq(q \o t) \o s
    BY <2>5, FlattenMore
  <2>7. (a \o b) \o s = a \o (b \o s)
    BY Associative
  <2> QED
    BY <1>5, <1>6, <2>3, <2>4, <2>6, <2>7
<1> QED
  BY <1>7, <1>8

\* and empty texts are nothing.
LEMMA FlattenEmpty ==
  ASSUME NEW q \in Texts, \A i \in 1 .. Len(q) : q[i] = <<>>
  PROVE  FlattenSeq(q) = <<>>
<1>1. CASE q = <<>>
  BY <1>1, FlattenNone
<1>2. CASE q # <<>>
  <2>1. PICK f : Flattens(f, q) /\ FlattenSeq(q) = f[Len(q)]
    BY <1>2, FlattenIs
  <2> DEFINE S == {i \in 1 .. Len(q) : f[i] # <<>>}
  <2>2. Len(q) \in Nat /\ Len(q) # 0 /\ S \in SUBSET Nat
    BY <1>2 DEF Texts
  <2>3. SUFFICES ASSUME S # {} PROVE FALSE
    BY <2>1, <2>2
  <2>4. PICK m \in S : \A i \in S : m <= i
    <3> HIDE DEF S
    <3> QED
      BY <2>2, <2>3, Least
  <2>5. m \in 1 .. Len(q) /\ f[m] # <<>> /\ q[m] = <<>>
    BY <2>4
  <2>6. f[m] = IF m = 1 THEN q[m] ELSE f[m - 1] \o q[m]
    BY <2>1, <2>5 DEF Flattens
  <2>7. m # 1
    BY <2>5, <2>6
  <2>8. m - 1 \in 1 .. Len(q) /\ ~(m <= m - 1)
    BY <2>2, <2>5, <2>7
  <2>9. f[m - 1] = <<>>
    BY <2>4, <2>8
  <2> QED
    BY <2>5, <2>6, <2>7, <2>9
<1> QED
  BY <1>1, <1>2

-----------------------------------------------------------------------------
(* What is still to be read of the macros *)

\* What is still to be read of one macro.
Rest(m) == SubSeq(m.keys, m.at + 1, Len(m.keys))

\* What is still to be read of each of them.
Rests(ms) == [i \in DOMAIN ms |-> Rest(ms[i])]

\* They are texts, and the text of an exhausted macro is empty.
LEMMA RestIsText ==
  ASSUME NEW m \in MacroRun
  PROVE  Rest(m) \in Text /\ (~(m.at < Len(m.keys)) => Rest(m) = <<>>)
<1>1. m.keys \in Seq(Key) /\ m.at \in Nat /\ m.at <= Len(m.keys)
  BY DEF MacroRun
<1>2. PICK l \in Seq(Key), p \in Nat : l = m.keys /\ p = m.at /\ p <= Len(l)
  BY <1>1
<1>3. SubSeq(l, p + 1, Len(l)) \in Seq(Key)
  BY <1>2
<1>4. ~(p < Len(l)) => SubSeq(l, p + 1, Len(l)) = <<>>
  BY <1>2
<1> QED
  BY <1>2, <1>3, <1>4 DEF Rest, Text

\* MacroStream joins them.
LEMMA StreamOfRests ==
  ASSUME NEW ms \in Seq(MacroRun)
  PROVE  /\ Rests(ms) \in Texts /\ Len(Rests(ms)) = Len(ms)
         /\ \A i \in 1 .. Len(ms) : Rests(ms)[i] = Rest(ms[i])
         /\ MacroStream(ms) = FlattenSeq(Rests(ms)) /\ MacroStream(ms) \in Text
<1>1. Len(ms) \in Nat /\ DOMAIN ms = 1 .. Len(ms) /\ \A i \in 1 .. Len(ms) : ms[i] \in MacroRun
  OBVIOUS
<1>2. \A i \in 1 .. Len(ms) : Rest(ms[i]) \in Text
  BY <1>1, RestIsText
<1>3. Rests(ms) = [i \in 1 .. Len(ms) |-> Rest(ms[i])]
  BY <1>1 DEF Rests
<1>4. Rests(ms) \in Texts /\ Len(Rests(ms)) = Len(ms)
  BY <1>1, <1>2, <1>3 DEF Texts
<1>5. MacroStream(ms) = FlattenSeq(Rests(ms))
  BY DEF MacroStream, Rests, Rest
<1>6. FlattenSeq(Rests(ms)) \in Text
  <2>1. <<>> \in Text
    BY DEF Text
  <2> QED
    BY <1>4, <2>1, FlattenMore
<1> QED
  BY <1>3, <1>4, <1>5, <1>6

\* Macros before others are read before them.
LEMMA MacrosJoined ==
  ASSUME NEW a \in Seq(MacroRun), NEW b \in Seq(MacroRun)
  PROVE  a \o b \in Seq(MacroRun) /\ MacroStream(a \o b) = MacroStream(a) \o MacroStream(b)
<1>1. PICK n, k \in Nat : n = Len(a) /\ k = Len(b)
  OBVIOUS
<1>2. PICK c \in Seq(MacroRun) :
        /\ c = a \o b /\ Len(c) = n + k
        /\ \A i \in 1 .. n : c[i] = a[i]
        /\ \A i \in 1 .. k : c[n + i] = b[i]
  <2>1. a \o b \in Seq(MacroRun) /\ Len(a \o b) = n + k
    BY <1>1
  <2>2. /\ \A i \in 1 .. n : (a \o b)[i] = a[i]
        /\ \A i \in 1 .. k : (a \o b)[n + i] = b[i]
    BY <1>1
  <2> QED
    BY <2>1, <2>2
<1>3. /\ Rests(a) \in Texts /\ Len(Rests(a)) = n /\ \A i \in 1 .. n : Rests(a)[i] = Rest(a[i])
      /\ MacroStream(a) = FlattenSeq(Rests(a))
  BY <1>1, StreamOfRests
<1>4. /\ Rests(b) \in Texts /\ Len(Rests(b)) = k /\ \A i \in 1 .. k : Rests(b)[i] = Rest(b[i])
      /\ MacroStream(b) = FlattenSeq(Rests(b))
  BY <1>1, StreamOfRests
<1>5. /\ Rests(c) \in Texts /\ Len(Rests(c)) = n + k
      /\ \A i \in 1 .. n + k : Rests(c)[i] = Rest(c[i])
      /\ MacroStream(c) = FlattenSeq(Rests(c))
  BY <1>2, StreamOfRests
<1>6. PICK q, r \in Texts : q = Rests(a) /\ Len(q) = n /\ r = Rests(b) /\ Len(r) = k
  BY <1>3, <1>4
<1>7. /\ q \o r \in Texts /\ Len(q \o r) = n + k
      /\ \A i \in 1 .. n : (q \o r)[i] = q[i]
      /\ \A i \in 1 .. k : (q \o r)[n + i] = r[i]
  <2>1. ASSUME NEW S, NEW x \in Seq(S), NEW y \in Seq(S)
        PROVE  /\ x \o y \in Seq(S) /\ Len(x \o y) = Len(x) + Len(y)
               /\ \A i \in 1 .. Len(x) : (x \o y)[i] = x[i]
               /\ \A i \in 1 .. Len(y) : (x \o y)[Len(x) + i] = y[i]
    OBVIOUS
  <2>2. q \in Seq(Text) /\ r \in Seq(Text)
    BY DEF Texts
  <2>3. /\ q \o r \in Seq(Text) /\ Len(q \o r) = Len(q) + Len(r)
        /\ \A i \in 1 .. Len(q) : (q \o r)[i] = q[i]
        /\ \A i \in 1 .. Len(r) : (q \o r)[Len(q) + i] = r[i]
    BY <2>1, <2>2
  <2> QED
    BY <1>6, <2>3 DEF Texts
<1>8. ASSUME NEW i \in 1 .. n + k PROVE Rests(c)[i] = (q \o r)[i]
  <2>1. CASE i <= n
    <3>1. i \in 1 .. n
      BY <2>1
    <3>2. Rests(c)[i] = Rest(a[i])
      BY <1>2, <1>5, <3>1
    <3>3. (q \o r)[i] = Rest(a[i])
      BY <1>3, <1>6, <1>7, <3>1
    <3> QED
      BY <3>2, <3>3
  <2>2. CASE ~(i <= n)
    <3>1. i - n \in 1 .. k /\ i = n + (i - n)
      BY <2>2
    <3>2. PICK d \in 1 .. k : i = n + d
      BY <3>1
    <3>3. Rests(c)[i] = Rest(b[d])
      BY <1>2, <1>5, <3>2
    <3>4. (q \o r)[i] = Rest(b[d])
      BY <1>4, <1>6, <1>7, <3>2
    <3> QED
      BY <3>3, <3>4
  <2> QED
    BY <2>1, <2>2
<1>9. Rests(c) = q \o r
  <2>1. Rests(c) \in Seq(Text) /\ q \o r \in Seq(Text)
    BY <1>5, <1>7 DEF Texts
  <2> QED
    BY <1>5, <1>7, <1>8, <2>1, SameSequence
<1>10. FlattenSeq(q \o r) = FlattenSeq(q) \o FlattenSeq(r)
  BY FlattenTwo
<1> QED
  BY <1>2, <1>3, <1>4, <1>5, <1>6, <1>9, <1>10

\* The first macro is read first.
LEMMA FirstMacro ==
  ASSUME NEW ms \in Seq(MacroRun), ms # <<>>, NEW r \in MacroRun
  PROVE  /\ ms[1] \in MacroRun /\ MacroStream(Tail(ms)) \in Text
         /\ MacroStream(ms) = Rest(ms[1]) \o MacroStream(Tail(ms))
         /\ MacroStream(WithFirst(ms, r)) = Rest(r) \o MacroStream(Tail(ms))
<1>1. PICK t \in Seq(MacroRun) : t = Tail(ms) /\ Len(ms) = Len(t) + 1
  <2>1. Tail(ms) \in Seq(MacroRun) /\ Len(Tail(ms)) = Len(ms) - 1 /\ Len(ms) \in Nat
    OBVIOUS
  <2>2. Len(ms) = Len(Tail(ms)) + 1
    BY <2>1
  <2> QED
    BY <2>1, <2>2
<1>2. ms[1] \in MacroRun
  OBVIOUS
<1>3. ASSUME NEW m \in MacroRun
      PROVE  MacroStream(<<m>> \o t) = Rest(m) \o MacroStream(t)
  <2>1. <<m>> \in Seq(MacroRun) /\ Len(<<m>>) = 1 /\ <<m>>[1] = m
    OBVIOUS
  <2>2. PICK one \in Seq(MacroRun) : one = <<m>> /\ Len(one) = 1 /\ one[1] = m
    BY <2>1
  <2>3. /\ Rests(one) \in Texts /\ Len(Rests(one)) = 1 /\ Rests(one)[1] = Rest(m)
        /\ MacroStream(one) = FlattenSeq(Rests(one))
    <3>1. 1 \in 1 .. Len(one)
      BY <2>2
    <3> QED
      BY <2>2, <3>1, StreamOfRests
  <2>4. PICK s \in Text : s = Rest(m)
    BY RestIsText
  <2>5. Rests(one) = Append(<<>>, s)
    BY <2>3, <2>4 DEF Texts
  <2>6. <<>> \in Texts /\ FlattenSeq(Append(<<>>, s)) = FlattenSeq(<<>>) \o s /\ <<>> \o s = s
    <3>1. <<>> \in Texts
      BY DEF Texts
    <3>2. <<>> \o s = s
      BY Joined
    <3> QED
      BY <3>1, <3>2, FlattenMore
  <2>7. MacroStream(one) = s
    BY <2>3, <2>5, <2>6, FlattenNone
  <2>8. MacroStream(one \o t) = MacroStream(one) \o MacroStream(t)
    BY MacrosJoined
  <2> QED
    BY <2>2, <2>4, <2>7, <2>8
<1>4. ms = <<ms[1]>> \o t
  BY <1>1
<1>5. WithFirst(ms, r) = <<r>> \o t
  <2>1. WithFirst(ms, r) \in Seq(MacroRun) /\ Len(WithFirst(ms, r)) = Len(ms)
    BY FirstReplaced
  <2>2. /\ <<r>> \o t \in Seq(MacroRun) /\ Len(<<r>> \o t) = Len(t) + 1
        /\ (<<r>> \o t)[1] = r /\ \A k \in 1 .. Len(t) : (<<r>> \o t)[k + 1] = t[k]
    OBVIOUS
  <2>3. \A k \in 1 .. Len(t) : t[k] = ms[k + 1]
    BY <1>1
  <2>4. WithFirst(ms, r)[1] = r /\ \A k \in 1 .. Len(t) : WithFirst(ms, r)[k + 1] = ms[k + 1]
    BY <1>1 DEF WithFirst
  <2>5. ASSUME NEW k \in 1 .. Len(ms) PROVE WithFirst(ms, r)[k] = (<<r>> \o t)[k]
    <3>1. CASE k = 1
      BY <2>2, <2>4, <3>1
    <3>2. CASE k # 1
      <4>1. k - 1 \in 1 .. Len(t) /\ k = (k - 1) + 1
        BY <1>1, <3>2
      <4>2. PICK d \in 1 .. Len(t) : k = d + 1
        BY <4>1
      <4> QED
        BY <2>2, <2>3, <2>4, <4>2
    <3> QED
      BY <3>1, <3>2
  <2> QED
    BY <1>1, <2>1, <2>2, <2>5, SameSequence
<1>6. MacroStream(t) \in Text
  BY StreamOfRests
<1> QED
  BY <1>1, <1>2, <1>3, <1>4, <1>5, <1>6

\* The macros that are exhausted are nothing of the stream,
LEMMA LiveStream ==
  ASSUME NEW ms \in Seq(MacroRun)
  PROVE  /\ MacroStream(Live(ms)) = MacroStream(ms)
         /\ Live(ms) # <<>> /\ Len(Live(ms)) = Len(ms) => Live(ms) = ms
<1> DEFINE left == {k \in DOMAIN ms : ms[k].at < Len(ms[k].keys)}
<1>1. PICK n \in Nat : n = Len(ms) /\ DOMAIN ms = 1 .. n
  OBVIOUS
<1>2. ASSUME NEW a \in Seq(MacroRun), \A k \in 1 .. Len(a) : ~(a[k].at < Len(a[k].keys))
      PROVE  MacroStream(a) = <<>>
  <2>1. /\ Rests(a) \in Texts /\ Len(Rests(a)) = Len(a) /\ MacroStream(a) = FlattenSeq(Rests(a))
        /\ \A k \in 1 .. Len(a) : Rests(a)[k] = Rest(a[k])
    BY StreamOfRests
  <2>2. \A k \in 1 .. Len(a) : a[k] \in MacroRun
    OBVIOUS
  <2>3. \A k \in 1 .. Len(a) : Rest(a[k]) = <<>>
    BY <1>2, <2>2, RestIsText
  <2> QED
    BY <2>1, <2>3, FlattenEmpty
<1>3. CASE left = {}
  <2>1. Live(ms) = <<>>
    BY <1>3 DEF Live
  <2>2. \A k \in 1 .. Len(ms) : ~(ms[k].at < Len(ms[k].keys))
    BY <1>1, <1>3
  <2>3. PICK none \in Seq(MacroRun) : none = <<>> /\ \A k \in 1 .. Len(none) : FALSE
    <3>1. <<>> \in Seq(MacroRun) /\ \A k \in 1 .. Len(<<>>) : FALSE
      OBVIOUS
    <3> QED
      BY <3>1
  <2>4. MacroStream(none) = <<>>
    BY <1>2, <2>3
  <2>5. MacroStream(ms) = <<>>
    BY <1>2, <2>2
  <2> QED
    BY <2>1, <2>3, <2>4, <2>5
<1>4. CASE left # {}
  <2>1. left \in SUBSET Nat
    BY <1>1
  <2>2. Live(ms) = SubSeq(ms, Min(left), Len(ms))
    BY <1>4 DEF Live
  <2>3. Min(left) \in left /\ \A k \in left : Min(left) <= k
    <3> HIDE DEF left
    <3> QED
      BY <1>4, <2>1, MinChosen
  <2>4. PICK m \in 1 .. n : m = Min(left) /\ \A k \in left : m <= k
    BY <1>1, <2>3
  <2>5. PICK a \in Seq(MacroRun) : /\ a = SubSeq(ms, 1, m - 1) /\ Len(a) = m - 1
                                   /\ \A k \in 1 .. m - 1 : a[k] = ms[k]
    <3>1. /\ SubSeq(ms, 1, m - 1) \in Seq(MacroRun) /\ Len(SubSeq(ms, 1, m - 1)) = m - 1
          /\ \A k \in 1 .. m - 1 : SubSeq(ms, 1, m - 1)[k] = ms[k]
      BY <1>1
    <3> QED
      BY <3>1
  <2>6. PICK b \in Seq(MacroRun) : b = SubSeq(ms, m, n) /\ Len(b) = n - m + 1
    <3>1. SubSeq(ms, m, n) \in Seq(MacroRun) /\ Len(SubSeq(ms, m, n)) = n - m + 1
      BY <1>1
    <3> QED
      BY <3>1
  <2>7. ms = a \o b
    <3>1. 1 \in 1 .. Len(ms) + 1 /\ m - 1 \in 1 - 1 .. Len(ms) /\ n \in m - 1 .. Len(ms)
      BY <1>1
    <3>2. SubSeq(ms, 1, m - 1) \o SubSeq(ms, (m - 1) + 1, n) = SubSeq(ms, 1, n)
      BY <3>1, ConcatAdjacentSubSeq
    <3>3. (m - 1) + 1 = m
      OBVIOUS
    <3>4. SubSeq(ms, 1, n) = ms
      BY <1>1, SubSeqFull
    <3> QED
      BY <2>5, <2>6, <3>2, <3>3, <3>4
  <2>8. MacroStream(a) = <<>>
    <3>1. ASSUME NEW k \in 1 .. Len(a) PROVE ~(a[k].at < Len(a[k].keys))
      <4>1. k \in 1 .. m - 1 /\ k \in 1 .. n /\ ~(m <= k)
        BY <2>5
      <4>2. k \notin left
        BY <2>4, <4>1
      <4>3. a[k] = ms[k]
        BY <2>5, <4>1
      <4> QED
        BY <1>1, <4>1, <4>2, <4>3
    <3> QED
      BY <1>2, <3>1
  <2>9. MacroStream(ms) = MacroStream(b)
    <3>1. MacroStream(a \o b) = MacroStream(a) \o MacroStream(b)
      BY MacrosJoined
    <3>2. PICK s \in Text : s = MacroStream(b)
      BY StreamOfRests
    <3>3. <<>> \o s = s
      BY Joined
    <3> QED
      BY <2>7, <2>8, <3>1, <3>2, <3>3
  <2>10. Len(b) = n => b = ms
    <3>1. Len(b) = n => m = 1
      BY <2>6
    <3>2. SubSeq(ms, 1, n) = ms
      BY <1>1, SubSeqFull
    <3> QED
      BY <2>6, <3>1, <3>2
  <2> QED
    BY <1>1, <2>2, <2>4, <2>6, <2>9, <2>10
<1> QED
  BY <1>3, <1>4

\* and a macro read less far has the keys in between in front.
LEMMA RestFrom ==
  ASSUME NEW m \in MacroRun, NEW r \in MacroRun, r.keys = m.keys, r.at <= m.at
  PROVE  /\ SubSeq(m.keys, r.at + 1, m.at) \in Text
         /\ Rest(r) = SubSeq(m.keys, r.at + 1, m.at) \o Rest(m)
<1>1. PICK l \in Seq(Key), p, k \in Nat :
        l = m.keys /\ p = m.at /\ k = r.at /\ k <= p /\ p <= Len(l)
  BY DEF MacroRun
<1>2. k + 1 \in 1 .. Len(l) + 1 /\ p \in (k + 1) - 1 .. Len(l) /\ Len(l) \in p .. Len(l)
  BY <1>1
<1>3. SubSeq(l, k + 1, p) \o SubSeq(l, p + 1, Len(l)) = SubSeq(l, k + 1, Len(l))
  BY <1>2, ConcatAdjacentSubSeq
<1>4. SubSeq(l, k + 1, p) \in Seq(Key)
  BY <1>1
<1> QED
  BY <1>1, <1>3, <1>4 DEF Rest, Text

-----------------------------------------------------------------------------
(* What is still to be read of all sources *)

\* The sources when one of them is another.
LEMMA SourceFields ==
  ASSUME NEW in \in Sources
  PROVE  /\ in.pending \in Key \cup {None} /\ in.macros \in Seq(MacroRun)
         /\ in.ungot \in Text /\ in.typed \in Text
         /\ \A p \in Key \cup {None} : \E i1 \in Sources :
              /\ i1 = WithPending(in, p) /\ i1.pending = p /\ i1.macros = in.macros
              /\ i1.ungot = in.ungot /\ i1.typed = in.typed
         /\ \A ms \in Seq(MacroRun) : \E i1 \in Sources :
              /\ i1 = WithMacros(in, ms) /\ i1.pending = in.pending /\ i1.macros = ms
              /\ i1.ungot = in.ungot /\ i1.typed = in.typed
         /\ \A q \in Text : \E i1 \in Sources :
              /\ i1 = WithUngot(in, q) /\ i1.pending = in.pending /\ i1.macros = in.macros
              /\ i1.ungot = q /\ i1.typed = in.typed
         /\ \A q \in Text : \E i1 \in Sources :
              /\ i1 = WithTyped(in, q) /\ i1.pending = in.pending /\ i1.macros = in.macros
              /\ i1.ungot = in.ungot /\ i1.typed = q
<1> DEFINE A == Key \cup {None}
           B == Seq(MacroRun)
<1>1. Sources = [pending : A, macros : B, ungot : Text, typed : Text]
  BY DEF Sources, Text
<1> HIDE DEF A, B
<1>2. in.pending \in A /\ in.macros \in B /\ in.ungot \in Text /\ in.typed \in Text
  BY <1>1
<1>3. ASSUME NEW p \in A
      PROVE  /\ WithPending(in, p) \in Sources
             /\ WithPending(in, p).pending = p /\ WithPending(in, p).macros = in.macros
             /\ WithPending(in, p).ungot = in.ungot /\ WithPending(in, p).typed = in.typed
  BY <1>1 DEF WithPending
<1>4. ASSUME NEW ms \in B
      PROVE  /\ WithMacros(in, ms) \in Sources
             /\ WithMacros(in, ms).pending = in.pending /\ WithMacros(in, ms).macros = ms
             /\ WithMacros(in, ms).ungot = in.ungot /\ WithMacros(in, ms).typed = in.typed
  BY <1>1 DEF WithMacros
<1>5. ASSUME NEW q \in Text
      PROVE  /\ WithUngot(in, q) \in Sources
             /\ WithUngot(in, q).pending = in.pending /\ WithUngot(in, q).macros = in.macros
             /\ WithUngot(in, q).ungot = q /\ WithUngot(in, q).typed = in.typed
             /\ WithTyped(in, q) \in Sources
             /\ WithTyped(in, q).pending = in.pending /\ WithTyped(in, q).macros = in.macros
             /\ WithTyped(in, q).ungot = in.ungot /\ WithTyped(in, q).typed = q
  BY <1>1 DEF WithUngot, WithTyped
<1> QED
  BY <1>2, <1>3, <1>4, <1>5 DEF A, B

\* The empty sequence is a text, and there may be no macros and no texts.
LEMMA EmptyIn == <<>> \in Text /\ <<>> \in Seq(MacroRun) /\ <<>> \in Texts
BY DEF Text, Texts

\* The pending key, if there is one.
PendingKey(in) == IF in.pending = None THEN <<>> ELSE <<in.pending>>

\* The pending key comes first, then the macros, what was put back and what was typed.
LEMMA StreamIs ==
  ASSUME NEW in \in Sources
  PROVE  \E p, m, u, t \in Text :
           /\ p = PendingKey(in) /\ m = MacroStream(in.macros) /\ u = in.ungot /\ t = in.typed
           /\ u \o t \in Text /\ m \o (u \o t) \in Text
           /\ Stream(in) = p \o (m \o (u \o t)) /\ Stream(in) \in Text
<1>1. PICK p \in Text : p = PendingKey(in)
  <2>1. <<>> \in Text /\ \A key \in Key : <<key>> \in Text
    BY DEF Text
  <2>2. in.pending \in Key \cup {None}
    BY SourceFields
  <2> QED
    BY <2>1, <2>2 DEF PendingKey
<1>2. PICK m \in Text : m = MacroStream(in.macros)
  BY SourceFields, StreamOfRests
<1>3. PICK u, t \in Text : u = in.ungot /\ t = in.typed
  BY SourceFields
<1>4. Stream(in) = ((p \o m) \o u) \o t
  BY <1>1, <1>2, <1>3 DEF Stream, PendingKey
<1>5. u \o t \in Text /\ p \o m \in Text
  BY Joined
<1>6. PICK ut, pm \in Text : ut = u \o t /\ pm = p \o m
  BY <1>5
<1>7. (pm \o u) \o t = pm \o ut
  <2>1. Two(pm, u, t)
    BY TwoAndOne
  <2> QED
    BY <2>1, <1>6 DEF Two
<1>8. (p \o m) \o ut = p \o (m \o ut)
  <2>1. Two(p, m, ut)
    BY TwoAndOne
  <2> QED
    BY <2>1 DEF Two
<1>9. m \o ut \in Text
  BY Joined
<1>10. p \o (m \o ut) \in Text
  BY <1>9, Joined
<1>11. Stream(in) = p \o (m \o (u \o t))
  BY <1>4, <1>6, <1>7, <1>8
<1>12. u \o t \in Text /\ m \o (u \o t) \in Text /\ Stream(in) \in Text
  BY <1>6, <1>9, <1>10, <1>11
<1> QED
  BY <1>1, <1>2, <1>3, <1>11, <1>12

\* Without a pending key.
LEMMA StreamNotPending ==
  ASSUME NEW in \in Sources, in.pending = None
  PROVE  Stream(in) = MacroStream(in.macros) \o (in.ungot \o in.typed)
<1>1. PICK p, m, u, t \in Text :
        /\ p = PendingKey(in) /\ m = MacroStream(in.macros) /\ u = in.ungot /\ t = in.typed
        /\ m \o (u \o t) \in Text /\ Stream(in) = p \o (m \o (u \o t))
  BY StreamIs
<1>2. PICK r \in Text : r = m \o (u \o t)
  BY <1>1
<1>3. <<>> \o r = r
  BY Joined
<1> QED
  BY <1>1, <1>2, <1>3 DEF PendingKey

\* Without macros nothing of them is to be read.
LEMMA NoMacroStream == MacroStream(<<>>) = <<>>
<1>1. PICK none \in Seq(MacroRun) : none = <<>>
  BY EmptyIn
<1>2. /\ Rests(none) \in Texts /\ Len(Rests(none)) = Len(none)
      /\ MacroStream(none) = FlattenSeq(Rests(none))
  BY StreamOfRests
<1>3. \A i \in 1 .. Len(Rests(none)) : Rests(none)[i] = <<>>
  BY <1>1, <1>2
<1> QED
  BY <1>1, <1>2, <1>3, FlattenEmpty

\* What was put back and what was typed.
Behind(in) == in.ungot \o in.typed

\* It is a text.
LEMMA BehindIs ==
  ASSUME NEW in \in Sources
  PROVE  Behind(in) \in Text /\ Len(Behind(in)) \in Nat
<1>1. Behind(in) \in Text
  BY SourceFields, Joined DEF Behind
<1> QED
  BY <1>1 DEF Text

\* Without a pending key the macros come first.
LEMMA StreamBehind ==
  ASSUME NEW in \in Sources, in.pending = None
  PROVE  \E m, w \in Text : /\ m = MacroStream(in.macros) /\ w = Behind(in) /\ Stream(in) = m \o w
                            /\ (in.macros = <<>> => Stream(in) = w)
<1>1. PICK m \in Text : m = MacroStream(in.macros)
  BY SourceFields, StreamOfRests
<1>2. PICK w \in Text : w = Behind(in)
  BY BehindIs
<1>3. Stream(in) = m \o w
  BY <1>1, <1>2, StreamNotPending DEF Behind
<1>4. <<>> \o w = w
  BY Joined
<1> QED
  BY <1>1, <1>2, <1>3, <1>4, NoMacroStream

\* A pending key is read first,
LEMMA ReadPending ==
  ASSUME NEW in \in Sources, in.pending # None
  PROVE  /\ Stream(in) = <<NextKey(in)>> \o Stream(Read(in))
         /\ Read(in).pending = None /\ Behind(Read(in)) = Behind(in)
         /\ Read(in).macros = in.macros
<1>1. NextKey(in) = in.pending /\ Read(in) = WithPending(in, None)
  BY DEF NextKey, Read, WithPending
<1>2. None \in Key \cup {None}
  OBVIOUS
<1>3. \E i1 \in Sources : /\ i1 = WithPending(in, None) /\ i1.pending = None /\ i1.macros = in.macros
                          /\ i1.ungot = in.ungot /\ i1.typed = in.typed
  BY <1>2, SourceFields
<1>4. PICK i1 \in Sources : /\ i1 = Read(in) /\ i1.pending = None /\ i1.macros = in.macros
                            /\ Behind(i1) = Behind(in)
                            /\ i1.ungot = in.ungot /\ i1.typed = in.typed
  BY <1>1, <1>3 DEF Behind
<1>5. Stream(i1) = MacroStream(in.macros) \o (in.ungot \o in.typed)
  BY <1>4, StreamNotPending
<1>6. Stream(in) = <<in.pending>> \o (MacroStream(in.macros) \o (in.ungot \o in.typed))
  BY StreamIs DEF PendingKey
<1> QED
  BY <1>1, <1>4, <1>5, <1>6

\* then what is left of the macros,
LEMMA ReadMacro ==
  ASSUME NEW in \in Sources, in.pending = None, Live(in.macros) # <<>>
  PROVE  \E m, r \in MacroRun, ms, rs \in Seq(MacroRun) :
           /\ ms = Live(in.macros) /\ m = ms[1] /\ m.at < Len(m.keys)
           /\ rs = Read(in).macros /\ Len(rs) = Len(ms) /\ rs # <<>>
           /\ r = rs[1] /\ r.keys = m.keys /\ r.at = m.at + 1
           /\ NextKey(in) = r.keys[r.at]
           /\ Stream(in) = <<NextKey(in)>> \o Stream(Read(in))
           /\ Read(in).pending = None /\ Behind(Read(in)) = Behind(in)
<1>1. PICK ms \in Seq(MacroRun) :
        /\ ms = Live(in.macros) /\ MacroStream(ms) = MacroStream(in.macros) /\ ms # <<>>
        /\ ms[1].at < Len(ms[1].keys)
  BY SourceFields, LiveIn, LiveStream
<1>2. /\ NextKey(in) = ms[1].keys[ms[1].at + 1]
      /\ Read(in) = [in EXCEPT !.macros = [ms EXCEPT ![1].at = @ + 1]]
  BY <1>1 DEF NextKey, Read
<1>3. PICK m \in MacroRun : m = ms[1] /\ m.at < Len(m.keys)
  BY <1>1
<1>4. m.keys \in Seq(Key) /\ m.at \in Nat
  BY DEF MacroRun
<1>5. PICK n \in Nat : n = m.at + 1 /\ n <= Len(m.keys) /\ m.at <= n /\ n \in 1 .. Len(m.keys)
  BY <1>3, <1>4
<1>6. PICK r \in MacroRun : r = [m EXCEPT !.at = n] /\ r.keys = m.keys /\ r.at = n
  <2>1. [m EXCEPT !.at = n] \in MacroRun
    BY <1>4, <1>5 DEF MacroRun
  <2>2. [m EXCEPT !.at = n].keys = m.keys /\ [m EXCEPT !.at = n].at = n
    BY DEF MacroRun
  <2> QED
    BY <2>1, <2>2
<1>7. Read(in) = WithMacros(in, WithFirst(ms, r))
  BY <1>2, <1>3, <1>5, <1>6 DEF WithMacros, WithFirst
<1>8. PICK rs \in Seq(MacroRun) : rs = WithFirst(ms, r) /\ Len(rs) = Len(ms) /\ rs # <<>> /\ rs[1] = r
  <2>1. WithFirst(ms, r) \in Seq(MacroRun) /\ Len(WithFirst(ms, r)) = Len(ms)
    BY <1>1, FirstReplaced
  <2>2. Len(ms) # 0 /\ 1 \in DOMAIN ms /\ Len(<<>>) = 0
    BY <1>1
  <2>3. WithFirst(ms, r)[1] = r
    BY <2>2 DEF WithFirst
  <2>4. WithFirst(ms, r) # <<>>
    BY <2>1, <2>2
  <2> QED
    BY <2>1, <2>3, <2>4
<1>9. PICK i1 \in Sources : /\ i1 = Read(in) /\ i1.pending = None /\ i1.macros = rs
                            /\ Behind(i1) = Behind(in)
  <2>1. \E i1 \in Sources : /\ i1 = WithMacros(in, rs) /\ i1.pending = in.pending /\ i1.macros = rs
                            /\ i1.ungot = in.ungot /\ i1.typed = in.typed
    BY SourceFields
  <2> QED
    BY <1>7, <1>8, <2>1 DEF Behind
<1>10. PICK rest \in Text : /\ rest = MacroStream(Tail(ms)) /\ MacroStream(ms) = Rest(m) \o rest
                            /\ MacroStream(rs) = Rest(r) \o rest
  BY <1>1, <1>3, <1>8, FirstMacro
<1>11. PICK one \in Text : one = <<NextKey(in)>> /\ one = SubSeq(r.keys, m.at + 1, r.at)
  <2>1. PICK l \in Seq(Key) : l = m.keys /\ n \in 1 .. Len(l)
    BY <1>4, <1>5
  <2>2. n \in n .. Len(l)
    BY <2>1
  <2>3. SubSeq(l, n, n) = <<l[n]>> \o SubSeq(l, n + 1, n)
    BY <2>1, <2>2, SubSeqRecursiveFirst
  <2>4. SubSeq(l, n + 1, n) = <<>>
    BY SubSeqEmpty
  <2>5. <<l[n]>> \in Text /\ <<l[n]>> \o <<>> = <<l[n]>>
    BY <2>1 DEF Text
  <2> QED
    BY <1>2, <1>3, <1>5, <1>6, <2>1, <2>3, <2>4, <2>5
<1>12. PICK a, b \in Text : a = Rest(m) /\ b = Rest(r) /\ a = one \o b
  <2>1. Rest(m) \in Text /\ Rest(r) \in Text /\ Rest(m) = SubSeq(r.keys, m.at + 1, r.at) \o Rest(r)
    BY <1>5, <1>6, RestFrom, RestIsText
  <2> QED
    BY <1>11, <2>1
<1>13. PICK w \in Text : w = Behind(in)
  BY StreamBehind
<1>14. Stream(in) = ((one \o b) \o rest) \o w
  BY <1>1, <1>10, <1>12, <1>13, StreamBehind
<1>15. Stream(i1) = (b \o rest) \o w
  BY <1>9, <1>10, <1>12, <1>13, StreamBehind
<1>16. ((one \o b) \o rest) \o w = one \o ((b \o rest) \o w)
  <2>1. PICK br \in Text : br = b \o rest
    BY Joined
  <2>2. (one \o b) \o rest = one \o (b \o rest)
    <3>1. Two(one, b, rest)
      BY TwoAndOne
    <3> QED
      BY <3>1 DEF Two
  <2>3. (one \o br) \o w = one \o (br \o w)
    <3>1. Two(one, br, w)
      BY TwoAndOne
    <3> QED
      BY <3>1 DEF Two
  <2> QED
    BY <2>1, <2>2, <2>3
<1>17. Stream(in) = <<NextKey(in)>> \o Stream(Read(in))
  BY <1>9, <1>11, <1>14, <1>15, <1>16
<1>18. NextKey(in) = r.keys[r.at] /\ r.at = m.at + 1
  BY <1>2, <1>3, <1>5, <1>6
<1> QED
  BY <1>1, <1>3, <1>6, <1>8, <1>9, <1>17, <1>18

\* then what was put back, and what was typed.
LEMMA ReadTyped ==
  ASSUME NEW in \in Sources, HasKey(in), in.pending = None, Live(in.macros) = <<>>
  PROVE  /\ Stream(in) = <<NextKey(in)>> \o Stream(Read(in))
         /\ Read(in).pending = None /\ Read(in).macros = <<>>
         /\ Len(Behind(Read(in))) = Len(Behind(in)) - 1
<1>1. PICK none \in Seq(MacroRun) : none = <<>>
  BY EmptyIn
<1>2. PICK w \in Text : w = Behind(in) /\ Stream(in) = w
  <2>1. PICK m, w \in Text : m = MacroStream(in.macros) /\ w = Behind(in) /\ Stream(in) = m \o w
    BY StreamBehind
  <2>2. MacroStream(in.macros) = <<>>
    BY SourceFields, LiveStream, NoMacroStream
  <2>3. <<>> \o w = w
    BY Joined
  <2> QED
    BY <2>1, <2>2, <2>3
<1>3. PICK i0 \in Sources : /\ i0 = WithMacros(in, none) /\ i0.pending = None /\ i0.macros = none
                            /\ i0.ungot = in.ungot /\ i0.typed = in.typed
  <2>1. \E i0 \in Sources : /\ i0 = WithMacros(in, none) /\ i0.pending = in.pending /\ i0.macros = none
                            /\ i0.ungot = in.ungot /\ i0.typed = in.typed
    BY SourceFields
  <2> QED
    BY <2>1
<1>4. ASSUME NEW q \in Text, q # <<>>
      PROVE  \E key \in Key, t \in Text :
               key = Head(q) /\ t = Tail(q) /\ q = <<key>> \o t /\ Len(t) = Len(q) - 1
  <2>1. Head(q) \in Key /\ Tail(q) \in Text /\ q = <<Head(q)>> \o Tail(q) /\ Len(Tail(q)) = Len(q) - 1
    BY <1>4 DEF Text
  <2> QED
    BY <2>1
<1>5. NextKey(in) = Head(w)
  BY <1>2 DEF NextKey, Behind
<1>6. w # <<>>
  <2>1. in.ungot \in Text /\ in.typed \in Text
    BY SourceFields
  <2>2. in.ungot # <<>> \/ in.typed # <<>>
    BY DEF HasKey
  <2>3. in.ungot \o in.typed # <<>>
    BY <2>1, <2>2 DEF Text
  <2> QED
    BY <1>2, <2>3 DEF Behind
<1>7. PICK key \in Key, q \in Text : key = Head(w) /\ q = Tail(w) /\ w = <<key>> \o q /\ Len(q) = Len(w) - 1
  BY <1>4, <1>6
<1>8. PICK i1 \in Sources : i1 = Read(in) /\ i1.pending = None /\ i1.macros = none /\ Behind(i1) = q
  <2>1. PICK u, t \in Text : u = in.ungot /\ t = in.typed /\ w = u \o t
    BY <1>2, SourceFields DEF Behind
  <2>2. CASE u # <<>>
    <3>1. PICK k1 \in Key, r \in Text : r = Tail(u) /\ u = <<k1>> \o r
      BY <1>4, <2>2
    <3>2. Read(in) = WithUngot(i0, r)
      BY <1>1, <1>3, <2>1, <2>2, <3>1 DEF Read, WithMacros, WithUngot
    <3>3. \E i1 \in Sources : /\ i1 = WithUngot(i0, r) /\ i1.pending = i0.pending /\ i1.macros = i0.macros
                              /\ i1.ungot = r /\ i1.typed = i0.typed
      BY SourceFields
    <3>4. r \o t = q
      <4>1. PICK one \in Text : one = <<k1>>
        <5>1. <<k1>> \in Text
          BY DEF Text
        <5> QED
          BY <5>1
      <4>2. (one \o r) \o t = one \o (r \o t)
        BY Associative
      <4>3. PICK x \in Text : x = r \o t
        BY Joined
      <4>4. Tail(<<k1>> \o x) = x
        BY DEF Text
      <4> QED
        BY <1>7, <2>1, <3>1, <4>1, <4>2, <4>3, <4>4
    <3> QED
      BY <1>3, <2>1, <3>2, <3>3, <3>4 DEF Behind
  <2>3. CASE u = <<>>
    <3>1. w = t
      <4>1. <<>> \o t = t
        BY Joined
      <4> QED
        BY <2>1, <2>3, <4>1
    <3>2. Read(in) = WithTyped(i0, q)
      BY <1>1, <1>3, <1>7, <2>1, <2>3, <3>1 DEF Read, WithMacros, WithTyped
    <3>3. \E i1 \in Sources : /\ i1 = WithTyped(i0, q) /\ i1.pending = i0.pending /\ i1.macros = i0.macros
                              /\ i1.ungot = i0.ungot /\ i1.typed = q
      BY SourceFields
    <3>4. <<>> \o q = q
      BY Joined
    <3> QED
      BY <1>3, <2>1, <2>3, <3>2, <3>3, <3>4 DEF Behind
  <2> QED
    BY <2>2, <2>3
<1>9. Stream(i1) = q
  BY <1>1, <1>8, StreamBehind
<1> QED
  BY <1>1, <1>2, <1>5, <1>7, <1>8, <1>9

\* rl_read_key reads the first key of the stream, and leaves none pending. Of the
\* keys put back or typed it takes at most one.
LEMMA ReadIsNext ==
  ASSUME NEW in \in Sources, HasKey(in)
  PROVE  /\ Stream(in) = <<NextKey(in)>> \o Stream(Read(in))
         /\ Read(in).pending = None /\ Len(Behind(Read(in))) >= Len(Behind(in)) - 1
<1>1. Len(Behind(in)) \in Nat
  BY BehindIs
<1>2. Len(Behind(in)) >= Len(Behind(in)) - 1
  BY <1>1
<1>3. CASE in.pending # None
  BY <1>2, <1>3, ReadPending
<1>4. CASE in.pending = None /\ Live(in.macros) # <<>>
  BY <1>2, <1>4, ReadMacro
<1>5. CASE in.pending = None /\ Live(in.macros) = <<>>
  <2>1. /\ Stream(in) = <<NextKey(in)>> \o Stream(Read(in)) /\ Read(in).pending = None
        /\ Len(Behind(Read(in))) = Len(Behind(in)) - 1
    BY <1>5, ReadTyped
  <2> QED
    BY <1>1, <2>1
<1> QED
  BY <1>3, <1>4, <1>5

-----------------------------------------------------------------------------
(* What the operations on the sources make of the stream *)

\* Keys that are put back are the next keys again: those of a macro, if they
\* are its last ones read, and others in front of all that was put back.
LEMMA PutBackStream ==
  ASSUME NEW in \in Sources, in.pending = None, NEW back \in Text,
         in.macros # <<>> =>
           LET m == in.macros[1]
           IN  Len(back) <= m.at /\ SubSeq(m.keys, m.at - Len(back) + 1, m.at) = back
  PROVE  /\ Stream(PutBack(in, back)) = back \o Stream(in)
         /\ PutBack(in, back).pending = None
<1>1. PICK w \in Text : w = Behind(in)
  BY BehindIs
<1>2. PICK d \in Nat : d = Len(back)
  BY DEF Text
<1>3. CASE in.macros = <<>>
  <2>1. PICK u, t \in Text : u = in.ungot /\ t = in.typed /\ w = u \o t
    BY <1>1, SourceFields DEF Behind
  <2>2. PICK q \in Text : q = back \o u
    BY Joined
  <2>3. PutBack(in, back) = WithUngot(in, q)
    BY <1>3, <2>1, <2>2 DEF PutBack, WithUngot
  <2>4. \E i1 \in Sources : /\ i1 = WithUngot(in, q) /\ i1.pending = in.pending /\ i1.macros = in.macros
                            /\ i1.ungot = q /\ i1.typed = in.typed
    BY SourceFields
  <2>5. PICK i1 \in Sources : /\ i1 = PutBack(in, back) /\ i1.pending = None /\ i1.macros = <<>>
                              /\ Behind(i1) = q \o t
    BY <1>3, <2>1, <2>3, <2>4 DEF Behind
  <2>6. (back \o u) \o t = back \o (u \o t)
    <3>1. Two(back, u, t)
      BY TwoAndOne
    <3> QED
      BY <3>1 DEF Two
  <2>7. Stream(i1) = back \o w /\ Stream(in) = w
    BY <1>1, <1>3, <2>1, <2>2, <2>5, <2>6, StreamBehind
  <2> QED
    BY <2>5, <2>7
<1>4. CASE in.macros # <<>>
  <2>1. PICK ms \in Seq(MacroRun) : ms = in.macros /\ ms # <<>>
    BY <1>4, SourceFields
  <2>2. PICK m \in MacroRun : m = ms[1] /\ d <= m.at /\ SubSeq(m.keys, m.at - d + 1, m.at) = back
    BY <1>2, <1>4, <2>1
  <2>3. m.at \in Nat /\ m.keys \in Seq(Key) /\ m.at <= Len(m.keys)
    BY DEF MacroRun
  <2>4. PICK k \in Nat : k = m.at - d /\ k <= m.at /\ k <= Len(m.keys)
    <3>1. \A x, y, z \in Nat : x <= y /\ y <= z => y - x \in Nat /\ y - x <= y /\ y - x <= z
      OBVIOUS
    <3>2. Len(m.keys) \in Nat
      BY <2>3
    <3> QED
      BY <2>2, <2>3, <3>1, <3>2
  <2>5. Max({0, m.at - d}) = k
    BY <2>4 DEF Max
  <2>6. PICK r \in MacroRun : r = [m EXCEPT !.at = k] /\ r.keys = m.keys /\ r.at = k
    <3>1. [m EXCEPT !.at = k] \in MacroRun
      BY <2>3, <2>4 DEF MacroRun
    <3>2. [m EXCEPT !.at = k].keys = m.keys /\ [m EXCEPT !.at = k].at = k
      BY DEF MacroRun
    <3> QED
      BY <3>1, <3>2
  <2>7. PutBack(in, back) = WithMacros(in, WithFirst(ms, r))
    BY <1>2, <1>4, <2>1, <2>2, <2>5, <2>6 DEF PutBack, WithMacros, WithFirst
  <2>8. PICK rs \in Seq(MacroRun) : rs = WithFirst(ms, r)
    BY <2>1, FirstReplaced
  <2>9. \E i1 \in Sources : /\ i1 = WithMacros(in, rs) /\ i1.pending = in.pending /\ i1.macros = rs
                            /\ i1.ungot = in.ungot /\ i1.typed = in.typed
    BY SourceFields
  <2>10. PICK i1 \in Sources : /\ i1 = PutBack(in, back) /\ i1.pending = None /\ i1.macros = rs
                               /\ Behind(i1) = w
    BY <1>1, <2>7, <2>8, <2>9 DEF Behind
  <2>11. PICK rest \in Text : /\ MacroStream(ms) = Rest(m) \o rest /\ MacroStream(rs) = Rest(r) \o rest
    BY <2>1, <2>2, <2>8, FirstMacro
  <2>12. PICK a \in Text : a = Rest(m) /\ Rest(r) = back \o a
    <3>1. Rest(m) \in Text /\ Rest(r) = SubSeq(m.keys, r.at + 1, m.at) \o Rest(m)
      BY <2>4, <2>6, RestFrom, RestIsText
    <3> QED
      BY <2>2, <2>4, <2>6, <3>1
  <2>13. Stream(in) = (a \o rest) \o w
    BY <1>1, <2>1, <2>11, <2>12, StreamBehind
  <2>14. Stream(i1) = ((back \o a) \o rest) \o w
    BY <2>10, <2>11, <2>12, StreamBehind
  <2>15. ((back \o a) \o rest) \o w = back \o ((a \o rest) \o w)
    <3>1. PICK ar \in Text : ar = a \o rest
      BY Joined
    <3>2. (back \o a) \o rest = back \o (a \o rest)
      <4>1. Two(back, a, rest)
        BY TwoAndOne
      <4> QED
        BY <4>1 DEF Two
    <3>3. (back \o ar) \o w = back \o (ar \o w)
      <4>1. Two(back, ar, w)
        BY TwoAndOne
      <4> QED
        BY <4>1 DEF Two
    <3> QED
      BY <3>1, <3>2, <3>3
  <2> QED
    BY <2>10, <2>13, <2>14, <2>15
<1> QED
  BY <1>3, <1>4

\* No key is taken from those put back or typed.
LEMMA PutBackBehind ==
  ASSUME NEW in \in Sources, in.pending = None, NEW back \in Text
  PROVE  PutBack(in, back).pending = None /\ Len(Behind(PutBack(in, back))) >= Len(Behind(in))
<1>1. Len(Behind(in)) \in Nat
  BY BehindIs
<1>2. CASE in.macros # <<>>
  <2>1. PICK ms : PutBack(in, back) = WithMacros(in, ms)
    BY <1>2 DEF PutBack, WithMacros
  <2>2. /\ WithMacros(in, ms).pending = in.pending /\ WithMacros(in, ms).ungot = in.ungot
        /\ WithMacros(in, ms).typed = in.typed
    BY DEF WithMacros, Sources
  <2> QED
    BY <1>1, <2>1, <2>2 DEF Behind
<1>3. CASE in.macros = <<>>
  <2>1. PICK u, t \in Text : u = in.ungot /\ t = in.typed
    BY SourceFields
  <2>2. PICK q, w \in Text : q = back \o u /\ w = u \o t
    BY Joined
  <2>3. PutBack(in, back) = WithUngot(in, q)
    BY <1>3, <2>1, <2>2 DEF PutBack, WithUngot
  <2>4. \E i1 \in Sources : /\ i1 = WithUngot(in, q) /\ i1.pending = in.pending /\ i1.macros = in.macros
                            /\ i1.ungot = q /\ i1.typed = in.typed
    BY SourceFields
  <2>5. (back \o u) \o t = back \o (u \o t)
    <3>1. Two(back, u, t)
      BY TwoAndOne
    <3> QED
      BY <3>1 DEF Two
  <2>6. Len(back \o w) = Len(back) + Len(w)
    BY Joined
  <2>7. Len(back) \in Nat /\ Len(w) \in Nat
    BY DEF Text
  <2>8. Len(back \o w) >= Len(w)
    BY <2>6, <2>7
  <2> QED
    BY <2>1, <2>2, <2>3, <2>4, <2>5, <2>8 DEF Behind
<1> QED
  BY <1>2, <1>3

\* What rl_insert reads ahead is what was typed first.
LEMMA AheadIsFirst ==
  ASSUME NEW in \in Sources, NEW n \in Nat, n = Len(Ahead(in))
  PROVE  Ahead(in) = SubSeq(in.typed, 1, n)
<1>1. in.typed \in Seq(Key) /\ Len(in.typed) \in Nat
  BY DEF Sources
<1>2. CASE in.macros # <<>> \/ in.ungot # <<>>
  <2>1. Ahead(in) = <<>>
    BY <1>2 DEF Ahead
  <2>2. n = 0
    BY <2>1
  <2> QED
    BY <2>1, <2>2, SubSeqEmpty
<1>3. CASE ~(in.macros # <<>> \/ in.ungot # <<>>)
  <2> DEFINE S == {k \in 0 .. Len(in.typed) : \A i \in 1 .. k : Inserting(in.typed[i])}
  <2>1. Ahead(in) = SubSeq(in.typed, 1, Max(S))
    BY <1>3 DEF Ahead
  <2>2. S \in SUBSET (0 .. Len(in.typed)) /\ 0 \in S
    BY <1>1
  <2> HIDE DEF S
  <2>3. Max(S) \in 0 .. Len(in.typed)
    BY <1>1, <2>2, MaxChosen
  <2>4. PICK k \in 0 .. Len(in.typed) : k = Max(S)
    BY <2>3
  <2>5. Len(SubSeq(in.typed, 1, k)) = k
    BY <1>1, PartOf
  <2> QED
    BY <2>1, <2>4, <2>5
<1> QED
  BY <1>2, <1>3

\* rl_insert takes what it reads ahead, and the key after it stays the next one.
LEMMA InsertStream ==
  ASSUME NEW in \in Sources, in.pending = None
  PROVE  /\ Stream(in) = Ahead(in) \o Stream(AfterInsert(in))
         /\ AfterInsert(in).macros = in.macros
         /\ AfterInsert(in).pending # None => AfterInsert(in).macros = <<>>
<1>1. PICK t \in Text : t = in.typed
  BY SourceFields
<1>2. PICK ahead \in Text : ahead = Ahead(in) /\ Len(ahead) <= Len(t)
  BY <1>1, AheadIsTyped DEF Text
<1>3. PICK n \in 0 .. Len(t) : n = Len(ahead) /\ n \in Nat
  BY <1>2 DEF Text
<1>4. PICK a, left \in Text : /\ a = SubSeq(t, 1, n) /\ t = a \o left
                              /\ left = SubSeq(t, n + 1, Len(t)) /\ Len(left) = Len(t) - n
  BY TwoParts
<1>5. a = ahead
  BY <1>1, <1>2, <1>3, <1>4, AheadIsFirst
<1>6. CASE in.macros # <<>> \/ in.ungot # <<>>
  <2>1. ahead = <<>>
    BY <1>2, <1>6 DEF Ahead
  <2>2. left = t
    <3>1. t = <<>> \o left
      BY <1>4, <1>5, <2>1
    <3>2. <<>> \o left = left
      BY Joined
    <3> QED
      BY <3>1, <3>2
  <2>3. AfterInsert(in) = WithTyped(in, t)
    BY <1>1, <1>2, <1>3, <1>4, <1>6, <2>2 DEF AfterInsert, WithTyped
  <2>4. \E i1 \in Sources : /\ i1 = WithTyped(in, t) /\ i1.pending = in.pending /\ i1.macros = in.macros
                            /\ i1.ungot = in.ungot /\ i1.typed = t
    BY SourceFields
  <2>5. PICK i1 \in Sources : /\ i1 = AfterInsert(in) /\ i1.pending = None /\ i1.macros = in.macros
                              /\ i1.ungot = in.ungot /\ i1.typed = in.typed
    BY <1>1, <2>3, <2>4
  <2>6. PICK s \in Text : s = Stream(i1)
    BY StreamIs
  <2>7. Stream(in) = s
    BY <2>5, <2>6, StreamNotPending
  <2>8. <<>> \o s = s
    BY Joined
  <2> QED
    BY <1>2, <2>1, <2>5, <2>6, <2>7, <2>8
<1>7. CASE in.macros = <<>> /\ in.ungot = <<>>
  <2>1. Stream(in) = t
    <3>1. <<>> \o t = t
      BY Joined
    <3> QED
      BY <1>1, <1>7, <3>1, StreamBehind DEF Behind
  <2>2. CASE left = <<>>
    <3>1. AfterInsert(in) = WithTyped(in, left)
      BY <1>1, <1>2, <1>3, <1>4, <2>2 DEF AfterInsert, WithTyped
    <3>2. \E i1 \in Sources : /\ i1 = WithTyped(in, left) /\ i1.pending = in.pending /\ i1.macros = in.macros
                              /\ i1.ungot = in.ungot /\ i1.typed = left
      BY SourceFields
    <3>3. PICK i1 \in Sources : /\ i1 = AfterInsert(in) /\ i1.pending = None /\ i1.macros = <<>>
                                /\ Behind(i1) = <<>> \o left
      BY <1>7, <3>1, <3>2 DEF Behind
    <3>4. <<>> \o left = left
      BY Joined
    <3>5. Stream(i1) = left
      BY <3>3, <3>4, StreamBehind
    <3> QED
      BY <1>2, <1>4, <1>5, <1>7, <2>1, <3>3, <3>5
  <2>3. CASE left # <<>>
    <3>1. PICK key \in Key, q \in Text : key = Head(left) /\ q = Tail(left) /\ left = <<key>> \o q
      <4>1. Head(left) \in Key /\ Tail(left) \in Text /\ left = <<Head(left)>> \o Tail(left)
        BY <2>3 DEF Text
      <4> QED
        BY <4>1
    <3>2. key \in Key \cup {None} /\ key # None
      BY CommandLoopAssumption
    <3>3. PICK i0 \in Sources : /\ i0 = WithPending(in, key) /\ i0.pending = key /\ i0.macros = in.macros
                                /\ i0.ungot = in.ungot /\ i0.typed = in.typed
      BY <3>2, SourceFields
    <3>4. \E i1 \in Sources : /\ i1 = WithTyped(i0, q) /\ i1.pending = i0.pending /\ i1.macros = i0.macros
                              /\ i1.ungot = i0.ungot /\ i1.typed = q
      BY SourceFields
    <3>5. AfterInsert(in) = WithTyped(i0, q)
      BY <1>1, <1>2, <1>3, <1>4, <1>7, <2>3, <3>1, <3>3 DEF AfterInsert, WithPending, WithTyped
    <3>6. PICK i1 \in Sources : /\ i1 = AfterInsert(in) /\ i1.pending = key /\ i1.macros = <<>>
                                /\ i1.ungot = <<>> /\ i1.typed = q
      BY <1>7, <3>3, <3>4, <3>5
    <3>7. <<>> \o q = q
      BY Joined
    <3>8. Stream(i1) = left
      <4>1. PICK p, m, u, r \in Text :
              /\ p = PendingKey(i1) /\ m = MacroStream(i1.macros) /\ u = i1.ungot /\ r = i1.typed
              /\ u \o r \in Text /\ m \o (u \o r) \in Text
              /\ Stream(i1) = p \o (m \o (u \o r)) /\ Stream(i1) \in Text
        BY StreamIs
      <4>2. p = <<key>> /\ m = <<>> /\ u = <<>> /\ r = q
        BY <3>2, <3>6, <4>1, NoMacroStream DEF PendingKey
      <4> QED
        BY <3>1, <3>7, <4>1, <4>2
    <3> QED
      BY <1>2, <1>4, <1>5, <1>7, <2>1, <3>6, <3>8
  <2> QED
    BY <2>2, <2>3
<1> QED
  BY <1>6, <1>7

\* What a command makes of the sources: an abort discards the pending key and the
\* macros, and the others but rl_insert put macros in front, or nothing.
Feeds(e, in) ==
  \/ e.abort /\ e.input = Aborts(in).input
  \/ ~e.abort /\ \E ms \in Seq(MacroRun) : e.input = WithMacros(in, ms \o in.macros)

\* An abort.
LEMMA AbortFeeds ==
  ASSUME NEW in
  PROVE  Feeds(Aborts(in), in)
BY DEF Aborts, Feeds

\* A command that leaves the sources alone puts no macros in front.
LEMMA DoesFeeds ==
  ASSUME NEW in \in Sources, NEW m
  PROVE  Feeds(Does(in, m), in)
<1>1. PICK none \in Seq(MacroRun) : none = <<>>
  BY EmptyIn
<1>2. none \o in.macros = in.macros
  <2>1. in.macros \in Seq(MacroRun)
    BY SourceFields
  <2> QED
    BY <1>1, <2>1
<1>3. WithMacros(in, in.macros) = in
  BY DEF WithMacros, Sources
<1> QED
  BY <1>2, <1>3 DEF Does, Feeds

\* _rl_with_macro_input puts the macro in front, or aborts.
LEMMA InputFeeds ==
  ASSUME NEW in, NEW m, NEW count \in Int, NEW ks \in Seq(Key)
  PROVE  Feeds(WithMacroInput(in, m, count, ks), in)
<1>1. CASE count < 0 \/ Len(in.macros) + count > MaxLevel + 1
  BY <1>1, AbortFeeds DEF WithMacroInput
<1>2. CASE ~(count < 0 \/ Len(in.macros) + count > MaxLevel + 1)
  <2> DEFINE run == [keys |-> ks, at |-> 0]
             runs == [k \in 1 .. count |-> run]
  <2>1. run \in MacroRun
    BY DEF MacroRun
  <2> HIDE DEF run
  <2>2. count \in Nat /\ runs \in Seq(MacroRun)
    BY <1>2, <2>1
  <2> HIDE DEF runs
  <2>3. WithMacroInput(in, m, count, ks) = Does(WithMacros(in, runs \o in.macros), m)
    BY <1>2 DEF WithMacroInput, WithMacros, runs, run
  <2> QED
    BY <2>2, <2>3 DEF Does, Feeds
<1> QED
  BY <1>1, <1>2

\* rl_call_last_kbd_macro puts the last macro in front, aborts, or erases its own key.
LEMMA CallFeeds ==
  ASSUME NEW in \in Sources, NEW m \in MacroState, NEW count \in Int
  PROVE  Feeds(CallMacro(in, m, count), in)
<1>1. CASE m = NoMacro
  BY <1>1, AbortFeeds DEF CallMacro
<1>2. CASE m # NoMacro /\ m.on
  BY <1>2, DoesFeeds DEF CallMacro
<1>3. CASE m # NoMacro /\ ~m.on
  <2>1. PICK ks \in Seq(Key) : ks = m.keys
    BY <1>3, MacroOfKeys
  <2>2. CallMacro(in, m, count) = WithMacroInput(in, m, count, ks)
    BY <1>3, <2>1 DEF CallMacro
  <2> QED
    BY <2>2, InputFeeds
<1> QED
  BY <1>1, <1>2, <1>3

\* rl_start_kbd_macro puts the old macro in front when it extends it.
LEMMA StartFeeds ==
  ASSUME NEW in \in Sources, NEW m \in MacroState, NEW explicit \in BOOLEAN
  PROVE  Feeds(StartMacro(in, m, explicit), in)
<1> DEFINE on == [m EXCEPT !.on = TRUE]
<1>1. CASE m.on
  BY <1>1, AbortFeeds DEF StartMacro
<1>2. CASE ~m.on /\ ~explicit
  BY <1>2, DoesFeeds DEF StartMacro
<1>3. CASE ~m.on /\ explicit /\ m = NoMacro
  BY <1>3, DoesFeeds DEF StartMacro
<1>4. CASE ~m.on /\ explicit /\ m # NoMacro
  <2>1. PICK ks \in Seq(Key), n \in Int : ks = m.keys /\ n = 1
    <3>1. m.keys \in Seq(Key) /\ 1 \in Int
      BY <1>4, MacroOfKeys
    <3> QED
      BY <3>1
  <2>2. StartMacro(in, m, explicit) = WithMacroInput(in, on, n, ks)
    BY <1>4, <2>1 DEF StartMacro
  <2> HIDE DEF on
  <2>3. Feeds(WithMacroInput(in, on, n, ks), in)
    BY InputFeeds
  <2> QED
    BY <2>2, <2>3
<1> QED
  BY <1>1, <1>2, <1>3, <1>4

\* rl_end_kbd_macro puts the macro in front when it has an argument.
LEMMA EndFeeds ==
  ASSUME NEW in \in Sources, NEW m \in MacroState, m.on => m.keys \in Seq(Key),
         NEW count \in Int, NEW length \in Nat
  PROVE  Feeds(EndMacro(in, m, count, length), in)
<1>1. CASE ~m.on
  BY <1>1, AbortFeeds DEF EndMacro
<1>2. CASE m.on
  <2> DEFINE left == SubSeq(m.keys, 1, Len(m.keys) - length)
             m1 == [keys |-> left, on |-> FALSE]
  <2>1. Len(m.keys) \in Nat
    BY <1>2
  <2>2. Len(m.keys) - length \in Int /\ Len(m.keys) - length <= Len(m.keys)
    BY <2>1
  <2>3. left \in Seq(Key)
    BY <1>2, <2>2, PartOf
  <2>4. EndMacro(in, m, count, length) = CallMacro(in, m1, count - 1)
    BY <1>2 DEF EndMacro
  <2> HIDE DEF left
  <2>5. m1 \in MacroState
    BY <2>3 DEF MacroState
  <2> HIDE DEF m1
  <2>6. PICK n \in Int : n = count - 1
    OBVIOUS
  <2>7. Feeds(CallMacro(in, m1, n), in)
    BY <2>5, CallFeeds
  <2> QED
    BY <2>4, <2>6, <2>7
<1> QED
  BY <1>1, <1>2 DEF MacroState

\* So do all commands but rl_insert.
LEMMA EffectFeeds ==
  ASSUME NEW c \in Command, NEW in \in Sources, NEW m \in MacroState,
         m.on => m.keys \in Seq(Key), NEW length \in Nat, arg.count \in Int
  PROVE  IF c.cmd = "self-insert" THEN Effect(c, in, m, length) = Does(AfterInsert(in), m)
         ELSE Feeds(Effect(c, in, m, length), in)
<1>1. c.cmd \in Commands /\ c.text \in Seq(Key)
  BY DEF Command
<1>2. CASE c.cmd = "self-insert"
  BY <1>2 DEF Effect, Yanks
<1>3. CASE c.cmd = "macro"
  <2>1. PICK n \in Int, ks \in Seq(Key) : n = 1 /\ ks = c.text
    BY <1>1
  <2>2. Effect(c, in, m, length) = WithMacroInput(in, m, n, ks)
    BY <1>3, <2>1 DEF Effect, Yanks
  <2> QED
    BY <1>3, <2>2, InputFeeds
<1>4. CASE c.cmd = "start-kbd-macro"
  <2>1. PICK b \in BOOLEAN : b = Explicit
    <3>1. Explicit \in BOOLEAN
      BY DEF Explicit
    <3> QED
      BY <3>1
  <2>2. Effect(c, in, m, length) = StartMacro(in, m, b)
    BY <1>4, <2>1 DEF Effect, Yanks
  <2> QED
    BY <1>4, <2>2, StartFeeds
<1>5. CASE c.cmd = "end-kbd-macro"
  <2>1. PICK n \in Int : n = arg.count
    OBVIOUS
  <2>2. Effect(c, in, m, length) = EndMacro(in, m, n, length)
    BY <1>5, <2>1 DEF Effect, Yanks
  <2> QED
    BY <1>5, <2>2, EndFeeds
<1>6. CASE c.cmd = "call-last-kbd-macro"
  <2>1. PICK n \in Int : n = arg.count
    OBVIOUS
  <2>2. Effect(c, in, m, length) = CallMacro(in, m, n)
    BY <1>6, <2>1 DEF Effect, Yanks
  <2> QED
    BY <1>6, <2>2, CallFeeds
<1>7. CASE c.cmd = "abort" \/ (c.cmd \in Yanks /\ YankFails(c.cmd))
  <2>1. Effect(c, in, m, length) = Aborts(in) /\ c.cmd # "self-insert"
    BY <1>7 DEF Effect, Yanks
  <2> QED
    BY <2>1, AbortFeeds
<1>8. CASE c.cmd \in Kills \cup {"digit-argument", "left"} \/ (c.cmd \in Yanks /\ ~YankFails(c.cmd))
  <2>1. Effect(c, in, m, length) = Does(in, m) /\ c.cmd # "self-insert"
    BY <1>8 DEF Effect, Yanks, Kills
  <2> QED
    BY <2>1, DoesFeeds
<1> QED
  BY <1>1, <1>2, <1>3, <1>4, <1>5, <1>6, <1>7, <1>8 DEF Commands

-----------------------------------------------------------------------------
(* A step takes its keys from the front                                     *)

\* What is taken from the front is a prefix of what was there.
LEMMA TakenFromFront ==
  ASSUME NEW used \in Text, NEW rest \in Text
  PROVE  /\ IsPrefix(used, used \o rest)
         /\ SubSeq(used \o rest, Len(used) + 1, Len(used \o rest)) = rest
<1>1. /\ Len(used \o rest) = Len(used) + Len(rest) /\ SubSeq(used \o rest, 1, Len(used)) = used
      /\ SubSeq(used \o rest, Len(used) + 1, Len(used \o rest)) = rest
  BY Joined
<1>2. Len(used) \in Nat /\ Len(rest) \in Nat
  BY DEF Text
<1>3. SubSeq(used, 1, Len(used)) = used
  BY SubSeqFull DEF Text
<1>4. Len(used) <= Len(used \o rest)
  BY <1>1, <1>2
<1> QED
  BY <1>1, <1>3, <1>4 DEF IsPrefix

\* What is left behind is a suffix.
LEMMA LeftBehind ==
  ASSUME NEW front \in Text, NEW rest \in Text
  PROVE  IsSuffix(rest, front \o rest)
<1>1. PICK m, n \in Nat : m = Len(front) /\ n = Len(rest)
  BY DEF Text
<1>2. PICK all \in Text : /\ all = front \o rest /\ Len(all) = m + n
                          /\ \A k \in 1 .. n : all[m + k] = rest[k]
  <2>1. front \o rest \in Text /\ Len(front \o rest) = m + n
    BY <1>1, Joined
  <2>2. \A k \in 1 .. n : (front \o rest)[m + k] = rest[k]
    BY <1>1, Joined
  <2> QED
    BY <2>1, <2>2
<1>3. PICK a \in Text : a = Reverse(rest) /\ Len(a) = n /\ \A k \in 1 .. n : a[k] = rest[(n - k) + 1]
  <2>1. \A k \in 1 .. n : rest[(n - k) + 1] \in Key
    BY <1>1 DEF Text
  <2>2. Reverse(rest) = [k \in 1 .. n |-> rest[(n - k) + 1]]
    BY <1>1 DEF Reverse
  <2>3. Reverse(rest) \in Text /\ Len(Reverse(rest)) = n
    BY <2>1, <2>2 DEF Text
  <2> QED
    BY <2>2, <2>3
<1>4. PICK b \in Text : b = Reverse(all) /\ Len(b) = m + n /\ \A k \in 1 .. m + n : b[k] = all[((m + n) - k) + 1]
  <2>1. \A k \in 1 .. m + n : all[((m + n) - k) + 1] \in Key
    BY <1>2 DEF Text
  <2>2. Reverse(all) = [k \in 1 .. m + n |-> all[((m + n) - k) + 1]]
    BY <1>2 DEF Reverse
  <2>3. Reverse(all) \in Text /\ Len(Reverse(all)) = m + n
    BY <2>1, <2>2 DEF Text
  <2> QED
    BY <2>2, <2>3
<1>5. \A k \in 1 .. n : a[k] = b[k]
  <2> TAKE k \in 1 .. n
  <2>1. PICK d \in 1 .. n : d = (n - k) + 1
    <3>1. (n - k) + 1 \in 1 .. n
      OBVIOUS
    <3> QED
      BY <3>1
  <2>2. k \in 1 .. m + n /\ ((m + n) - k) + 1 = m + d
    BY <2>1
  <2>3. a[k] = rest[d]
    BY <1>3, <2>1
  <2>4. b[k] = all[m + d]
    BY <1>4, <2>2
  <2> QED
    BY <1>2, <2>1, <2>3, <2>4
<1>6. PICK x \in Text : x = SubSeq(b, 1, n) /\ Len(x) = n /\ \A k \in 1 .. n : x[k] = b[k]
  <2>1. n <= Len(b) /\ b \in Seq(Key)
    BY <1>4 DEF Text
  <2>2. /\ SubSeq(b, 1, n) \in Seq(Key) /\ Len(SubSeq(b, 1, n)) = n
        /\ \A k \in 1 .. n : SubSeq(b, 1, n)[k] = b[k]
    BY <2>1
  <2> QED
    BY <2>2 DEF Text
<1>7. x = a
  BY <1>3, <1>5, <1>6, SameSequence DEF Text
<1>8. SubSeq(a, 1, n) = a
  BY <1>3, SubSeqFull DEF Text
<1>9. n <= m + n
  OBVIOUS
<1> QED
  BY <1>2, <1>3, <1>4, <1>6, <1>7, <1>8, <1>9 DEF IsSuffix, IsPrefix

\* What a step other than typing may do to what is to be read.
Taken(before, after) ==
  \/ step'.aborted /\ IsSuffix(after, before) /\ Len(after) >= Len(Behind(input)) - 1
  \/ /\ ~step'.aborted /\ IsPrefix(step'.used, before)
     /\ after = step'.front \o SubSeq(before, Len(step'.used) + 1, Len(before))

\* No key is pending while macros are executed or a sequence is read.
PendingAlone(in, rest) == in.pending # None => in.macros = <<>> /\ rest = <<>>

\* A command takes the keys that were used for it, and rl_insert those it reads
\* ahead too; a macro that is called goes in front of the rest.
LEMMA RunInOrder ==
  ASSUME KeysOK, NEW c, NEW used, NEW in, NEW recorded, NEW length, NEW exact,
         RunWith(c, used, in, recorded, length, exact),
         Run(c, used, in, recorded, length, exact),
         in.pending = None, Len(Behind(in)) >= Len(Behind(input)) - 1
  PROVE  /\ Taken(used \o Stream(in), path' \o Stream(input'))
         /\ PendingAlone(input', path') /\ path' = <<>>
<1>1. /\ c \in Command /\ used \in Text /\ in \in Sources /\ length \in Nat
      /\ recorded \in Seq(Key) /\ recorded # <<>> /\ Len(in.macros) <= MaxLevel + 1
  BY DEF RunWith, Slot, Text
<1>2. macro \in MacroState /\ arg.count \in Int
  BY CommandLoopAssumption DEF KeysOK
<1>3. PICK m \in MacroState : m = AddMacroChars(macro, recorded) /\ (m.on => m.keys \in Seq(Key))
  <2>1. /\ AddMacroChars(macro, recorded) \in MacroState
        /\ AddMacroChars(macro, recorded).on = macro.on
        /\ macro.on => AddMacroChars(macro, recorded).keys \in Seq(Key)
    BY <1>1, <1>2, AddKeeps
  <2> QED
    BY <2>1
<1>4. PICK e : e = Effect(c, in, m, length)
  OBVIOUS
<1>5. /\ input' = e.input /\ path' = <<>>
      /\ step'.used = used \o (IF c.cmd = "self-insert" THEN Ahead(in) ELSE <<>>)
      /\ step'.front = SubSeq(MacroStream(e.input.macros), 1,
                              Len(MacroStream(e.input.macros)) - Len(MacroStream(in.macros)))
      /\ step'.aborted = e.abort
  BY <1>3, <1>4 DEF Run, Reset
<1>6. PICK ms, w \in Text : /\ ms = MacroStream(in.macros) /\ w = Behind(in)
                            /\ Stream(in) = ms \o w
  BY <1>1, StreamBehind
<1>7. CASE c.cmd = "self-insert"
  <2>1. ~e.abort /\ e.input = AfterInsert(in)
    BY <1>1, <1>2, <1>3, <1>4, <1>7, EffectFeeds DEF Does
  <2>2. PICK i1 \in Sources : i1 = AfterInsert(in)
    BY <1>1, AfterInsertKeeps
  <2>3. PICK ahead \in Text : ahead = Ahead(in)
    BY <1>1, AheadIsTyped DEF Text
  <2>4. PICK s \in Text : s = Stream(i1)
    BY StreamIs
  <2>5. /\ Stream(in) = ahead \o s /\ i1.macros = in.macros
        /\ i1.pending # None => i1.macros = <<>>
    BY <1>1, <2>2, <2>3, <2>4, InsertStream
  <2>6. PICK all \in Text : all = used \o ahead
    BY <1>1, Joined
  <2>7. used \o (ahead \o s) = (used \o ahead) \o s
    <3>1. PICK u \in Text : u = used
      BY <1>1
    <3>2. (u \o ahead) \o s = u \o (ahead \o s)
      BY Associative
    <3> QED
      BY <3>1, <3>2
  <2>8. IsPrefix(all, all \o s) /\ SubSeq(all \o s, Len(all) + 1, Len(all \o s)) = s
    BY TakenFromFront
  <2>9. step'.front = <<>>
    <3>1. Len(ms) - Len(ms) = 0
      BY DEF Text
    <3> QED
      BY <1>5, <1>6, <2>1, <2>2, <2>5, <3>1, SubSeqEmpty
  <2>10. <<>> \o s = s
    BY Joined
  <2>11. step'.used = all /\ used \o Stream(in) = all \o s
    BY <1>5, <1>7, <2>3, <2>5, <2>6, <2>7
  <2>12. path' \o Stream(input') = s
    BY <1>5, <2>1, <2>2, <2>4, <2>10
  <2>13. Taken(used \o Stream(in), path' \o Stream(input'))
    BY <1>5, <2>1, <2>8, <2>9, <2>10, <2>11, <2>12 DEF Taken
  <2> QED
    BY <1>5, <2>1, <2>2, <2>5, <2>13 DEF PendingAlone
<1>8. CASE c.cmd # "self-insert" /\ e.abort
  <2>1. e.input = Aborts(in).input
    BY <1>1, <1>2, <1>3, <1>4, <1>8, EffectFeeds DEF Feeds
  <2>2. PICK none \in Seq(MacroRun) : none = <<>>
    BY EmptyIn
  <2>3. \E i1 \in Sources : /\ i1 = WithMacros(in, none) /\ i1.pending = in.pending /\ i1.macros = none
                            /\ i1.ungot = in.ungot /\ i1.typed = in.typed
    BY <1>1, SourceFields
  <2>4. WithMacros(in, <<>>) = e.input
    BY <1>1, <2>1 DEF Aborts, WithMacros, Sources
  <2>5. PICK i1 \in Sources : /\ i1 = e.input /\ i1.pending = None /\ i1.macros = <<>> /\ Behind(i1) = w
    BY <1>6, <2>2, <2>3, <2>4 DEF Behind
  <2>6. Stream(i1) = w
    BY <2>5, StreamBehind
  <2>7. <<>> \o w = w
    BY Joined
  <2>8. used \o (ms \o w) = (used \o ms) \o w
    BY <1>1, Associative
  <2>9. PICK x \in Text : x = used \o ms
    BY <1>1, Joined
  <2>10. IsSuffix(w, x \o w)
    BY LeftBehind
  <2>11. Taken(used \o Stream(in), path' \o Stream(input'))
    BY <1>5, <1>6, <1>8, <2>5, <2>6, <2>7, <2>8, <2>9, <2>10 DEF Taken
  <2> QED
    BY <1>5, <2>5, <2>11 DEF PendingAlone
<1>9. CASE c.cmd # "self-insert" /\ ~e.abort
  <2>1. PICK new \in Seq(MacroRun) : e.input = WithMacros(in, new \o in.macros)
    BY <1>1, <1>2, <1>3, <1>4, <1>9, EffectFeeds DEF Feeds
  <2>2. in.macros \in Seq(MacroRun)
    BY <1>1, SourceFields
  <2>3. /\ new \o in.macros \in Seq(MacroRun)
        /\ MacroStream(new \o in.macros) = MacroStream(new) \o ms
    BY <1>6, <2>2, MacrosJoined
  <2>4. PICK rs \in Seq(MacroRun) : rs = new \o in.macros
    BY <2>3
  <2>5. PICK f \in Text : f = MacroStream(new) /\ MacroStream(rs) = f \o ms
    BY <2>3, <2>4, StreamOfRests
  <2>6. \E i1 \in Sources : /\ i1 = WithMacros(in, rs) /\ i1.pending = in.pending /\ i1.macros = rs
                            /\ i1.ungot = in.ungot /\ i1.typed = in.typed
    BY <1>1, SourceFields
  <2>7. PICK i1 \in Sources : /\ i1 = e.input /\ i1.pending = None /\ i1.macros = rs /\ Behind(i1) = w
    BY <1>6, <2>1, <2>4, <2>6 DEF Behind
  <2>8. Stream(i1) = (f \o ms) \o w
    BY <2>5, <2>7, StreamBehind
  <2>9. (f \o ms) \o w = f \o (ms \o w)
    BY Associative
  <2>10. PICK s \in Text : s = ms \o w
    BY Joined
  <2>11. step'.front = f
    <3>1. Len(f \o ms) = Len(f) + Len(ms) /\ SubSeq(f \o ms, 1, Len(f)) = f
      BY Joined
    <3>2. Len(f) \in Nat /\ Len(ms) \in Nat
      BY DEF Text
    <3>3. Len(f \o ms) - Len(ms) = Len(f)
      BY <3>1, <3>2
    <3> QED
      BY <1>5, <1>6, <2>5, <2>7, <3>1, <3>3
  <2>12. step'.used = used
    <3>1. used \o <<>> = used
      BY <1>1, Joined
    <3> QED
      BY <1>5, <1>9, <3>1
  <2>13. IsPrefix(used, used \o s) /\ SubSeq(used \o s, Len(used) + 1, Len(used \o s)) = s
    BY <1>1, TakenFromFront
  <2>14. path' \o Stream(input') = f \o s
    <3>1. PICK fs \in Text : fs = f \o s
      BY Joined
    <3>2. <<>> \o fs = fs
      BY Joined
    <3> QED
      BY <1>5, <2>7, <2>8, <2>9, <2>10, <3>1, <3>2
  <2>15. Taken(used \o Stream(in), path' \o Stream(input'))
    BY <1>5, <1>6, <1>9, <2>10, <2>11, <2>12, <2>13, <2>14 DEF Taken
  <2> QED
    BY <1>5, <2>7, <2>15 DEF PendingAlone
<1> QED
  BY <1>5, <1>7, <1>8, <1>9

-----------------------------------------------------------------------------
(* The invariant: where the keys of the sequence being read came from       *)

\* The keys of the sequence are the last ones read of the innermost macro, unless
\* it began in another one.
PathInMacro(in, rest, began) ==
  rest # <<>> /\ ~began /\ in.macros # <<>> =>
    LET m == in.macros[1]
    IN  Len(rest) <= m.at /\ SubSeq(m.keys, m.at - Len(rest) + 1, m.at) = rest

\* What the invariant adds: no key is pending while there is more to be read before
\* it, and the sequence is in the macro where it began.
InputPart == PendingAlone(input, path) /\ PathInMacro(input, path, crossed)

\* So it is when one more key is read.
LEMMA ReadInMacro ==
  ASSUME input \in Sources, path \in Text, HasKey(input), InputPart,
         NEW in \in Sources, in = Read(input), NEW key \in Key, key = NextKey(input),
         NEW all \in Text, all = Append(path, key),
         NEW began, began = (path # <<>> /\ (crossed \/ Len(in.macros) \notin {0, Len(input.macros)}))
  PROVE  PathInMacro(in, all, began)
<1> SUFFICES ASSUME ~began, in.macros # <<>>
             PROVE  LET m == in.macros[1]
                    IN  Len(all) <= m.at /\ SubSeq(m.keys, m.at - Len(all) + 1, m.at) = all
  BY DEF PathInMacro
<1>1. input.pending = None
  <2>1. SUFFICES ASSUME input.pending # None PROVE FALSE
    OBVIOUS
  <2>2. in.macros = input.macros
    BY <2>1, ReadPending
  <2> QED
    BY <2>1, <2>2 DEF InputPart, PendingAlone
<1>2. Live(input.macros) # <<>>
  BY <1>1, ReadTyped
<1>3. PICK m, r \in MacroRun, ms, rs \in Seq(MacroRun) :
        /\ ms = Live(input.macros) /\ m = ms[1] /\ m.at < Len(m.keys)
        /\ rs = in.macros /\ Len(rs) = Len(ms) /\ rs # <<>>
        /\ r = rs[1] /\ r.keys = m.keys /\ r.at = m.at + 1 /\ key = r.keys[r.at]
  BY <1>1, <1>2, ReadMacro
<1>4. PICK l \in Seq(Key), n \in Nat : l = m.keys /\ n = m.at /\ n < Len(l)
  BY <1>3 DEF MacroRun
<1>5. PICK d \in Nat : d = Len(path) /\ Len(all) = d + 1 /\ d <= n /\ SubSeq(l, n - d + 1, n) = path
  <2>1. Len(path) \in Nat /\ Len(all) = Len(path) + 1
    BY DEF Text
  <2>2. CASE path = <<>>
    <3>1. Len(path) = 0 /\ n - 0 + 1 = n + 1
      BY <2>2
    <3>2. SubSeq(l, n + 1, n) = <<>>
      BY SubSeqEmpty
    <3> QED
      BY <2>1, <2>2, <3>1, <3>2
  <2>3. CASE path # <<>>
    <3>1. ~crossed /\ Len(in.macros) \in {0, Len(input.macros)}
      BY <2>3
    <3>2. Len(rs) # 0
      BY <1>3
    <3>3. PICK outer \in Seq(MacroRun) : outer = input.macros /\ Live(outer) = outer /\ outer # <<>>
      <4>1. input.macros \in Seq(MacroRun)
        BY SourceFields
      <4>2. Len(Live(input.macros)) = Len(input.macros)
        BY <1>3, <3>1, <3>2
      <4>3. Live(input.macros) = input.macros
        BY <1>2, <4>1, <4>2, LiveStream
      <4> QED
        BY <1>2, <4>1, <4>3
    <3>4. m = input.macros[1] /\ input.macros # <<>>
      BY <1>3, <3>3
    <3>5. Len(path) <= m.at /\ SubSeq(m.keys, m.at - Len(path) + 1, m.at) = path
      BY <2>3, <3>1, <3>4 DEF InputPart, PathInMacro
    <3> QED
      BY <1>4, <2>1, <3>5
  <2> QED
    BY <2>2, <2>3
<1>6. PICK k \in Nat : k = n - d /\ k <= n
  <2>1. \A x, y \in Nat : x <= y => y - x \in Nat /\ y - x <= y
    OBVIOUS
  <2> QED
    BY <1>5, <2>1
<1>7. SubSeq(l, k + 1, n + 1) = path \o <<key>>
  <2>1. k + 1 \in 1 .. Len(l) + 1 /\ n \in (k + 1) - 1 .. Len(l) /\ n + 1 \in n .. Len(l)
    <3>1. \A x, y, z \in Nat : x <= y /\ y < z =>
            x + 1 \in 1 .. z + 1 /\ y \in (x + 1) - 1 .. z /\ y + 1 \in y .. z
      OBVIOUS
    <3>2. Len(l) \in Nat
      OBVIOUS
    <3> QED
      BY <1>4, <1>6, <3>1, <3>2
  <2>2. SubSeq(l, k + 1, n) \o SubSeq(l, n + 1, n + 1) = SubSeq(l, k + 1, n + 1)
    BY <2>1, ConcatAdjacentSubSeq
  <2>3. SubSeq(l, n + 1, n + 1) = <<l[n + 1]>> \o SubSeq(l, (n + 1) + 1, n + 1)
    <3>1. n + 1 \in 1 .. Len(l) /\ n + 1 \in n + 1 .. Len(l)
      BY <1>4
    <3> QED
      BY <3>1, SubSeqRecursiveFirst
  <2>4. SubSeq(l, (n + 1) + 1, n + 1) = <<>>
    BY SubSeqEmpty
  <2>5. <<key>> \o <<>> = <<key>> /\ l[n + 1] = key
    BY <1>3, <1>4
  <2> QED
    BY <1>5, <1>6, <2>2, <2>3, <2>4, <2>5
<1>8. path \o <<key>> = all
  BY AppendIsConcat DEF Text
<1>9. r.at = n + 1 /\ r.keys = l
  BY <1>3, <1>4
<1>10. PICK e, q, b \in Nat : e = d + 1 /\ q = n + 1 /\ b = k + 1 /\ q - e + 1 = b /\ e <= q
  <2>1. \A x, y \in Nat : y <= x => (x + 1) - (y + 1) + 1 = (x - y) + 1 /\ y + 1 <= x + 1
    OBVIOUS
  <2>2. d + 1 \in Nat /\ n + 1 \in Nat /\ k + 1 \in Nat
    OBVIOUS
  <2>3. (n + 1) - (d + 1) + 1 = k + 1 /\ d + 1 <= n + 1
    BY <1>5, <1>6, <2>1
  <2> QED
    BY <2>2, <2>3
<1>11. Len(all) <= r.at /\ SubSeq(r.keys, r.at - Len(all) + 1, r.at) = all
  <2>1. e = Len(all) /\ q = r.at /\ l = r.keys
    BY <1>5, <1>9, <1>10
  <2>2. SubSeq(l, b, q) = all
    BY <1>7, <1>8, <1>10
  <2>3. q - e + 1 = b /\ e <= q
    BY <1>10
  <2> QED
    BY <2>1, <2>2, <2>3
<1> QED
  BY <1>3, <1>11

\* A part of a part, where it is in the whole.
LEMMA MiddlePart ==
  ASSUME NEW l \in Seq(Key), NEW i \in 1 .. Len(l), NEW j \in 1 .. Len(l),
         NEW f \in 1 .. j - i + 1, NEW d \in 1 .. j - i + 1
  PROVE  SubSeq(SubSeq(l, i, j), f, d) = SubSeq(l, i + f - 1, i + d - 1)
BY SubSeqOfSubSeq

\* The end of the sequence is where the sequence is.
LEMMA EndInMacro ==
  ASSUME NEW in \in Sources, NEW all \in Text, PathInMacro(in, all, FALSE),
         NEW n \in 1 .. Len(all), NEW back \in Text, back = SubSeq(all, n + 1, Len(all)),
         in.macros # <<>>
  PROVE  LET m == in.macros[1]
         IN  Len(back) <= m.at /\ SubSeq(m.keys, m.at - Len(back) + 1, m.at) = back
<1>1. PICK m \in MacroRun : m = in.macros[1]
  <2>1. in.macros \in Seq(MacroRun)
    BY SourceFields
  <2> QED
    BY <2>1
<1>2. PICK l \in Seq(Key), p \in Nat : l = m.keys /\ p = m.at /\ p <= Len(l)
  BY DEF MacroRun
<1>3. PICK d \in Nat : d = Len(all) /\ n <= d /\ n \in Nat /\ n # 0
  BY DEF Text
<1>4. d <= p /\ SubSeq(l, p - d + 1, p) = all
  <2>1. all # <<>>
    BY <1>3
  <2> QED
    BY <1>1, <1>2, <1>3, <2>1 DEF PathInMacro
<1>5. PICK b \in Nat : b = Len(back) /\ b = d - n /\ b <= p
  <2>1. Len(SubSeq(all, n + 1, Len(all))) = d - n
    BY <1>3, Halves
  <2>2. \A x, y, z \in Nat : x <= y /\ y <= z => y - x \in Nat /\ y - x <= z
    OBVIOUS
  <2> QED
    BY <1>3, <1>4, <2>1, <2>2
<1>6. CASE n = d
  <2>1. b = 0 /\ p - b + 1 = p + 1
    BY <1>3, <1>5, <1>6
  <2>2. back = <<>>
    BY <1>5, <2>1 DEF Text
  <2>3. SubSeq(l, p + 1, p) = <<>>
    BY SubSeqEmpty
  <2>4. Len(back) <= m.at /\ SubSeq(m.keys, m.at - Len(back) + 1, m.at) = back
    BY <1>2, <1>5, <2>1, <2>2, <2>3
  <2> QED
    BY <1>1, <2>4
<1>7. CASE n < d
  <2>1. PICK k \in Nat : k = p - d
    <3>1. \A x, y \in Nat : y <= x => x - y \in Nat
      OBVIOUS
    <3> QED
      BY <1>4, <3>1
  <2>2. /\ k + 1 \in 1 .. Len(l) /\ p \in 1 .. Len(l)
        /\ n + 1 \in 1 .. p - (k + 1) + 1 /\ d \in 1 .. p - (k + 1) + 1
    <3>1. \A x, y, z, u \in Nat : y < z /\ z <= x /\ x <= u =>
            /\ (x - z) + 1 \in 1 .. u /\ x \in 1 .. u
            /\ y + 1 \in 1 .. x - ((x - z) + 1) + 1 /\ z \in 1 .. x - ((x - z) + 1) + 1
      OBVIOUS
    <3>2. Len(l) \in Nat /\ n \in Nat
      OBVIOUS
    <3> QED
      BY <1>2, <1>3, <1>4, <1>7, <2>1, <3>1, <3>2
  <2>3. SubSeq(SubSeq(l, k + 1, p), n + 1, d) = SubSeq(l, (k + 1) + (n + 1) - 1, (k + 1) + d - 1)
    <3>1. PICK i, f \in Nat : i = k + 1 /\ f = n + 1
      OBVIOUS
    <3>2. /\ i \in 1 .. Len(l) /\ p \in 1 .. Len(l)
          /\ f \in 1 .. p - i + 1 /\ d \in 1 .. p - i + 1
      BY <2>2, <3>1
    <3>3. SubSeq(SubSeq(l, i, p), f, d) = SubSeq(l, i + f - 1, i + d - 1)
      BY <3>2, MiddlePart
    <3> QED
      BY <3>1, <3>3
  <2>4. (k + 1) + (n + 1) - 1 = p - b + 1 /\ (k + 1) + d - 1 = p /\ p - d + 1 = k + 1
    <3>1. n \in Nat /\ b = d - n /\ k = p - d
      BY <1>3, <1>5, <2>1
    <3> QED
      BY <3>1
  <2>5. SubSeq(l, p - b + 1, p) = back
    BY <1>3, <1>4, <2>3, <2>4
  <2>6. Len(back) <= m.at /\ SubSeq(m.keys, m.at - Len(back) + 1, m.at) = back
    BY <1>2, <1>5, <2>5
  <2> QED
    BY <1>1, <2>6
<1>8. n = d \/ n < d
  BY <1>3
<1> QED
  BY <1>6, <1>7, <1>8

\* The shadow function takes the keys it is bound to, and the others are read again.
LEMMA FallBackInOrder ==
  ASSUME IInv, NEW all \in Text, NEW in \in Sources, Len(in.macros) <= MaxLevel + 1,
         in.pending = None, Len(Behind(in)) >= Len(Behind(input)) - 1,
         NEW recorded \in Seq(Key), NEW n \in 1 .. Len(all), SubSeq(all, 1, n) \in DOMAIN bound,
         FallBack(all, in, recorded, n), NEW began, PathInMacro(in, all, began)
  PROVE  /\ ~began => Taken(all \o Stream(in), path' \o Stream(input'))
         /\ PendingAlone(input', path') /\ path' = <<>>
<1>1. \E a, b \in Text :
        /\ a = SubSeq(all, 1, n) /\ Len(a) = n /\ all = a \o b
        /\ b = SubSeq(all, n + 1, Len(all)) /\ Len(b) = Len(all) - n
  <2>1. n \in 0 .. Len(all)
    OBVIOUS
  <2> QED
    BY <2>1, TwoParts
<1>2. PICK used, back \in Text : /\ used = SubSeq(all, 1, n) /\ all = used \o back
                                 /\ back = SubSeq(all, n + 1, Len(all))
  BY <1>1
<1>3. /\ used \in Slot /\ bound[used] \in Command
      /\ bound[used].cmd = "digit-argument" => Last(used) \in DOMAIN Digit
  BY <1>2, BoundIsCommand DEF IInv
<1>4. PICK key \in Key : key = Last(used)
  <2>1. used \in Seq(Key) /\ used # <<>>
    BY <1>3 DEF Slot
  <2>2. Last(used) \in Key
    BY <2>1 DEF Last
  <2> QED
    BY <2>2
<1>5. PICK in1 \in Sources : in1 = PutBack(in, back) /\ Len(in1.macros) <= MaxLevel + 1
  <2>1. back \in Seq(Key)
    BY DEF Text
  <2>2. PutBack(in, back) \in Sources /\ Len(PutBack(in, back).macros) = Len(in.macros)
    BY <2>1, PutBackKeeps
  <2> QED
    BY <2>2
<1>6. PICK rec \in Slot : rec = recorded \o <<Last(used)>>
  <2>1. recorded \o <<key>> \in Seq(Key) /\ recorded \o <<key>> # <<>>
    OBVIOUS
  <2> QED
    BY <1>4, <2>1 DEF Slot
<1>7. PICK length \in Nat : length = arg.length + n
  <2>1. arg.length \in Nat
    BY DEF IInv, KeysOK
  <2> QED
    BY <2>1
<1>8. Run(bound[used], used, in1, rec, length, FALSE)
  BY <1>2, <1>5, <1>6, <1>7 DEF FallBack
<1>9. RunWith(bound[used], used, in1, rec, length, FALSE)
  BY <1>3, <1>5 DEF RunWith
<1>10. in1.pending = None /\ Len(Behind(in1)) >= Len(Behind(input)) - 1
  <2>1. in1.pending = None /\ Len(Behind(in1)) >= Len(Behind(in))
    BY <1>5, PutBackBehind
  <2>2. input \in Sources
    BY DEF IInv, KeysOK
  <2>3. PICK x, y, z \in Nat : x = Len(Behind(in1)) /\ y = Len(Behind(in)) /\ z = Len(Behind(input))
    BY <2>2, BehindIs
  <2>4. x >= y /\ y >= z - 1
    BY <2>1, <2>3
  <2>5. x >= z - 1
    BY <2>4
  <2> QED
    BY <2>1, <2>3, <2>5
<1>11. /\ Taken(used \o Stream(in1), path' \o Stream(input'))
       /\ PendingAlone(input', path') /\ path' = <<>>
  BY <1>8, <1>9, <1>10, RunInOrder DEF IInv
<1>12. ASSUME ~began PROVE Taken(all \o Stream(in), path' \o Stream(input'))
  <2>1. PathInMacro(in, all, FALSE)
    BY <1>12 DEF PathInMacro
  <2>2. in.macros # <<>> =>
          LET m == in.macros[1]
          IN  Len(back) <= m.at /\ SubSeq(m.keys, m.at - Len(back) + 1, m.at) = back
    BY <1>2, <2>1, EndInMacro
  <2>3. Stream(in1) = back \o Stream(in)
    BY <1>5, <2>2, PutBackStream
  <2>4. PICK s \in Text : s = Stream(in)
    BY StreamIs
  <2>5. (used \o back) \o s = used \o (back \o s)
    BY Associative
  <2> QED
    BY <1>2, <1>11, <2>3, <2>4, <2>5
<1> QED
  BY <1>11, <1>12

\* An abort drops the keys of the sequence, what is pending and the macros.
LEMMA NotBoundInOrder ==
  ASSUME NEW all \in Text, NEW key, NEW in \in Sources, in.pending = None,
         Len(Behind(in)) >= Len(Behind(input)) - 1, NotBound(key, in)
  PROVE  /\ Taken(all \o Stream(in), path' \o Stream(input'))
         /\ input'.pending = None /\ path' = <<>>
<1>1. input' = Aborts(in).input /\ path' = <<>> /\ step'.aborted
  BY DEF NotBound, Nothing
<1>2. PICK none \in Seq(MacroRun) : none = <<>>
  BY EmptyIn
<1>3. \E i1 \in Sources : /\ i1 = WithMacros(in, none) /\ i1.pending = in.pending /\ i1.macros = none
                          /\ i1.ungot = in.ungot /\ i1.typed = in.typed
  BY SourceFields
<1>4. WithMacros(in, <<>>) = Aborts(in).input
  BY DEF Aborts, WithMacros, Sources
<1>5. PICK ms, w \in Text : /\ ms = MacroStream(in.macros) /\ w = Behind(in)
                            /\ Stream(in) = ms \o w
  BY StreamBehind
<1>6. PICK i1 \in Sources : /\ i1 = input' /\ i1.pending = None /\ i1.macros = <<>> /\ Behind(i1) = w
  BY <1>1, <1>2, <1>3, <1>4, <1>5 DEF Behind
<1>7. Stream(i1) = w
  BY <1>6, StreamBehind
<1>8. <<>> \o w = w
  BY Joined
<1>9. all \o (ms \o w) = (all \o ms) \o w
  BY Associative
<1>10. PICK x \in Text : x = all \o ms
  BY Joined
<1>11. IsSuffix(w, x \o w)
  BY LeftBehind
<1>12. all \o Stream(in) = x \o w /\ path' \o Stream(input') = w
  BY <1>1, <1>5, <1>6, <1>7, <1>8, <1>9, <1>10
<1>13. Taken(all \o Stream(in), path' \o Stream(input'))
  BY <1>1, <1>5, <1>11, <1>12 DEF Taken
<1> QED
  BY <1>1, <1>6, <1>13

\* A text put behind the last of five texts is put behind all of them.
Longer(rest, p, m, u, t, k) ==
  rest \o (p \o (m \o (u \o (t \o k)))) = (rest \o (p \o (m \o (u \o t)))) \o k

\* What is behind the last of five is behind them all.
LEMMA LongerAtEnd ==
  \A rest, p, m, u, t, k \in Text : Longer(rest, p, m, u, t, k)
<1> TAKE rest, p, m, u, t, k \in Text
<1>1. PICK a : a = u \o t
  OBVIOUS
<1>2. Two(u, t, k)
  BY TwoAndOne
<1>3. a \in Text /\ a \o k = u \o (t \o k)
  BY <1>1, <1>2 DEF Two
<1>4. PICK b : b = m \o a
  OBVIOUS
<1>5. Two(m, a, k)
  BY <1>3, TwoAndOne
<1>6. b \in Text /\ b \o k = m \o (a \o k)
  BY <1>4, <1>5 DEF Two
<1>7. PICK c : c = p \o b
  OBVIOUS
<1>8. Two(p, b, k)
  BY <1>6, TwoAndOne
<1>9. c \in Text /\ c \o k = p \o (b \o k)
  BY <1>7, <1>8 DEF Two
<1>10. Two(rest, c, k)
  BY <1>9, TwoAndOne
<1> QED
  BY <1>1, <1>3, <1>4, <1>6, <1>7, <1>9, <1>10 DEF Two, Longer

\* What typing a key does to what is to be read.
TypedLast(before, after) == typed' # typed /\ after = Append(before, Last(after))

\* A key that is typed is the last one to be read.
LEMMA TypeInOrder ==
  ASSUME IInv, InputPart, Type
  PROVE  InputPart' /\ TypedLast(path \o Stream(input), path' \o Stream(input'))
<1>1. PICK key \in Key : input' = [input EXCEPT !.typed = Append(@, key)]
  <2>1. PICK key \in UNION {ToSet(s) : s \in DOMAIN bound} : input' = [input EXCEPT !.typed = Append(@, key)]
    BY DEF Type
  <2>2. PICK s \in DOMAIN bound : key \in ToSet(s)
    BY <2>1
  <2>3. s \in Seq(Key)
    BY BoundIsCommand DEF IInv, Slot
  <2>4. \A k \in DOMAIN s : s[k] \in Key
    BY <2>3
  <2>5. key \in Key
    BY <2>2, <2>4 DEF ToSet
  <2> QED
    BY <2>1, <2>5
<1>2. PICK in \in Sources, rest \in Text : in = input /\ rest = path
  BY DEF IInv, KeysOK, Text
<1>3. path' = path /\ crossed' = crossed /\ typed' = typed + 1
  BY DEF Type
<1>4. PICK p, m, u, t \in Text :
        /\ p = PendingKey(in) /\ m = MacroStream(in.macros) /\ u = in.ungot /\ t = in.typed
        /\ Stream(in) = p \o (m \o (u \o t))
  BY StreamIs
<1>5. PICK k \in Text : k = <<key>>
  <2>1. <<key>> \in Text
    BY DEF Text
  <2> QED
    BY <2>1
<1>6. PICK q \in Text : q = t \o k /\ q = Append(t, key)
  <2>1. t \o k \in Text
    BY Joined
  <2>2. t \o <<key>> = Append(t, key)
    BY AppendIsConcat DEF Text
  <2> QED
    BY <1>5, <2>1, <2>2
<1>7. \E i1 \in Sources : /\ i1 = WithTyped(in, q) /\ i1.pending = in.pending /\ i1.macros = in.macros
                          /\ i1.ungot = in.ungot /\ i1.typed = q
  BY SourceFields
<1>8. WithTyped(in, q) = input'
  BY <1>1, <1>2, <1>4, <1>6 DEF WithTyped
<1>9. PICK i1 \in Sources : /\ i1 = input' /\ i1.pending = in.pending /\ i1.macros = in.macros
                            /\ i1.ungot = u /\ i1.typed = q
  BY <1>4, <1>7, <1>8
<1>10. PendingKey(i1) = p
  BY <1>4, <1>9 DEF PendingKey
<1>11. Stream(i1) = p \o (m \o (u \o q))
  <2>1. \E p1, m1, u1, t1 \in Text :
          /\ p1 = PendingKey(i1) /\ m1 = MacroStream(i1.macros) /\ u1 = i1.ungot /\ t1 = i1.typed
          /\ Stream(i1) = p1 \o (m1 \o (u1 \o t1))
    BY StreamIs
  <2> QED
    BY <1>4, <1>9, <1>10, <2>1
<1>12. Longer(rest, p, m, u, t, k)
  BY LongerAtEnd
<1>13. PICK s \in Text : s = Stream(in)
  BY StreamIs
<1>14. rest \o Stream(i1) = (rest \o s) \o k
  BY <1>4, <1>6, <1>11, <1>12, <1>13 DEF Longer
<1>15. PICK before \in Text : before = rest \o s
  BY Joined
<1>16. before \o <<key>> = Append(before, key) /\ Last(Append(before, key)) = key
  <2>1. before \in Seq(Key)
    BY DEF Text
  <2> QED
    BY <2>1, SequenceFacts DEF Last
<1>17. TypedLast(path \o Stream(input), path' \o Stream(input'))
  <2>1. typed' # typed
    BY <1>3 DEF IInv
  <2>2. path' \o Stream(input') = Append(before, key)
    BY <1>2, <1>3, <1>5, <1>9, <1>13, <1>14, <1>15, <1>16
  <2> QED
    BY <1>2, <1>13, <1>15, <1>16, <2>1, <2>2 DEF TypedLast
<1>18. InputPart'
  BY <1>2, <1>3, <1>9 DEF InputPart, PendingAlone, PathInMacro
<1> QED
  BY <1>17, <1>18

\* A key that is read is used, begins or goes on with a sequence, or ends one.
LEMMA ReadKeyInOrder ==
  ASSUME IInv, InputPart, ReadKey
  PROVE  /\ InputPart' /\ typed' = typed
         /\ crossed' \/ Taken(path \o Stream(input), path' \o Stream(input'))
<1>1. input \in Sources /\ Len(input.macros) <= MaxLevel + 1 /\ path \in Text /\ HasKey(input)
  BY DEF IInv, KeysOK, ReadKey, Text
<1>2. PICK in \in Sources : /\ in = Read(input) /\ Len(in.macros) <= MaxLevel + 1
  <2>1. Read(input) \in Sources /\ Len(Read(input).macros) <= Len(input.macros)
    BY <1>1, ReadKeeps
  <2>2. Len(Read(input).macros) \in Nat /\ Len(input.macros) \in Nat
    BY <1>1, <2>1 DEF Sources
  <2>3. Len(Read(input).macros) <= MaxLevel + 1
    BY <1>1, <2>1, <2>2, MaxLevelAssumption
  <2> QED
    BY <2>1, <2>3
<1>3. PICK key \in Key : key = NextKey(input)
  <2>1. NextKey(input) \in Key
    BY <1>1, ReadKeeps
  <2> QED
    BY <2>1
<1>4. /\ Stream(input) = <<key>> \o Stream(in) /\ in.pending = None
      /\ Len(Behind(in)) >= Len(Behind(input)) - 1
  BY <1>1, <1>2, <1>3, ReadIsNext
<1>5. PICK k, s, all \in Text : /\ k = <<key>> /\ s = Stream(in) /\ all = path \o k
                                /\ all = Append(path, key)
  <2>1. <<key>> \in Text
    BY DEF Text
  <2>2. Stream(in) \in Text
    BY StreamIs
  <2>3. path \o <<key>> \in Text
    BY <1>1, <2>1, Joined
  <2>4. path \o <<key>> = Append(path, key)
    BY <1>1, AppendIsConcat DEF Text
  <2> QED
    BY <2>1, <2>2, <2>3, <2>4
<1>6. path \o Stream(input) = all \o s
  <2>1. PICK rest \in Text : rest = path
    BY <1>1
  <2>2. (rest \o k) \o s = rest \o (k \o s)
    BY Associative
  <2> QED
    BY <1>4, <1>5, <2>1, <2>2
<1>7. typed' = typed
  BY DEF ReadKey
<1>8. PICK began : began = (path # <<>> /\ (crossed \/ Len(in.macros) \notin {0, Len(input.macros)}))
  OBVIOUS
<1>9. crossed' = began
  BY <1>2, <1>8 DEF ReadKey
<1>10. PathInMacro(in, all, began)
  BY <1>1, <1>2, <1>3, <1>5, <1>8, ReadInMacro
<1>11. IF InArgument /\ key \in DOMAIN Digit THEN MoreDigits(key, in)
       ELSE IF IsKeymap(bound, all) THEN MoreKeys(key, in)
       ELSE IF all \in DOMAIN bound
         THEN Run(bound[all], all, in, <<key>>, arg.length + Len(all), TRUE)
       ELSE IF Shadowed(bound, path) # {}
         THEN \E i \in Shadowed(bound, path) : FallBack(all, in, <<key>>, i)
       ELSE NotBound(key, in)
  BY <1>2, <1>3, <1>5 DEF ReadKey
<1>12. ASSUME PendingAlone(input', path'), path' = <<>> PROVE InputPart'
  BY <1>12 DEF InputPart, PathInMacro
<1>13. CASE InArgument /\ MoreDigits(key, in)
  <2>1. /\ input' = in /\ path' = <<>> /\ path = <<>>
        /\ step'.used = k /\ step'.front = <<>> /\ ~step'.aborted
    BY <1>5, <1>13 DEF InArgument, MoreDigits, Nothing
  <2>2. IsPrefix(k, k \o s) /\ SubSeq(k \o s, Len(k) + 1, Len(k \o s)) = s
    BY TakenFromFront
  <2>3. <<>> \o k = k /\ <<>> \o s = s
    BY Joined
  <2>4. Taken(path \o Stream(input), path' \o Stream(input'))
    BY <1>5, <1>6, <2>1, <2>2, <2>3 DEF Taken
  <2>5. PendingAlone(input', path')
    BY <1>4, <2>1 DEF PendingAlone
  <2> QED
    BY <1>7, <1>12, <2>1, <2>4, <2>5
<1>14. CASE MoreKeys(key, in)
  <2>1. /\ input' = in /\ path' = all
        /\ step'.used = <<>> /\ step'.front = <<>> /\ ~step'.aborted
    BY <1>5, <1>14 DEF MoreKeys, Nothing
  <2>2. PICK none, before \in Text : none = <<>> /\ before = all \o s
    BY EmptyIn, Joined
  <2>3. IsPrefix(none, none \o before)
        /\ SubSeq(none \o before, Len(none) + 1, Len(none \o before)) = before
    BY TakenFromFront
  <2>4. <<>> \o before = before
    BY Joined
  <2>5. Taken(path \o Stream(input), path' \o Stream(input'))
    BY <1>5, <1>6, <2>1, <2>2, <2>3, <2>4 DEF Taken
  <2>6. InputPart'
    BY <1>4, <1>9, <1>10, <2>1 DEF InputPart, PendingAlone
  <2> QED
    BY <1>7, <2>5, <2>6
<1>15. CASE all \in DOMAIN bound /\ Run(bound[all], all, in, <<key>>, arg.length + Len(all), TRUE)
  <2>1. /\ all \in Slot /\ bound[all] \in Command
        /\ bound[all].cmd = "digit-argument" => Last(all) \in DOMAIN Digit
    BY <1>15, BoundIsCommand DEF IInv
  <2>2. PICK length \in Nat : length = arg.length + Len(all)
    <3>1. arg.length \in Nat /\ Len(all) \in Nat
      BY <2>1 DEF IInv, KeysOK, Slot
    <3> QED
      BY <3>1
  <2>3. PICK rec \in Slot : rec = <<key>>
    <3>1. <<key>> \in Seq(Key) /\ <<key>> # <<>>
      OBVIOUS
    <3> QED
      BY <3>1 DEF Slot
  <2>4. Last(all) = key
    <3>1. path \in Seq(Key)
      BY <1>1 DEF Text
    <3> QED
      BY <1>5, <3>1 DEF Last
  <2>5. RunWith(bound[all], all, in, rec, length, TRUE)
    BY <1>2, <1>5, <2>1, <2>2, <2>3, <2>4 DEF RunWith
  <2>6. Run(bound[all], all, in, rec, length, TRUE)
    BY <1>15, <2>2, <2>3
  <2>7. /\ Taken(all \o Stream(in), path' \o Stream(input'))
        /\ PendingAlone(input', path') /\ path' = <<>>
    BY <1>4, <2>5, <2>6, RunInOrder DEF IInv
  <2> QED
    BY <1>5, <1>6, <1>7, <1>12, <2>7
<1>16. CASE \E i \in Shadowed(bound, path) : FallBack(all, in, <<key>>, i)
  <2>1. PICK n \in 1 .. Len(path) : SubSeq(path, 1, n) \in DOMAIN bound /\ FallBack(all, in, <<key>>, n)
    BY <1>16 DEF Shadowed
  <2>2. n \in 1 .. Len(all) /\ SubSeq(all, 1, n) = SubSeq(path, 1, n)
    <3>1. PICK l \in Nat : l = Len(path) /\ Len(all) = l + 1 /\ n <= l
      BY <1>1, <1>5 DEF Text
    <3>2. all \in Seq(Key) /\ path \in Seq(Key)
      BY <1>1 DEF Text
    <3>3. /\ SubSeq(all, 1, n) \in Seq(Key) /\ Len(SubSeq(all, 1, n)) = n
          /\ \A i \in 1 .. n : SubSeq(all, 1, n)[i] = all[i]
      BY <3>1, <3>2
    <3>4. /\ SubSeq(path, 1, n) \in Seq(Key) /\ Len(SubSeq(path, 1, n)) = n
          /\ \A i \in 1 .. n : SubSeq(path, 1, n)[i] = path[i]
      BY <3>1, <3>2
    <3>5. \A i \in 1 .. n : all[i] = path[i]
      BY <1>5, <3>1, <3>2
    <3>6. SubSeq(all, 1, n) = SubSeq(path, 1, n)
      BY <3>3, <3>4, <3>5, SameSequence
    <3> QED
      BY <3>1, <3>6
  <2>3. PICK rec \in Seq(Key) : rec = <<key>>
    BY <1>5 DEF Text
  <2>4. FallBack(all, in, rec, n) /\ SubSeq(all, 1, n) \in DOMAIN bound
    BY <2>1, <2>2, <2>3
  <2>5. /\ ~began => Taken(all \o Stream(in), path' \o Stream(input'))
        /\ PendingAlone(input', path') /\ path' = <<>>
    <3>1. in.pending = None /\ Len(Behind(in)) >= Len(Behind(input)) - 1
      BY <1>4
    <3>2. n \in 1 .. Len(all) /\ SubSeq(all, 1, n) \in DOMAIN bound /\ Len(in.macros) <= MaxLevel + 1
      BY <1>2, <2>2, <2>4
    <3> QED
      BY <1>10, <2>4, <3>1, <3>2, FallBackInOrder
  <2> QED
    BY <1>5, <1>6, <1>7, <1>9, <1>12, <2>5
<1>17. CASE NotBound(key, in)
  <2>1. /\ Taken(all \o Stream(in), path' \o Stream(input'))
        /\ input'.pending = None /\ path' = <<>>
    BY <1>4, <1>17, NotBoundInOrder
  <2>2. PendingAlone(input', path')
    BY <2>1 DEF PendingAlone
  <2> QED
    BY <1>5, <1>6, <1>7, <1>12, <2>1, <2>2
<1> QED
  BY <1>11, <1>13, <1>14, <1>15, <1>16, <1>17

\* No key comes: the sequence so far runs.
LEMMA TimeoutInOrder ==
  ASSUME IInv, InputPart, Timeout
  PROVE  InputPart' /\ typed' = typed /\ Taken(path \o Stream(input), path' \o Stream(input'))
<1>1. /\ input \in Sources /\ Len(input.macros) <= MaxLevel + 1 /\ path \in Text
      /\ path \in DOMAIN bound /\ input.macros = <<>> /\ ~HasKey(input)
      /\ FallBack(path, input, <<>>, Len(path)) /\ typed' = typed
  BY DEF IInv, KeysOK, Timeout, Text
<1>2. path # <<>>
  BY <1>1, BoundIsCommand DEF IInv, Slot
<1>3. PICK all \in Text, in \in Sources, rec \in Seq(Key), n \in 1 .. Len(path) :
        /\ all = path /\ in = input /\ rec = <<>> /\ n = Len(path) /\ n \in 1 .. Len(all)
  <2>1. Len(path) \in 1 .. Len(path) /\ <<>> \in Seq(Key)
    BY <1>1, <1>2 DEF Text
  <2> QED
    BY <1>1, <2>1
<1>4. SubSeq(all, 1, n) = all
  BY <1>3, SubSeqFull DEF Text
<1>5. in.pending = None /\ Len(Behind(in)) >= Len(Behind(input)) - 1
  <2>1. Len(Behind(in)) \in Nat
    BY BehindIs
  <2>2. Len(Behind(in)) >= Len(Behind(in)) - 1
    BY <2>1
  <2> QED
    BY <1>1, <1>3, <2>2 DEF HasKey
<1>6. PathInMacro(in, all, FALSE)
  BY <1>1, <1>3 DEF PathInMacro
<1>7. /\ FallBack(all, in, rec, n) /\ Len(in.macros) <= MaxLevel + 1
      /\ SubSeq(all, 1, n) \in DOMAIN bound /\ n \in 1 .. Len(all)
  BY <1>1, <1>3, <1>4
<1>8. /\ Taken(all \o Stream(in), path' \o Stream(input'))
      /\ PendingAlone(input', path') /\ path' = <<>>
  BY <1>5, <1>6, <1>7, FallBackInOrder
<1> QED
  BY <1>1, <1>3, <1>8 DEF InputPart, PathInMacro

-----------------------------------------------------------------------------
(* The invariant and the theorem *)

\* The inductive invariant.
OrderInv == IInv /\ InputPart

\* At first there are no keys.
LEMMA InitInOrder == Init => OrderInv
BY InitIsFine DEF OrderInv, InputPart, PendingAlone, PathInMacro, Init

\* A step that keeps the order.
KeepsOrder ==
  \/ crossed'
  \/ TypedLast(path \o Stream(input), path' \o Stream(input'))
  \/ typed' = typed /\ Taken(path \o Stream(input), path' \o Stream(input'))

\* Every step does, and keeps the invariant.
LEMMA StepInOrder == OrderInv /\ [Next]_vars => OrderInv' /\ [KeepsOrder]_vars
<1>1. CASE UNCHANGED vars
  BY <1>1, StepKeeps DEF OrderInv, InputPart, PendingAlone, PathInMacro, vars, keys
<1>2. CASE Type
  BY <1>2, TypeInOrder, TypeKeeps DEF OrderInv, KeepsOrder
<1>3. CASE ReadKey
  BY <1>3, ReadKeyInOrder, ReadKeyKeeps DEF OrderInv, KeepsOrder
<1>4. CASE Timeout
  BY <1>4, TimeoutInOrder, TimeoutKeeps DEF OrderInv, KeepsOrder
<1> QED
  BY <1>1, <1>2, <1>3, <1>4 DEF Next

\* InputInOrder: the keys are read in their order, none is lost and none is read
\* twice, whatever they come from and whatever the commands do with them, but for a
\* sequence that begins in one macro and goes on in the one that called it.
THEOREM InputInOrderHolds == Spec => InputInOrder
<1>1. Spec => []OrderInv /\ [][KeepsOrder]_vars
  BY InitInOrder, StepInOrder, PTL DEF Spec
<1>2. [KeepsOrder]_vars =>
        [LET before == path \o Stream(input)
             after == path' \o Stream(input')
             used == step'.used
         IN  \/ crossed'
             \/ typed' # typed /\ after = Append(before, Last(after))
             \/ step'.aborted /\ IsSuffix(after, before)
                  /\ Len(after) >= Len(input.ungot \o input.typed) - 1
             \/ typed' = typed /\ ~step'.aborted /\ IsPrefix(used, before)
                  /\ after = step'.front \o SubSeq(before, Len(used) + 1, Len(before))]_vars
  BY DEF KeepsOrder, TypedLast, Taken, Behind
<1> QED
  BY <1>1, <1>2, PTL DEF InputInOrder

=============================================================================
