--------------------------- MODULE LineEditorProofs ---------------------------
(***************************************************************************)
(* What is proved of LineEditor's operators, for every state of the        *)
(* library, and what LineEditingProofs and HistorySearchProofs rest on.    *)
(*                                                                         *)
(* The folds and chains of LineEditor are first given a meaning that can   *)
(* be reasoned about record by record (Takes, Reaches).  Then InOrder says *)
(* of the memory which list each record is in, Kept also of every list     *)
(* what it takes the text of its line to, and each operation is shown to   *)
(* keep both.                                                              *)
(***************************************************************************)
EXTENDS LineEditor, FiniteSetTheorems, SequenceTheorems, WellFoundedInduction, TLAPS

-----------------------------------------------------------------------------
(* Folds over sets of numbers *)

\* A set of numbers that is not empty has a least one.
LEMMA LeastNumber ==
  ASSUME NEW S \in SUBSET Nat, S # {}
  PROVE  \E x \in S : \A y \in S : x <= y
<1> DEFINE R == OpToRel(<, Nat)
<1>1. R = {p \in Nat \X Nat : p[1] < p[2]}
  BY DEF OpToRel
<1>2. IsWellFoundedOn(R, Nat)
  BY <1>1, NatLessThanWellFounded
<1>3. \A x, y \in Nat : <<y, x>> \in R <=> y < x
  BY <1>1
<1> HIDE DEF R
<1>4. PICK x \in S : \A y \in S : ~(<<y, x>> \in R)
  BY <1>2, WFMin
<1>5. \A y \in S : ~(y < x)
  BY <1>3, <1>4
<1>6. \A y, z \in Nat : ~(y < z) => z <= y
  OBVIOUS
<1> QED
  BY <1>5, <1>6

\* Greatest elements of sets of numbers up to n.
LEMMA GreatestIs ==
  ASSUME NEW n \in Nat, NEW x \in SUBSET (1 .. n), x # {}
  PROVE  Max(x) \in x /\ \A y \in x : y <= Max(x)
<1> DEFINE S == {m \in 0 .. n : \A y \in x : y <= m}
<1>1. n \in S
  OBVIOUS
<1>2. PICK m \in S : \A l \in S : m <= l
  <2>1. S \in SUBSET Nat /\ S # {}
    BY <1>1
  <2> HIDE DEF S
  <2> QED
    BY <2>1, LeastNumber
<1>3. m \in x
  <2>1. SUFFICES ASSUME m \notin x PROVE FALSE
    OBVIOUS
  <2>2. PICK y \in x : TRUE
    OBVIOUS
  <2>3. m - 1 \in S
    BY <2>1, <2>2, <1>2
  <2> QED
    BY <2>3, <1>2
<1>4. \E z \in x : \A y \in x : z >= y
  BY <1>2, <1>3
<1>5. Max(x) \in x /\ \A y \in x : Max(x) >= y
  BY <1>4 DEF Max
<1>6. \A y \in x : y \in Nat
  OBVIOUS
<1> QED
  BY <1>5, <1>6

\* The greatest number up to k is k.
LEMMA GreatestUpTo ==
  ASSUME NEW k \in Nat, k # 0
  PROVE  Max(1 .. k) = k /\ (1 .. k) \ {k} = 1 .. k - 1 /\ 1 .. k # {}
<1>1. (1 .. k) \ {k} = 1 .. k - 1 /\ 1 .. k # {} /\ k \in 1 .. k
  OBVIOUS
<1>2. Max(1 .. k) \in 1 .. k /\ \A y \in 1 .. k : y <= Max(1 .. k)
  BY <1>1, GreatestIs
<1> QED
  BY <1>1, <1>2

\* What a fold over 1 .. n computes for every set of numbers up to n.
Folds(f, n, base, F) ==
  f = [x \in SUBSET (1 .. n) |->
         IF x = {} THEN base ELSE F[Max(x)][f[x \ {Max(x)}]]]

\* There is such a function, for steps that stay in a set.
LEMMA FoldExists ==
  ASSUME NEW n \in Nat, NEW S, NEW base \in S, NEW F \in [1 .. n -> [S -> S]]
  PROVE  \E f \in [SUBSET (1 .. n) -> S] : Folds(f, n, base, F)
<1> DEFINE Good(k) == \E f \in [SUBSET (1 .. k) -> S] : Folds(f, k, base, F)
           Bad == {k \in 0 .. n : ~Good(k)}
<1>1. SUFFICES Bad = {}
  <2> HIDE DEF Good
  <2>1. n \in 0 .. n
    OBVIOUS
  <2>2. Good(n)
    BY <1>1, <2>1
  <2> QED
    BY <2>2 DEF Good
<1>2. SUFFICES ASSUME Bad # {} PROVE FALSE
  OBVIOUS
<1>3. PICK k \in Bad : \A l \in Bad : k <= l
  <2>1. Bad \in SUBSET Nat
    OBVIOUS
  <2> HIDE DEF Bad
  <2> QED
    BY <1>2, <2>1, LeastNumber
<1>4. k # 0
  <2>1. SUFFICES ASSUME k = 0 PROVE Good(0)
    BY <1>3
  <2>2. 1 .. 0 = {}
    OBVIOUS
  <2>3. PICK f : f = [x \in SUBSET (1 .. 0) |-> base]
    OBVIOUS
  <2>4. f \in [SUBSET (1 .. 0) -> S]
    BY <2>3
  <2>5. Folds(f, 0, base, F)
    BY <2>2, <2>3 DEF Folds
  <2> QED
    BY <2>4, <2>5
<1>5. Good(k - 1)
  <2>1. k \in 0 .. n /\ k - 1 \in 0 .. n /\ ~(k <= k - 1)
    BY <1>3, <1>4
  <2> HIDE DEF Good
  <2> QED
    BY <1>3, <2>1
<1>6. PICK g \in [SUBSET (1 .. k - 1) -> S] : Folds(g, k - 1, base, F)
  BY <1>5
<1>7. PICK f : f = [x \in SUBSET (1 .. k) |->
                      IF k \in x THEN F[k][g[x \ {k}]] ELSE g[x]]
  OBVIOUS
<1>8. \A x \in SUBSET (1 .. k) : /\ x \ {k} \in SUBSET (1 .. k - 1)
                                 /\ k \notin x => x \in SUBSET (1 .. k - 1)
  BY <1>3
<1>9. f \in [SUBSET (1 .. k) -> S]
  <2>1. \A x \in SUBSET (1 .. k) : f[x] \in S
    <3> SUFFICES ASSUME NEW x \in SUBSET (1 .. k) PROVE f[x] \in S
      OBVIOUS
    <3>1. CASE k \in x
      <4>1. g[x \ {k}] \in S /\ F[k] \in [S -> S]
        BY <1>3, <1>4, <1>6, <1>8
      <4> QED
        BY <1>7, <3>1, <4>1
    <3>2. CASE k \notin x
      BY <1>6, <1>7, <1>8, <3>2
    <3> QED
      BY <3>1, <3>2
  <2> QED
    BY <1>7, <2>1
<1>10. Folds(f, k, base, F)
  <2>1. \A x \in SUBSET (1 .. k) :
          f[x] = IF x = {} THEN base ELSE F[Max(x)][f[x \ {Max(x)}]]
    <3> SUFFICES ASSUME NEW x \in SUBSET (1 .. k)
                 PROVE  f[x] = IF x = {} THEN base ELSE F[Max(x)][f[x \ {Max(x)}]]
      OBVIOUS
    <3>1. CASE x = {}
      <4>1. x \in SUBSET (1 .. k - 1) /\ k \notin x
        BY <3>1
      <4>2. g[x] = base
        BY <1>6, <3>1, <4>1 DEF Folds
      <4> QED
        BY <1>7, <3>1, <4>1, <4>2
    <3>2. CASE x # {}
      <4>1. k \in Nat
        BY <1>3
      <4>2. Max(x) \in x /\ \A y \in x : y <= Max(x)
        BY <3>2, <4>1, GreatestIs
      <4>3. CASE k \in x
        <5>1. Max(x) = k
          <6>1. \A a \in 1 .. k : k <= a => a = k
            BY <4>1
          <6> QED
            BY <4>2, <4>3, <6>1
        <5>2. k \notin x \ {k} /\ x \ {k} \in SUBSET (1 .. k) /\ x \ {k} \in SUBSET (1 .. k - 1)
          BY <1>8
        <5>3. f[x \ {k}] = g[x \ {k}] /\ f[x] = F[k][g[x \ {k}]]
          BY <1>7, <4>3, <5>2
        <5> QED
          BY <3>2, <5>1, <5>3
      <4>4. CASE k \notin x
        <5>1. x \in SUBSET (1 .. k - 1) /\ x \ {Max(x)} \in SUBSET (1 .. k - 1)
              /\ x \ {Max(x)} \in SUBSET (1 .. k) /\ k \notin x \ {Max(x)}
          BY <1>8, <4>4
        <5>2. f[x] = g[x] /\ f[x \ {Max(x)}] = g[x \ {Max(x)}]
          BY <1>7, <4>4, <5>1
        <5>3. g[x] = F[Max(x)][g[x \ {Max(x)}]]
          BY <1>6, <3>2, <5>1 DEF Folds
        <5> QED
          BY <3>2, <5>2, <5>3
      <4> QED
        BY <4>3, <4>4
    <3> QED
      BY <3>1, <3>2
  <2> QED
    BY <1>7, <2>1 DEF Folds
<1> QED
  BY <1>3, <1>9, <1>10

\* A fold that begins in the first set, and whose k-th step leads from the set
\* before into the k-th, ends in the last.
LEMMA FoldStays ==
  ASSUME NEW n \in Nat, NEW T, NEW f, f[{}] \in T[0],
         \A k \in 1 .. n : f[1 .. k - 1] \in T[k - 1] => f[1 .. k] \in T[k]
  PROVE  f[1 .. n] \in T[n]
<1> DEFINE Bad == {k \in 0 .. n : f[1 .. k] \notin T[k]}
<1>1. SUFFICES Bad = {}
  <2>1. n \in 0 .. n
    OBVIOUS
  <2> QED
    BY <1>1, <2>1
<1>2. SUFFICES ASSUME Bad # {} PROVE FALSE
  OBVIOUS
<1>3. PICK k \in Bad : \A l \in Bad : k <= l
  <2>1. Bad \in SUBSET Nat
    OBVIOUS
  <2> HIDE DEF Bad
  <2> QED
    BY <1>2, <2>1, LeastNumber
<1>4. k # 0
  <2>1. 1 .. 0 = {}
    OBVIOUS
  <2> QED
    BY <1>3, <2>1
<1>5. k \in 1 .. n /\ k - 1 \in 0 .. n /\ ~(k <= k - 1)
  BY <1>3, <1>4
<1>6. f[1 .. k - 1] \in T[k - 1]
  BY <1>3, <1>5
<1> QED
  BY <1>3, <1>5, <1>6

\* The lines of text.
Text == Seq(Char)

\* What Reverted computes for every set of places of a list.
RevertFold(f, e, t, s) ==
  f = [x \in SUBSET DOMAIN s |->
         IF x = {} THEN t ELSE UndoneText(f[x \ {Max(x)}], e.rec[s[Max(x)]])]

\* The records of a list make texts of texts.
KeepsTexts(e, s, n) ==
  \A t \in Text : \A k \in 1 .. n : UndoneText(t, e.rec[s[k]]) \in Text

\* The texts on the way of undoing a list.
UndoneOneByOne(e, s, n, tt) ==
  tt \in [0 .. n -> Text] /\ \A k \in 1 .. n : tt[k] = UndoneText(tt[k - 1], e.rec[s[k]])

\* Undoing a list record by record leads to what Reverted gives.
LEMMA RevertedIs ==
  ASSUME NEW e, NEW p, NEW n \in Nat, NEW s, s = Chain(e, p), DOMAIN s = 1 .. n,
         KeepsTexts(e, s, n), NEW tt, UndoneOneByOne(e, s, n, tt)
  PROVE  Reverted(e, tt[0], p) = tt[n]
<1> USE DEF KeepsTexts, UndoneOneByOne
<1> DEFINE F == [k \in 1 .. n |-> [t \in Text |-> UndoneText(t, e.rec[s[k]])]]
<1>1. tt[0] \in Text
  OBVIOUS
<1>2. \E f : RevertFold(f, e, tt[0], s)
  <2>1. F \in [1 .. n -> [Text -> Text]]
    OBVIOUS
  <2> HIDE DEF F
  <2>2. PICK f \in [SUBSET (1 .. n) -> Text] : Folds(f, n, tt[0], F)
    BY <1>1, <2>1, FoldExists
  <2>3. \A x \in SUBSET (1 .. n) : x # {} => F[Max(x)][f[x \ {Max(x)}]]
                                             = UndoneText(f[x \ {Max(x)}], e.rec[s[Max(x)]])
    <3> SUFFICES ASSUME NEW x \in SUBSET (1 .. n), x # {}
                 PROVE  F[Max(x)][f[x \ {Max(x)}]] = UndoneText(f[x \ {Max(x)}], e.rec[s[Max(x)]])
      OBVIOUS
    <3>1. Max(x) \in 1 .. n
      BY GreatestIs
    <3>2. f[x \ {Max(x)}] \in Text
      BY <2>2
    <3> QED
      BY <3>1, <3>2 DEF F
  <2>4. RevertFold(f, e, tt[0], s)
    BY <2>2, <2>3 DEF RevertFold, Folds
  <2> QED
    BY <2>4
<1> HIDE DEF F
<1>3. PICK f : f = CHOOSE g : RevertFold(g, e, tt[0], s)
  OBVIOUS
<1>4. RevertFold(f, e, tt[0], s)
  BY <1>2, <1>3
<1>5. Reverted(e, tt[0], p) = f[1 .. n]
  <2>1. Reverted(e, tt[0], p) = f[DOMAIN s]
    BY <1>3 DEF RevertFold, Reverted, FoldLeft, MapThenFoldSet
  <2> QED
    BY <2>1
<1>6. PICK T : T = [k \in 0 .. n |-> {tt[k]}]
  OBVIOUS
<1>7. f[{}] \in T[0]
  <2>1. {} \in SUBSET DOMAIN s
    OBVIOUS
  <2>2. f[{}] = tt[0]
    BY <1>4, <2>1 DEF RevertFold
  <2> QED
    BY <1>6, <2>2
<1>8. ASSUME NEW k \in 1 .. n, f[1 .. k - 1] \in T[k - 1]
      PROVE  f[1 .. k] \in T[k]
  <2>1. Max(1 .. k) = k /\ (1 .. k) \ {k} = 1 .. k - 1 /\ 1 .. k # {}
    <3> k \in Nat /\ k # 0
      OBVIOUS
    <3> QED
      BY GreatestUpTo
  <2>2. 1 .. k \in SUBSET DOMAIN s
    OBVIOUS
  <2>3. f[1 .. k] = UndoneText(f[(1 .. k) \ {Max(1 .. k)}], e.rec[s[Max(1 .. k)]])
    BY <1>4, <2>1, <2>2 DEF RevertFold
  <2>4. f[1 .. k - 1] = tt[k - 1]
    BY <1>6, <1>8
  <2>5. f[1 .. k] = tt[k]
    <3>1. f[1 .. k] = UndoneText(f[1 .. k - 1], e.rec[s[k]])
      BY ONLY <2>1, <2>3
    <3>2. tt[k] = UndoneText(tt[k - 1], e.rec[s[k]])
      OBVIOUS
    <3> QED
      BY ONLY <2>4, <3>1, <3>2
  <2> QED
    BY <1>6, <2>5
<1>9. f[1 .. n] \in T[n]
  BY <1>7, <1>8, FoldStays
<1> QED
  BY <1>5, <1>6, <1>9

-----------------------------------------------------------------------------
\* What a round of the loop of rl_do_undo makes of the groups that are open.
Waits(s) ==
  LET w == s.ed.rec[s.ed.undo].what
  IN  CASE w = "end" -> s.waiting + 1
        [] w = "begin" /\ s.waiting > 0 -> s.waiting - 1
        [] OTHER -> s.waiting

\* A round of the loop of rl_do_undo.
UndoRound(s) ==
  IF s.ed.undo = NULL \/ s.done THEN s
  ELSE [ed |-> UndoRecord(s.ed), waiting |-> Waits(s), done |-> Waits(s) = 0]

\* What DoUndo computes for every set of rounds.
UndoFold(f, e) ==
  f = [x \in SUBSET Id |->
         IF x = {} THEN [ed |-> e, waiting |-> 0, done |-> FALSE]
                   ELSE UndoRound(f[x \ {Max(x)}])]

\* Waits is a number.
LEMMA WaitsType ==
  ASSUME NEW s, s.waiting \in Int
  PROVE  Waits(s) \in Int
BY DEF Waits

\* Undo undoes at least one record: it leads into every set of editors that
\* undoing the first record leads into, and undoing one more does not leave.
LEMMA DoUndoStays ==
  ASSUME NEW e, e.undo \in Id, NEW S, UndoRecord(e) \in S,
         \A d \in S : d.undo # NULL => UndoRecord(d) \in S
  PROVE  DoUndo(e) \in S
<1> DEFINE All == [ed : S \cup {e}, waiting : Int, done : BOOLEAN]
           base == [ed |-> e, waiting |-> 0, done |-> FALSE]
           F == [k \in Id |-> [s \in All |-> UndoRound(s)]]
<1>1. \A s \in All : UndoRound(s) \in All
  <2> SUFFICES ASSUME NEW s \in All PROVE UndoRound(s) \in All
    OBVIOUS
  <2>1. Waits(s) \in Int
    BY WaitsType
  <2>2. s.ed.undo # NULL => UndoRecord(s.ed) \in S
    OBVIOUS
  <2> QED
    BY <2>1, <2>2 DEF UndoRound
<1>2. MaxRecords \in Nat /\ MaxRecords # 0 /\ e.undo # NULL
  BY LineEditorAssumption DEF Id, NULL
<1>3. base \in All
  OBVIOUS
<1>4. \E f : UndoFold(f, e)
  <2>1. F \in [1 .. MaxRecords -> [All -> All]]
    BY <1>1 DEF Id
  <2> HIDE DEF F, All
  <2>2. PICK f \in [SUBSET (1 .. MaxRecords) -> All] : Folds(f, MaxRecords, base, F)
    BY <1>2, <1>3, <2>1, FoldExists
  <2>3. \A x \in SUBSET (1 .. MaxRecords) : x # {} => F[Max(x)][f[x \ {Max(x)}]]
                                                      = UndoRound(f[x \ {Max(x)}])
    <3> SUFFICES ASSUME NEW x \in SUBSET (1 .. MaxRecords), x # {}
                 PROVE  F[Max(x)][f[x \ {Max(x)}]] = UndoRound(f[x \ {Max(x)}])
      OBVIOUS
    <3>1. Max(x) \in 1 .. MaxRecords
      BY <1>2, GreatestIs
    <3>2. f[x \ {Max(x)}] \in All
      BY <2>2
    <3> QED
      BY <3>1, <3>2 DEF F, Id
  <2>4. UndoFold(f, e)
    BY <2>2, <2>3 DEF UndoFold, Folds, Id
  <2> QED
    BY <2>4
<1> HIDE DEF F
<1>5. PICK f : f = CHOOSE g : UndoFold(g, e)
  OBVIOUS
<1>6. UndoFold(f, e)
  BY <1>4, <1>5
<1>7. DoUndo(e) = f[1 .. MaxRecords].ed
  BY <1>5 DEF UndoFold, DoUndo, UndoRound, Waits, FoldLeft, MapThenFoldSet, Id
<1>8. PICK T : T = [k \in 0 .. MaxRecords |-> IF k = 0 THEN {base} ELSE {s \in All : s.ed \in S}]
  OBVIOUS
<1>9. f[{}] \in T[0]
  <2>1. {} \in SUBSET Id
    OBVIOUS
  <2>2. f[{}] = base
    BY <1>6, <2>1 DEF UndoFold
  <2> QED
    BY <1>2, <1>8, <2>2
<1>10. ASSUME NEW k \in 1 .. MaxRecords, f[1 .. k - 1] \in T[k - 1]
       PROVE  f[1 .. k] \in T[k]
  <2>1. Max(1 .. k) = k /\ (1 .. k) \ {k} = 1 .. k - 1 /\ 1 .. k # {}
    <3> k \in Nat /\ k # 0
      BY <1>2
    <3> QED
      BY GreatestUpTo
  <2>2. 1 .. k \in SUBSET Id
    BY <1>2 DEF Id
  <2>3. f[1 .. k] = UndoRound(f[1 .. k - 1])
    BY <1>6, <2>1, <2>2 DEF UndoFold
  <2>4. f[1 .. k - 1] \in All
    <3>1. k - 1 \in 0 .. MaxRecords
      BY <1>2
    <3>2. T[k - 1] \subseteq All
      BY <1>3, <1>8, <3>1
    <3> QED
      BY <1>10, <3>2
  <2>5. f[1 .. k] \in All
    BY <1>1, <2>3, <2>4
  <2>6. f[1 .. k].ed \in S
    <3>1. CASE k = 1
      <4>1. f[1 .. k - 1] = base
        <5>1. k - 1 = 0 /\ 0 \in 0 .. MaxRecords
          BY <1>2, <3>1
        <5>2. T[0] = {base}
          BY <1>8, <5>1
        <5> HIDE DEF base, All
        <5>3. f[1 .. k - 1] \in {base}
          BY <1>10, <5>1, <5>2
        <5> QED
          BY <5>3
      <4>2. UndoRound(base).ed = UndoRecord(e)
        BY <1>2 DEF UndoRound
      <4> QED
        BY <2>3, <4>1, <4>2
    <3>2. CASE k # 1
      <4>1. f[1 .. k - 1].ed \in S
        BY <1>2, <1>8, <1>10, <3>2
      <4>2. \A s : s.ed \in S => UndoRound(s).ed \in S
        BY DEF UndoRound
      <4> QED
        BY <2>3, <4>1, <4>2
    <3> QED
      BY <3>1, <3>2
  <2> HIDE DEF All
  <2>7. T[k] = {s \in All : s.ed \in S}
    BY <1>2, <1>8
  <2> QED
    BY <2>5, <2>6, <2>7
<1>11. f[1 .. MaxRecords] \in T[MaxRecords]
  BY <1>2, <1>9, <1>10, FoldStays
<1>12. T[MaxRecords] = {s \in All : s.ed \in S}
  BY <1>2, <1>8
<1> QED
  BY <1>7, <1>11, <1>12

-----------------------------------------------------------------------------
\* A round of the loop of rl_revert_line.
RevertRound(d) == IF d.undo = NULL THEN d ELSE DoUndo(d)

\* What RevertLine computes for every set of rounds.
LineFold(f, e) ==
  f = [x \in SUBSET Id |-> IF x = {} THEN e ELSE RevertRound(f[x \ {Max(x)}])]

\* rl_revert_line leads where its rounds lead, one after the other.
LEMMA RevertLineStays ==
  ASSUME NEW S, \A d \in S : RevertRound(d) \in S,
         NEW T, NEW e \in S, e \in T[0],
         \A k \in Id : \A d \in S : d \in T[k - 1] => RevertRound(d) \in T[k]
  PROVE  RevertLine(e) \in S /\ RevertLine(e) \in T[MaxRecords]
<1> DEFINE F == [k \in Id |-> [d \in S |-> RevertRound(d)]]
<1>1. MaxRecords \in Nat
  BY LineEditorAssumption
<1>2. \E f : LineFold(f, e)
  <2>1. F \in [1 .. MaxRecords -> [S -> S]]
    BY DEF Id
  <2> HIDE DEF F
  <2>2. PICK f \in [SUBSET (1 .. MaxRecords) -> S] : Folds(f, MaxRecords, e, F)
    BY <1>1, <2>1, FoldExists
  <2>3. \A x \in SUBSET (1 .. MaxRecords) : x # {} => F[Max(x)][f[x \ {Max(x)}]]
                                                      = RevertRound(f[x \ {Max(x)}])
    <3> SUFFICES ASSUME NEW x \in SUBSET (1 .. MaxRecords), x # {}
                 PROVE  F[Max(x)][f[x \ {Max(x)}]] = RevertRound(f[x \ {Max(x)}])
      OBVIOUS
    <3>1. Max(x) \in 1 .. MaxRecords
      BY <1>1, GreatestIs
    <3>2. f[x \ {Max(x)}] \in S
      BY <2>2
    <3> QED
      BY <3>1, <3>2 DEF F, Id
  <2>4. LineFold(f, e)
    BY <2>2, <2>3 DEF LineFold, Folds, Id
  <2> QED
    BY <2>4
<1> HIDE DEF F
<1>3. PICK f : f = CHOOSE g : LineFold(g, e)
  OBVIOUS
<1>4. LineFold(f, e)
  BY <1>2, <1>3
<1>5. RevertLine(e) = f[1 .. MaxRecords]
  BY <1>3 DEF LineFold, RevertLine, RevertRound, FoldLeft, MapThenFoldSet, Id
<1>6. PICK U : U = [k \in 0 .. MaxRecords |-> S \cap T[k]]
  OBVIOUS
<1>7. f[{}] \in U[0]
  <2>1. {} \in SUBSET Id
    OBVIOUS
  <2>2. f[{}] = e
    BY <1>4, <2>1 DEF LineFold
  <2> QED
    BY <1>1, <1>6, <2>2
<1>8. ASSUME NEW k \in 1 .. MaxRecords, f[1 .. k - 1] \in U[k - 1]
      PROVE  f[1 .. k] \in U[k]
  <2>1. Max(1 .. k) = k /\ (1 .. k) \ {k} = 1 .. k - 1 /\ 1 .. k # {}
    <3> k \in Nat /\ k # 0
      BY <1>1
    <3> QED
      BY GreatestUpTo
  <2>2. 1 .. k \in SUBSET Id
    BY <1>1 DEF Id
  <2>3. f[1 .. k] = RevertRound(f[1 .. k - 1])
    BY <1>4, <2>1, <2>2 DEF LineFold
  <2>4. k - 1 \in 0 .. MaxRecords /\ k \in 0 .. MaxRecords /\ k \in Id
    BY <1>1 DEF Id
  <2>5. U[k - 1] = S \cap T[k - 1] /\ U[k] = S \cap T[k]
    BY <1>6, <2>4
  <2> QED
    BY <1>8, <2>3, <2>4, <2>5
<1>9. f[1 .. MaxRecords] \in U[MaxRecords]
  BY <1>1, <1>7, <1>8, FoldStays
<1>10. U[MaxRecords] = S \cap T[MaxRecords]
  BY <1>1, <1>6
<1> QED
  BY <1>5, <1>9, <1>10

-----------------------------------------------------------------------------
\* _rl_revert_all_lines, for one entry.
RevertEntry(d, k) ==
  LET r == RevertLine([d EXCEPT !.text = d.list[k].line, !.undo = d.list[k].data,
                                !.list[k].data = NULL])
  IN  [r EXCEPT !.list[k].line = r.text]

\* A round of the loop of _rl_revert_all_lines: an entry without a list stays.
EntryRound(d, k, newest) ==
  IF k > newest \/ d.list[k].data = NULL THEN d ELSE RevertEntry(d, k)

\* What RevertedEntries computes for every set of entries.
EntriesFold(f, e, newest) ==
  f = [x \in SUBSET DOMAIN e.list |->
         IF x = {} THEN e
         ELSE EntryRound(f[x \ {Max(x)}], [k \in DOMAIN e.list |-> k][Max(x)], newest)]

\* The editor after the loop of _rl_revert_all_lines, with its own line again.
LineBack(d, e) ==
  [d EXCEPT !.text = e.text,
            !.undo = IF \E k \in DOMAIN e.list : e.list[k].data = e.undo THEN NULL ELSE e.undo]

\* _rl_revert_all_lines leads where its entries lead, one after the other.
LEMMA RevertedEntriesStays ==
  ASSUME NEW n \in Nat, NEW e, DOMAIN e.list = 1 .. n, NEW newest,
         NEW S, \A k \in 1 .. n : \A d \in S : EntryRound(d, k, newest) \in S,
         NEW T, e \in S, e \in T[0],
         \A k \in 1 .. n : \A d \in S : d \in T[k - 1] => EntryRound(d, k, newest) \in T[k]
  PROVE  \E d \in S : d \in T[n] /\ RevertedEntries(e, newest) = LineBack(d, e)
<1> DEFINE F == [k \in 1 .. n |-> [d \in S |-> EntryRound(d, k, newest)]]
<1>2. \E f : EntriesFold(f, e, newest)
  <2>1. F \in [1 .. n -> [S -> S]]
    OBVIOUS
  <2> HIDE DEF F
  <2>2. PICK f \in [SUBSET (1 .. n) -> S] : Folds(f, n, e, F)
    BY <2>1, FoldExists
  <2>3. \A x \in SUBSET (1 .. n) : x # {} => F[Max(x)][f[x \ {Max(x)}]]
                    = EntryRound(f[x \ {Max(x)}], [k \in DOMAIN e.list |-> k][Max(x)], newest)
    <3> SUFFICES ASSUME NEW x \in SUBSET (1 .. n), x # {}
                 PROVE  F[Max(x)][f[x \ {Max(x)}]]
                          = EntryRound(f[x \ {Max(x)}], [k \in DOMAIN e.list |-> k][Max(x)], newest)
      OBVIOUS
    <3>1. Max(x) \in 1 .. n /\ [k \in DOMAIN e.list |-> k][Max(x)] = Max(x)
      BY GreatestIs
    <3>2. f[x \ {Max(x)}] \in S
      BY <2>2
    <3> QED
      BY <3>1, <3>2 DEF F
  <2>4. EntriesFold(f, e, newest)
    BY <2>2, <2>3 DEF EntriesFold, Folds
  <2> QED
    BY <2>4
<1> HIDE DEF F
<1>3. PICK f : f = CHOOSE g : EntriesFold(g, e, newest)
  OBVIOUS
<1>4. EntriesFold(f, e, newest)
  BY <1>2, <1>3
<1>5. RevertedEntries(e, newest) = LineBack(f[DOMAIN e.list], e)
  BY <1>3 DEF EntriesFold, RevertedEntries, LineBack, EntryRound, RevertEntry, FoldLeft, MapThenFoldSet
<1>6. PICK U : U = [k \in 0 .. n |-> S \cap T[k]]
  OBVIOUS
<1>7. f[{}] \in U[0]
  <2>1. {} \in SUBSET DOMAIN e.list
    OBVIOUS
  <2>2. f[{}] = e
    BY <1>4, <2>1 DEF EntriesFold
  <2> QED
    BY <1>6, <2>2
<1>8. ASSUME NEW k \in 1 .. n, f[1 .. k - 1] \in U[k - 1]
      PROVE  f[1 .. k] \in U[k]
  <2>1. Max(1 .. k) = k /\ (1 .. k) \ {k} = 1 .. k - 1 /\ 1 .. k # {}
    <3> k \in Nat /\ k # 0
      OBVIOUS
    <3> QED
      BY GreatestUpTo
  <2>2. 1 .. k \in SUBSET DOMAIN e.list
    OBVIOUS
  <2>3. f[1 .. k] = EntryRound(f[1 .. k - 1], k, newest)
    <3>1. [j \in DOMAIN e.list |-> j][k] = k
      OBVIOUS
    <3>2. f[1 .. k] = EntryRound(f[(1 .. k) \ {Max(1 .. k)}],
                                 [j \in DOMAIN e.list |-> j][Max(1 .. k)], newest)
      BY <1>4, <2>1, <2>2 DEF EntriesFold
    <3> QED
      BY ONLY <2>1, <3>1, <3>2
  <2>4. k - 1 \in 0 .. n /\ k \in 0 .. n
    OBVIOUS
  <2>5. U[k - 1] = S \cap T[k - 1] /\ U[k] = S \cap T[k]
    BY <1>6, <2>4
  <2> QED
    BY <1>8, <2>3, <2>5
<1>9. f[1 .. n] \in U[n]
  BY <1>7, <1>8, FoldStays
<1>10. U[n] = S \cap T[n]
  BY <1>6
<1> QED
  BY <1>5, <1>9, <1>10

-----------------------------------------------------------------------------
(* Lists of records *)

\* Every record leads to a record, or to none.
Linked(rec) == \A i \in Id : rec[i].next \in Pointer

\* The records from a pointer on, in order.
IsList(rec, p, s) ==
  /\ s \in Seq(Id)
  /\ IF p = NULL THEN s = <<>> ELSE Len(s) # 0 /\ s[1] = p
  /\ \A k \in 1 .. Len(s) : rec[s[k]].next = IF k < Len(s) THEN s[k + 1] ELSE NULL

\* Every pointer leads to an end.
Leads(rec) == \A p \in Pointer : \E s : IsList(rec, p, s)

\* A list has records, none of them NULL.
LEMMA ListHas ==
  ASSUME NEW rec, NEW p, NEW s, IsList(rec, p, s)
  PROVE  s \in Seq(Id) /\ Len(s) \in Nat /\ \A k \in 1 .. Len(s) : s[k] \in Id /\ s[k] # NULL
<1>1. s \in Seq(Id)
  BY DEF IsList
<1>2. Len(s) \in Nat /\ \A k \in 1 .. Len(s) : s[k] \in Id
  BY <1>1
<1>3. \A i \in Id : i # NULL
  BY DEF Id, NULL
<1> QED
  BY <1>1, <1>2, <1>3

\* A pointer leads to one list only.
LEMMA OneList ==
  ASSUME NEW rec, NEW p \in Pointer, NEW s, NEW t, IsList(rec, p, s), IsList(rec, p, t)
  PROVE  s = t
<1>1. /\ s \in Seq(Id) /\ Len(s) \in Nat /\ \A k \in 1 .. Len(s) : s[k] \in Id /\ s[k] # NULL
      /\ t \in Seq(Id) /\ Len(t) \in Nat /\ \A k \in 1 .. Len(t) : t[k] \in Id /\ t[k] # NULL
  BY ListHas
<1>2. CASE p = NULL
  BY <1>2 DEF IsList
<1>3. CASE p # NULL
  <2> DEFINE Bad == {k \in Nat \ {0} : ~(/\ k <= Len(s) <=> k <= Len(t)
                                         /\ k <= Len(s) => s[k] = t[k])}
  <2>1. ASSUME Bad # {} PROVE FALSE
    <3>1. PICK k \in Bad : \A l \in Bad : k <= l
      <4>1. Bad \in SUBSET Nat
        OBVIOUS
      <4> HIDE DEF Bad
      <4> QED
        BY <2>1, <4>1, LeastNumber
    <3>2. k # 1
      BY <1>1, <1>3, <3>1 DEF IsList
    <3>3. k - 1 \in Nat \ {0} /\ k - 1 \notin Bad
      <4>1. k - 1 \in Nat \ {0} /\ ~(k <= k - 1)
        BY <3>1, <3>2
      <4> HIDE DEF Bad
      <4> QED
        BY <3>1, <4>1
    <3>4. PICK j \in Nat \ {0} : k = j + 1 /\ j \notin Bad
      BY <3>1, <3>3
    <3>5. (j <= Len(s) <=> j <= Len(t)) /\ (j <= Len(s) => s[j] = t[j])
      BY <3>4
    <3>6. CASE j <= Len(s)
      <4>1. s[j] = t[j] /\ j \in 1 .. Len(s) /\ j \in 1 .. Len(t)
        BY <1>1, <3>5, <3>6
      <4>2. (IF j < Len(s) THEN s[k] ELSE NULL) = (IF j < Len(t) THEN t[k] ELSE NULL)
        BY <3>4, <4>1 DEF IsList
      <4>3. j < Len(s) => k \in 1 .. Len(s)
        BY <1>1, <3>4
      <4>4. j < Len(t) => k \in 1 .. Len(t)
        BY <1>1, <3>4
      <4>5. j < Len(s) <=> k <= Len(s)
        BY <1>1, <3>4
      <4>6. j < Len(t) <=> k <= Len(t)
        BY <1>1, <3>4
      <4> QED
        BY <1>1, <3>1, <4>2, <4>3, <4>4, <4>5, <4>6
    <3>7. CASE ~(j <= Len(s))
      <4>1. ~(k <= Len(s)) /\ ~(k <= Len(t))
        BY <1>1, <3>4, <3>5, <3>7
      <4> QED
        BY <3>1, <4>1
    <3> QED
      BY <3>6, <3>7
  <2>2. \A k \in Nat \ {0} : (k <= Len(s) <=> k <= Len(t)) /\ (k <= Len(s) => s[k] = t[k])
    BY <2>1
  <2> HIDE DEF Bad
  <2>3. Len(s) = Len(t)
    <3>1. Len(s) # 0 /\ Len(t) # 0
      BY <1>3 DEF IsList
    <3> QED
      BY <1>1, <2>2, <3>1
  <2>4. \A k \in 1 .. Len(s) : s[k] = t[k]
    BY <1>1, <2>2
  <2> QED
    BY <1>1, <2>3, <2>4, SeqEqual
<1> QED
  BY <1>2, <1>3

\* The records from one of a list on.
LEMMA ListFrom ==
  ASSUME NEW rec, NEW p \in Pointer, NEW s, IsList(rec, p, s), NEW k \in 1 .. Len(s)
  PROVE  /\ IsList(rec, s[k], SubSeq(s, k, Len(s)))
         /\ Len(SubSeq(s, k, Len(s))) = Len(s) - k + 1
         /\ \A j \in 1 .. Len(s) - k + 1 : SubSeq(s, k, Len(s))[j] = s[k + j - 1]
<1>1. PICK n \in Nat : n = Len(s) /\ k \in 1 .. n
  BY ListHas
<1>2. s \in Seq(Id) /\ \A j \in 1 .. n : s[j] \in Id /\ s[j] # NULL
  BY <1>1, ListHas
<1>3. PICK t : t = SubSeq(s, k, n)
  OBVIOUS
<1>4. t \in Seq(Id) /\ Len(t) = n - k + 1 /\ \A j \in 1 .. n - k + 1 : t[j] = s[k + j - 1]
  <2>1. \A i \in k .. n : s[i] \in Id
    BY <1>1, <1>2
  <2>2. /\ SubSeq(s, k, n) \in Seq(Id)
        /\ Len(SubSeq(s, k, n)) = IF k <= n THEN n - k + 1 ELSE 0
        /\ \A i \in 1 .. n - k + 1 : SubSeq(s, k, n)[i] = s[k + i - 1]
    BY <1>1, <2>1, SubSeqProperties
  <2> QED
    BY <1>1, <1>3, <2>2
<1>5. \A j \in 1 .. Len(t) : rec[t[j]].next = IF j < Len(t) THEN t[j + 1] ELSE NULL
  <2> SUFFICES ASSUME NEW j \in 1 .. Len(t)
               PROVE  rec[t[j]].next = IF j < Len(t) THEN t[j + 1] ELSE NULL
    OBVIOUS
  <2>1. PICK m \in 1 .. n : m = k + j - 1
    BY <1>1, <1>4
  <2>2. rec[s[m]].next = IF m < n THEN s[m + 1] ELSE NULL
    BY <1>1, <2>1 DEF IsList
  <2>3. t[j] = s[m]
    BY <1>4, <2>1
  <2>4. m < n <=> j < Len(t)
    BY <1>1, <1>4, <2>1
  <2>5. j < Len(t) => t[j + 1] = s[m + 1]
    <3> SUFFICES ASSUME j < Len(t) PROVE t[j + 1] = s[m + 1]
      OBVIOUS
    <3>1. j + 1 \in 1 .. n - k + 1 /\ k + (j + 1) - 1 = m + 1
      BY <1>1, <1>4, <2>1
    <3> QED
      BY <1>4, <3>1
  <2> QED
    BY <2>2, <2>3, <2>4, <2>5
<1>6. Len(t) # 0 /\ t[1] = s[k] /\ s[k] # NULL
  <2>1. 1 \in 1 .. n - k + 1 /\ k + 1 - 1 = k /\ n - k + 1 # 0
    BY <1>1
  <2> QED
    BY <1>1, <1>2, <1>4, <2>1
<1>7. IsList(rec, s[k], t)
  BY <1>4, <1>5, <1>6 DEF IsList
<1> QED
  BY <1>1, <1>3, <1>4, <1>7

\* A record before a list.
LEMMA ListMore ==
  ASSUME NEW rec, NEW p \in Id, NEW q \in Pointer, rec[p].next = q, NEW s, IsList(rec, q, s)
  PROVE  /\ IsList(rec, p, <<p>> \o s)
         /\ Len(<<p>> \o s) = Len(s) + 1
         /\ \A k \in 1 .. Len(s) + 1 : (<<p>> \o s)[k] = IF k = 1 THEN p ELSE s[k - 1]
<1>1. PICK n \in Nat : n = Len(s) /\ s \in Seq(Id)
  BY DEF IsList
<1>2. p # NULL
  BY DEF Id, NULL
<1>3. PICK t : t = <<p>> \o s
  OBVIOUS
<1>4. t \in Seq(Id) /\ Len(t) = n + 1 /\ \A k \in 1 .. n + 1 : t[k] = IF k = 1 THEN p ELSE s[k - 1]
  <2>1. <<p>> \in Seq(Id) /\ Len(<<p>>) = 1 /\ <<p>>[1] = p
    OBVIOUS
  <2>2. /\ <<p>> \o s \in Seq(Id)
        /\ Len(<<p>> \o s) = Len(<<p>>) + Len(s)
        /\ \A i \in 1 .. Len(<<p>>) + Len(s) : (<<p>> \o s)[i] =
             IF i <= Len(<<p>>) THEN <<p>>[i] ELSE s[i - Len(<<p>>)]
    BY <1>1, <2>1, ConcatProperties
  <2>3. \A i \in 1 .. n + 1 : i <= 1 <=> i = 1
    BY <1>1
  <2>4. 1 + n = n + 1
    BY <1>1
  <2> QED
    BY <1>1, <1>3, <2>1, <2>2, <2>3, <2>4
<1>5. \A k \in 1 .. Len(t) : rec[t[k]].next = IF k < Len(t) THEN t[k + 1] ELSE NULL
  <2> SUFFICES ASSUME NEW k \in 1 .. n + 1
               PROVE  rec[t[k]].next = IF k < n + 1 THEN t[k + 1] ELSE NULL
    BY <1>4
  <2>1. CASE k = 1
    <3>1. t[1] = p
      BY <1>1, <1>4
    <3>2. q = NULL => n = 0
      BY <1>1 DEF IsList
    <3>3. q # NULL => n # 0 /\ s[1] = q
      BY <1>1 DEF IsList
    <3>4. n # 0 => t[2] = s[1]
      BY <1>1, <1>4
    <3> QED
      BY <1>1, <2>1, <3>1, <3>2, <3>3, <3>4
  <2>2. CASE k # 1
    <3>1. PICK j \in 1 .. n : k = j + 1
      BY <1>1, <2>2
    <3>2. t[k] = s[j] /\ rec[s[j]].next = IF j < n THEN s[j + 1] ELSE NULL
      BY <1>1, <1>4, <3>1 DEF IsList
    <3>3. j < n => t[k + 1] = s[j + 1]
      <4> SUFFICES ASSUME j < n PROVE t[k + 1] = s[j + 1]
        OBVIOUS
      <4>1. k + 1 \in 1 .. n + 1 /\ k + 1 # 1 /\ (k + 1) - 1 = j + 1
        BY <1>1, <3>1
      <4> QED
        BY <1>4, <4>1
    <3>4. j < n <=> k < n + 1
      BY <1>1, <3>1
    <3> QED
      BY <3>2, <3>3, <3>4
  <2> QED
    BY <2>1, <2>2
<1>6. IsList(rec, p, t)
  <2>1. Len(t) # 0 /\ t[1] = p
    BY <1>1, <1>4
  <2> QED
    BY <1>2, <1>4, <1>5, <2>1 DEF IsList
<1> QED
  BY <1>1, <1>3, <1>4, <1>6

\* So there is a list of one record more.
LEMMA LongerList ==
  ASSUME NEW rec, NEW p \in Id, NEW q \in Pointer, rec[p].next = q, NEW s, IsList(rec, q, s)
  PROVE  \E l : /\ IsList(rec, p, l) /\ Len(l) = Len(s) + 1
               /\ \A k \in 1 .. Len(s) + 1 : l[k] = IF k = 1 THEN p ELSE s[k - 1]
<1>1. PICK l : l = <<p>> \o s
  OBVIOUS
<1>2. IsList(rec, p, <<p>> \o s)
  BY ListMore
<1>3. Len(<<p>> \o s) = Len(s) + 1
  BY ListMore
<1>4. \A k \in 1 .. Len(s) + 1 : (<<p>> \o s)[k] = IF k = 1 THEN p ELSE s[k - 1]
  BY ListMore
<1> QED
  BY <1>1, <1>2, <1>3, <1>4

\* What Chain computes.
Chains(f, e) ==
  f = [q \in Pointer |-> IF q = NULL THEN <<>> ELSE <<q>> \o f[e.rec[q].next]]

\* Chain gives the records from a pointer on.
LEMMA ChainIs ==
  ASSUME NEW e, Linked(e.rec), Leads(e.rec), NEW p \in Pointer, NEW s, IsList(e.rec, p, s)
  PROVE  Chain(e, p) = s
<1>1. \A q \in Id : q \in Pointer /\ q # NULL /\ e.rec[q].next \in Pointer
  BY LineEditorAssumption DEF Linked, Id, Pointer, NULL
<1>2. \A q \in Pointer : q # NULL => q \in Id
  BY LineEditorAssumption DEF Id, Pointer, NULL
<1>3. PICK g : g = [q \in Pointer |-> CHOOSE t : IsList(e.rec, q, t)]
  OBVIOUS
<1>4. \A q \in Pointer : IsList(e.rec, q, g[q])
  BY <1>3 DEF Leads
<1>5. \A q \in Id : g[q] = <<q>> \o g[e.rec[q].next]
  <2> SUFFICES ASSUME NEW q \in Id PROVE g[q] = <<q>> \o g[e.rec[q].next]
    OBVIOUS
  <2>1. IsList(e.rec, e.rec[q].next, g[e.rec[q].next])
    BY <1>1, <1>4
  <2>2. IsList(e.rec, q, <<q>> \o g[e.rec[q].next])
    BY <1>1, <2>1, ListMore
  <2>3. IsList(e.rec, q, g[q])
    BY <1>1, <1>4
  <2> QED
    BY <1>1, <2>2, <2>3, OneList
<1>6. g[NULL] = <<>>
  <2>1. NULL \in Pointer
    BY LineEditorAssumption DEF Pointer, NULL
  <2> QED
    BY <1>4, <2>1 DEF IsList
<1>7. Chains(g, e)
  <2>1. \A q \in Pointer : g[q] = IF q = NULL THEN <<>> ELSE <<q>> \o g[e.rec[q].next]
    BY <1>2, <1>5, <1>6
  <2> QED
    BY <1>3, <2>1 DEF Chains
<1>8. PICK f : f = CHOOSE h : Chains(h, e)
  OBVIOUS
<1>9. Chains(f, e)
  BY <1>7, <1>8
<1>10. Chain(e, p) = f[p]
  BY <1>8 DEF Chain, Chains
<1> DEFINE Bad == {n \in Nat : \E q \in Pointer : \E t : /\ IsList(e.rec, q, t) /\ Len(t) = n
                                                        /\ f[q] # t}
<1>11. SUFFICES Bad = {}
  <2>1. Len(s) \in Nat
    BY DEF IsList
  <2> QED
    BY <1>10, <1>11, <2>1
<1>12. SUFFICES ASSUME Bad # {} PROVE FALSE
  OBVIOUS
<1>13. PICK n \in Bad : \A m \in Bad : n <= m
  <2>1. Bad \in SUBSET Nat
    OBVIOUS
  <2> HIDE DEF Bad
  <2> QED
    BY <1>12, <2>1, LeastNumber
<1>14. PICK q \in Pointer : \E t : IsList(e.rec, q, t) /\ Len(t) = n /\ f[q] # t
  BY <1>13
<1>15. PICK t : IsList(e.rec, q, t) /\ Len(t) = n /\ f[q] # t
  BY <1>14
<1>16. q # NULL
  BY <1>9, <1>15 DEF Chains, IsList
<1>17. PICK r \in Pointer : r = e.rec[q].next
  BY <1>1, <1>2, <1>16
<1>18. IsList(e.rec, r, g[r]) /\ IsList(e.rec, q, <<q>> \o g[r]) /\ Len(<<q>> \o g[r]) = Len(g[r]) + 1
  BY <1>2, <1>4, <1>16, <1>17, ListMore
<1>19. t = <<q>> \o g[r]
  BY <1>15, <1>18, OneList
<1>20. Len(g[r]) \in Nat /\ n = Len(g[r]) + 1
  BY <1>15, <1>18, <1>19 DEF IsList
<1>21. Len(g[r]) \notin Bad
  <2>1. \A m \in Nat : n = m + 1 => n \in Nat /\ ~(n <= m)
    OBVIOUS
  <2> HIDE DEF Bad
  <2> QED
    BY <1>13, <1>20, <2>1
<1>22. f[r] = g[r]
  BY <1>18, <1>20, <1>21
<1>23. f[q] = <<q>> \o f[r]
  BY <1>9, <1>16, <1>17 DEF Chains
<1> QED
  BY <1>15, <1>19, <1>22, <1>23

-----------------------------------------------------------------------------
\* The records of a list, as a set.
On(e, p) == Range(Chain(e, p))

\* The records of a list are those of its sequence.
LEMMA OnIs ==
  ASSUME NEW e, Linked(e.rec), Leads(e.rec), NEW p \in Pointer, NEW s, IsList(e.rec, p, s)
  PROVE  \A i : i \in On(e, p) <=> \E k \in 1 .. Len(s) : i = s[k]
<1>1. Chain(e, p) = s
  BY ChainIs
<1>2. DOMAIN s = 1 .. Len(s)
  BY DEF IsList
<1> QED
  BY <1>1, <1>2 DEF On, Range

\* The records of the list from a record on: that one and those of the next, and
\* no list comes back to its beginning.
LEMMA OnFacts ==
  ASSUME NEW e, Linked(e.rec), Leads(e.rec)
  PROVE  /\ On(e, NULL) = {}
         /\ \A p \in Pointer : On(e, p) \subseteq Id
         /\ \A p \in Id : /\ On(e, p) = {p} \cup On(e, e.rec[p].next)
                          /\ p \notin On(e, e.rec[p].next)
         /\ \A p \in Pointer : \A i \in On(e, p) : On(e, i) \subseteq On(e, p)
<1>1. NULL \in Pointer /\ \A q \in Id : q \in Pointer /\ q # NULL /\ e.rec[q].next \in Pointer
  BY LineEditorAssumption DEF Linked, Id, Pointer, NULL
<1>2. On(e, NULL) = {}
  <2>1. PICK s : IsList(e.rec, NULL, s)
    BY <1>1 DEF Leads
  <2>2. s = <<>> /\ Len(s) = 0
    BY <2>1 DEF IsList
  <2> QED
    BY <1>1, <2>1, <2>2, OnIs
<1>3. \A p \in Pointer : On(e, p) \subseteq Id
  <2> SUFFICES ASSUME NEW p \in Pointer PROVE On(e, p) \subseteq Id
    OBVIOUS
  <2>1. PICK s : IsList(e.rec, p, s)
    BY DEF Leads
  <2>2. \A k \in 1 .. Len(s) : s[k] \in Id
    BY <2>1 DEF IsList
  <2> QED
    BY <2>1, <2>2, OnIs
<1>4. \A p \in Pointer : \A i \in On(e, p) : On(e, i) \subseteq On(e, p)
  <2> SUFFICES ASSUME NEW p \in Pointer, NEW i \in On(e, p) PROVE On(e, i) \subseteq On(e, p)
    OBVIOUS
  <2>1. PICK s : IsList(e.rec, p, s)
    BY DEF Leads
  <2>7. \A j \in 1 .. Len(s) : /\ IsList(e.rec, s[j], SubSeq(s, j, Len(s)))
                               /\ Len(SubSeq(s, j, Len(s))) = Len(s) - j + 1
    <3> HIDE DEF IsList
    <3>1. p \in Pointer /\ IsList(e.rec, p, s)
      BY <2>1
    <3> SUFFICES ASSUME NEW j \in 1 .. Len(s)
                 PROVE  /\ IsList(e.rec, s[j], SubSeq(s, j, Len(s)))
                        /\ Len(SubSeq(s, j, Len(s))) = Len(s) - j + 1
      OBVIOUS
    <3>2. IsList(e.rec, s[j], SubSeq(s, j, Len(s)))
      BY ONLY <3>1, ListFrom
    <3>3. Len(SubSeq(s, j, Len(s))) = Len(s) - j + 1
      BY <3>1, ListFrom
    <3> QED
      BY <3>2, <3>3
  <2>2. PICK k \in 1 .. Len(s) : i = s[k]
    BY <2>1, OnIs
  <2>3. PICK t : t = SubSeq(s, k, Len(s))
    OBVIOUS
  <2>4. /\ IsList(e.rec, i, t) /\ Len(t) = Len(s) - k + 1
        /\ \A j \in 1 .. Len(s) - k + 1 : t[j] = s[k + j - 1]
    <3>1. IsList(e.rec, s[k], SubSeq(s, k, Len(s))) /\ Len(SubSeq(s, k, Len(s))) = Len(s) - k + 1
      BY <2>1, <2>7
    <3>2. \A j \in 1 .. Len(s) - k + 1 : SubSeq(s, k, Len(s))[j] = s[k + j - 1]
      BY <2>1, ListFrom
    <3> QED
      BY <2>2, <2>3, <3>1, <3>2
  <2>5. Len(s) \in Nat /\ i \in Pointer
    BY <1>1, <1>3, <2>1 DEF IsList
  <2>6. \A j \in 1 .. Len(t) : t[j] \in On(e, p)
    <3> SUFFICES ASSUME NEW j \in 1 .. Len(t) PROVE t[j] \in On(e, p)
      OBVIOUS
    <3>1. PICK m \in 1 .. Len(s) : m = k + j - 1
      BY <2>4, <2>5
    <3>2. t[j] = s[m]
      BY <2>4, <3>1
    <3> QED
      BY <2>1, <3>2, OnIs
  <2>8. \A x : x \in On(e, i) <=> \E j \in 1 .. Len(t) : x = t[j]
    BY <2>4, <2>5, OnIs
  <2> QED
    BY <2>6, <2>8
<1>5. \A p \in Id : On(e, p) = {p} \cup On(e, e.rec[p].next) /\ p \notin On(e, e.rec[p].next)
  <2> SUFFICES ASSUME NEW p \in Id
               PROVE  On(e, p) = {p} \cup On(e, e.rec[p].next) /\ p \notin On(e, e.rec[p].next)
    OBVIOUS
  <2>1. PICK q \in Pointer : q = e.rec[p].next
    BY <1>1
  <2>2. PICK s : IsList(e.rec, q, s)
    BY DEF Leads
  <2>3. PICK t : t = <<p>> \o s
    OBVIOUS
  <2>4. /\ IsList(e.rec, p, t) /\ Len(t) = Len(s) + 1
        /\ \A k \in 1 .. Len(s) + 1 : t[k] = IF k = 1 THEN p ELSE s[k - 1]
    <3>1. /\ IsList(e.rec, p, <<p>> \o s)
          /\ Len(<<p>> \o s) = Len(s) + 1
          /\ \A k \in 1 .. Len(s) + 1 : (<<p>> \o s)[k] = IF k = 1 THEN p ELSE s[k - 1]
      BY <2>1, <2>2, ListMore
    <3> QED
      BY <2>3, <3>1
  <2>5. Len(s) \in Nat /\ p \in Pointer
    BY <1>1, <2>2 DEF IsList
  <2>6. \A i : i \in On(e, p) <=> i = p \/ i \in On(e, q)
    <3>1. \A i : i \in On(e, p) <=> \E k \in 1 .. Len(t) : i = t[k]
      BY <2>4, <2>5, OnIs
    <3>2. \A i : i \in On(e, q) <=> \E k \in 1 .. Len(s) : i = s[k]
      BY <2>2, OnIs
    <3>3. ASSUME NEW i, i \in On(e, p) PROVE i = p \/ i \in On(e, q)
      <4>1. PICK k \in 1 .. Len(t) : i = t[k]
        BY <3>1, <3>3
      <4>2. k # 1 => k - 1 \in 1 .. Len(s)
        BY <2>4, <2>5
      <4> QED
        BY <2>4, <3>2, <4>1, <4>2
    <3>4. ASSUME NEW i, i \in On(e, q) PROVE i \in On(e, p)
      <4>1. PICK k \in 1 .. Len(s) : i = s[k]
        BY <3>2, <3>4
      <4>2. k + 1 \in 1 .. Len(s) + 1 /\ k + 1 # 1 /\ (k + 1) - 1 = k
        BY <2>5
      <4>3. t[k + 1] = s[k]
        BY <2>4, <4>2
      <4> QED
        BY <2>4, <3>1, <4>1, <4>2, <4>3
    <3>5. p \in On(e, p)
      <4>1. 1 \in 1 .. Len(t) /\ t[1] = p
        BY <2>4, <2>5
      <4> QED
        BY <3>1, <4>1
    <3> QED
      BY <3>3, <3>4, <3>5
  <2>7. p \notin On(e, q)
    <3> SUFFICES ASSUME p \in On(e, q) PROVE FALSE
      OBVIOUS
    <3>1. PICK k \in 1 .. Len(s) : p = s[k]
      BY <2>2, OnIs
    <3>2. /\ IsList(e.rec, p, SubSeq(s, k, Len(s)))
          /\ Len(SubSeq(s, k, Len(s))) = Len(s) - k + 1
      <4>1. q \in Pointer /\ IsList(e.rec, q, s)
        BY <2>2
      <4>2. IsList(e.rec, s[k], SubSeq(s, k, Len(s)))
        BY ONLY <4>1, ListFrom
      <4>3. Len(SubSeq(s, k, Len(s))) = Len(s) - k + 1
        BY ONLY <4>1, ListFrom
      <4> QED
        BY <3>1, <4>2, <4>3
    <3>3. SubSeq(s, k, Len(s)) = t
      BY <2>4, <2>5, <3>2, OneList
    <3>4. Len(s) - k + 1 = Len(s) + 1
      BY <2>4, <3>2, <3>3
    <3> QED
      BY <2>5, <3>4
  <2> QED
    BY <2>1, <2>6, <2>7
<1> QED
  BY <1>2, <1>3, <1>4, <1>5

\* A list whose records keep their links stays as it is.
LEMMA SameList ==
  ASSUME NEW e, Linked(e.rec), Leads(e.rec), NEW p \in Pointer, NEW rec,
         \A i \in On(e, p) : rec[i].next = e.rec[i].next,
         NEW s, IsList(e.rec, p, s)
  PROVE  IsList(rec, p, s)
<1>1. \A k \in 1 .. Len(s) : s[k] \in On(e, p)
  BY OnIs
<1> QED
  BY <1>1 DEF IsList

\* So it has the same records.
LEMMA SameOn ==
  ASSUME NEW e, Linked(e.rec), Leads(e.rec), NEW d, Linked(d.rec), Leads(d.rec),
         NEW p \in Pointer, \A i \in On(e, p) : d.rec[i].next = e.rec[i].next
  PROVE  On(d, p) = On(e, p)
<1>1. PICK s : IsList(e.rec, p, s)
  BY DEF Leads
<1>2. IsList(d.rec, p, s)
  BY <1>1, SameList
<1>3. \A i : i \in On(d, p) <=> \E k \in 1 .. Len(s) : i = s[k]
  BY <1>2, OnIs
<1>4. \A i : i \in On(e, p) <=> \E k \in 1 .. Len(s) : i = s[k]
  BY <1>1, OnIs
<1> QED
  BY <1>3, <1>4

-----------------------------------------------------------------------------
(* Undo records and the texts they give back *)

\* An undo record.
UndoRec == [what : {"free", "insert", "delete", "begin", "end"},
            start : Nat, end : Nat, text : Text, next : Pointer]

\* The records in memory: each ends where it starts or after it, those that are
\* free are empty, and every pointer leads to an end.
Sound(rec) ==
  /\ rec \in [Id -> UndoRec]
  /\ \A i \in Id : rec[i].start <= rec[i].end
  /\ \A i \in Id : rec[i].what = "free" => rec[i] = Free
  /\ Leads(rec)

\* In such a memory every link leads to an end.
LEMMA SoundLinked ==
  ASSUME NEW rec, Sound(rec)
  PROVE  Linked(rec) /\ Leads(rec)
BY DEF Sound, Linked, UndoRec

\* Pointers and the records they point to.
LEMMA Pointers ==
  /\ NULL \in Pointer /\ NULL \notin Id
  /\ \A p \in Pointer : p # NULL => p \in Id
  /\ Id \subseteq Pointer
  /\ MaxRecords \in Nat
BY LineEditorAssumption DEF NULL, Pointer, Id

\* A part of a text is a text.
LEMMA PartOfText ==
  ASSUME NEW t \in Text, NEW m \in Nat \ {0}, NEW n \in Nat, n <= Len(t)
  PROVE  SubSeq(t, m, n) \in Text /\ Len(SubSeq(t, m, n)) = IF m <= n THEN n - m + 1 ELSE 0
<1>1. Len(t) \in Nat /\ \A i \in 1 .. Len(t) : t[i] \in Char
  BY DEF Text
<1>2. \A i \in m .. n : t[i] \in Char
  BY <1>1
<1>3. m \in Int /\ n \in Int
  OBVIOUS
<1> QED
  BY <1>2, <1>3, SubSeqProperties DEF Text

\* Joined texts are a text.
LEMMA JoinedText ==
  ASSUME NEW t \in Text, NEW u \in Text
  PROVE  t \o u \in Text /\ Len(t \o u) = Len(t) + Len(u)
BY ConcatProperties DEF Text

\* A text has a number of characters.
LEMMA TextLen ==
  ASSUME NEW t \in Text
  PROVE  Len(t) \in Nat
BY DEF Text

\* A place in a text stays in it.
LEMMA ClipIs ==
  ASSUME NEW n \in Nat, NEW t \in Text
  PROVE  Clip(n, t) \in 0 .. Len(t) /\ (n <= Len(t) => Clip(n, t) = n)
BY TextLen DEF Clip

\* A text with another in it is a text.
LEMMA WithText ==
  ASSUME NEW t \in Text, NEW at \in 0 .. Len(t), NEW new \in Text
  PROVE  With(t, at, new) \in Text /\ Len(With(t, at, new)) = Len(t) + Len(new)
<1>1. Len(t) \in Nat /\ Len(new) \in Nat /\ 1 \in Nat \ {0} /\ at \in Nat /\ at + 1 \in Nat \ {0}
  BY TextLen
<1>2. PICK a \in Text : a = SubSeq(t, 1, at) /\ Len(a) = at
  <2>1. SubSeq(t, 1, at) \in Text /\ Len(SubSeq(t, 1, at)) = IF 1 <= at THEN at - 1 + 1 ELSE 0
    BY <1>1, PartOfText
  <2>2. (IF 1 <= at THEN at - 1 + 1 ELSE 0) = at
    BY <1>1
  <2> QED
    BY <2>1, <2>2
<1>3. PICK b \in Text : b = SubSeq(t, at + 1, Len(t)) /\ Len(b) = Len(t) - at
  <2>1. /\ SubSeq(t, at + 1, Len(t)) \in Text
        /\ Len(SubSeq(t, at + 1, Len(t))) = IF at + 1 <= Len(t) THEN Len(t) - (at + 1) + 1 ELSE 0
    BY <1>1, PartOfText
  <2>2. (IF at + 1 <= Len(t) THEN Len(t) - (at + 1) + 1 ELSE 0) = Len(t) - at
    BY <1>1
  <2> QED
    BY <2>1, <2>2
<1>4. a \o new \in Text /\ Len(a \o new) = at + Len(new)
  BY <1>2, JoinedText
<1>5. (a \o new) \o b \in Text /\ Len((a \o new) \o b) = (at + Len(new)) + (Len(t) - at)
  <2>1. PICK c \in Text : c = a \o new /\ Len(c) = at + Len(new)
    BY <1>4
  <2>2. c \o b \in Text /\ Len(c \o b) = Len(c) + Len(b)
    BY JoinedText
  <2> QED
    BY <1>3, <2>1, <2>2
<1>6. With(t, at, new) = (a \o new) \o b
  BY <1>2, <1>3 DEF With
<1>7. (at + Len(new)) + (Len(t) - at) = Len(t) + Len(new)
  BY <1>1
<1> QED
  BY <1>5, <1>6, <1>7

\* A text without a part of it is a text.
LEMMA WithoutText ==
  ASSUME NEW t \in Text, NEW to \in 0 .. Len(t), NEW from \in 0 .. to
  PROVE  Without(t, from, to) \in Text /\ Len(Without(t, from, to)) = Len(t) - (to - from)
<1>1. /\ Len(t) \in Nat /\ 1 \in Nat \ {0} /\ from \in Nat /\ from <= Len(t)
      /\ to \in Nat /\ to + 1 \in Nat \ {0}
  BY TextLen
<1>2. PICK a \in Text : a = SubSeq(t, 1, from) /\ Len(a) = from
  <2>1. SubSeq(t, 1, from) \in Text /\ Len(SubSeq(t, 1, from)) = IF 1 <= from THEN from - 1 + 1 ELSE 0
    BY <1>1, PartOfText
  <2>2. (IF 1 <= from THEN from - 1 + 1 ELSE 0) = from
    BY <1>1
  <2> QED
    BY <2>1, <2>2
<1>3. PICK b \in Text : b = SubSeq(t, to + 1, Len(t)) /\ Len(b) = Len(t) - to
  <2>1. /\ SubSeq(t, to + 1, Len(t)) \in Text
        /\ Len(SubSeq(t, to + 1, Len(t))) = IF to + 1 <= Len(t) THEN Len(t) - (to + 1) + 1 ELSE 0
    BY <1>1, PartOfText
  <2>2. (IF to + 1 <= Len(t) THEN Len(t) - (to + 1) + 1 ELSE 0) = Len(t) - to
    BY <1>1
  <2> QED
    BY <2>1, <2>2
<1>4. a \o b \in Text /\ Len(a \o b) = from + (Len(t) - to)
  <2>1. a \o b \in Text /\ Len(a \o b) = Len(a) + Len(b)
    BY JoinedText
  <2> QED
    BY <1>2, <1>3, <2>1
<1>5. Without(t, from, to) = a \o b
  BY <1>2, <1>3 DEF Without
<1>6. from + (Len(t) - to) = Len(t) - (to - from)
  BY <1>1
<1> QED
  BY <1>4, <1>5, <1>6

\* What a record gives back is a text, with the point in it.
LEMMA UndoneIs ==
  ASSUME NEW t \in Text, NEW r \in UndoRec, r.start <= r.end
  PROVE  /\ UndoneText(t, r) \in Text
         /\ \A p \in 0 .. Len(t) : UndonePoint(t, p, r) \in 0 .. Len(UndoneText(t, r))
<1>1. r.start \in Nat /\ r.end \in Nat /\ r.text \in Text /\ Len(t) \in Nat /\ Len(r.text) \in Nat
  BY TextLen DEF UndoRec
<1>2. CASE r.what = "delete"
  <2>1. PICK at \in 0 .. Len(t) : at = Clip(r.start, t)
    BY <1>1, ClipIs
  <2>2. UndoneText(t, r) = With(t, at, r.text) /\ \A p : UndonePoint(t, p, r) = at + Len(r.text)
    BY <1>2, <2>1 DEF UndoneText, UndonePoint
  <2>3. With(t, at, r.text) \in Text /\ Len(With(t, at, r.text)) = Len(t) + Len(r.text)
    BY <1>1, WithText
  <2>4. at + Len(r.text) \in 0 .. Len(t) + Len(r.text)
    BY <1>1
  <2> QED
    BY <2>2, <2>3, <2>4
<1>3. CASE r.what = "insert"
  <2>1. PICK to \in 0 .. Len(t) : to = Clip(r.end, t)
    BY <1>1, ClipIs
  <2>2. PICK from \in 0 .. to : from = Clip(r.start, t)
    BY <1>1, <2>1 DEF Clip
  <2>3. UndoneText(t, r) = Without(t, from, to)
    BY <1>3, <2>1, <2>2 DEF UndoneText
  <2>4. Without(t, from, to) \in Text
    BY WithoutText
  <2>5. \A p : UndonePoint(t, p, r) = Clip(r.start, UndoneText(t, r))
    BY <1>3 DEF UndonePoint
  <2> QED
    BY <1>1, <2>3, <2>4, <2>5, ClipIs
<1>4. CASE r.what # "delete" /\ r.what # "insert"
  BY <1>4 DEF UndoneText, UndonePoint
<1> QED
  BY <1>2, <1>3, <1>4

-----------------------------------------------------------------------------
\* Undoing the records from a pointer on takes text t to text u.
Takes(rec, p, t, u) ==
  \E s : /\ IsList(rec, p, s)
         /\ \E tt \in [0 .. Len(s) -> Text] :
              /\ tt[0] = t /\ tt[Len(s)] = u
              /\ \A k \in 1 .. Len(s) : tt[k] = UndoneText(tt[k - 1], rec[s[k]])

\* No record takes a text anywhere.
LEMMA TakesNone ==
  ASSUME NEW rec, NEW t \in Text, NEW u
  PROVE  Takes(rec, NULL, t, u) <=> t = u
<1>1. \A s : IsList(rec, NULL, s) => s = <<>>
  BY DEF IsList
<1>2. IsList(rec, NULL, <<>>)
  BY DEF IsList
<1>3. Len(<<>>) = 0
  OBVIOUS
<1>4. ASSUME Takes(rec, NULL, t, u) PROVE t = u
  <2>1. PICK s : /\ IsList(rec, NULL, s)
                 /\ \E tt \in [0 .. Len(s) -> Text] : tt[0] = t /\ tt[Len(s)] = u
    BY <1>4 DEF Takes
  <2>2. Len(s) = 0
    BY <1>1, <1>3, <2>1
  <2> QED
    BY <2>1, <2>2
<1>5. ASSUME t = u PROVE Takes(rec, NULL, t, u)
  <2>1. PICK tt : tt = [k \in 0 .. 0 |-> t]
    OBVIOUS
  <2>2. tt \in [0 .. Len(<<>>) -> Text] /\ tt[0] = t /\ tt[Len(<<>>)] = u
    BY <1>3, <1>5, <2>1
  <2>3. \A k \in 1 .. Len(<<>>) : tt[k] = UndoneText(tt[k - 1], rec[<<>>[k]])
    BY <1>3
  <2> QED
    BY <1>2, <2>2, <2>3 DEF Takes
<1> QED
  BY <1>4, <1>5

\* A list takes a text where the records after the first take what that gives back.
LEMMA TakesMore ==
  ASSUME NEW rec, NEW p \in Id, NEW q \in Pointer, rec[p].next = q,
         NEW t \in Text, NEW u, Takes(rec, q, UndoneText(t, rec[p]), u)
  PROVE  Takes(rec, p, t, u)
<1>1. PICK s : /\ IsList(rec, q, s)
               /\ \E tt \in [0 .. Len(s) -> Text] :
                    /\ tt[0] = UndoneText(t, rec[p]) /\ tt[Len(s)] = u
                    /\ \A k \in 1 .. Len(s) : tt[k] = UndoneText(tt[k - 1], rec[s[k]])
  BY DEF Takes
<1>2. PICK n \in Nat : n = Len(s)
  BY <1>1, ListHas
<1>3. PICK tt \in [0 .. n -> Text] :
                    /\ tt[0] = UndoneText(t, rec[p]) /\ tt[n] = u
                    /\ \A k \in 1 .. n : tt[k] = UndoneText(tt[k - 1], rec[s[k]])
  BY <1>1, <1>2
<1>4. PICK l : /\ IsList(rec, p, l) /\ Len(l) = n + 1
               /\ \A k \in 1 .. n + 1 : l[k] = IF k = 1 THEN p ELSE s[k - 1]
  <2>1. \E l : /\ IsList(rec, p, l) /\ Len(l) = Len(s) + 1
               /\ \A k \in 1 .. Len(s) + 1 : l[k] = IF k = 1 THEN p ELSE s[k - 1]
    BY <1>1, LongerList
  <2> QED
    BY <1>2, <2>1
<1>5. PICK ll : ll = [k \in 0 .. n + 1 |-> IF k = 0 THEN t ELSE tt[k - 1]]
  OBVIOUS
<1>6. ll \in [0 .. n + 1 -> Text] /\ ll[0] = t /\ ll[n + 1] = u
  <2>1. \A k \in 0 .. n + 1 : k # 0 => k - 1 \in 0 .. n
    BY <1>2
  <2>2. n + 1 # 0 /\ (n + 1) - 1 = n /\ n + 1 \in 0 .. n + 1 /\ 0 \in 0 .. n + 1
    BY <1>2
  <2> QED
    BY <1>3, <1>5, <2>1, <2>2
<1>7. \A k \in 1 .. n + 1 : ll[k] = UndoneText(ll[k - 1], rec[l[k]])
  <2> SUFFICES ASSUME NEW k \in 1 .. n + 1 PROVE ll[k] = UndoneText(ll[k - 1], rec[l[k]])
    OBVIOUS
  <2>1. ll[k] = tt[k - 1]
    BY <1>5
  <2>2. CASE k = 1
    <3>1. k - 1 = 0 /\ l[k] = p
      BY <1>4, <2>2
    <3> QED
      BY <1>3, <1>6, <2>1, <3>1
  <2>3. CASE k # 1
    <3>1. k - 1 \in 1 .. n /\ l[k] = s[k - 1]
      BY <1>4, <2>3
    <3>2. ll[k - 1] = tt[(k - 1) - 1]
      BY <1>5, <3>1
    <3> QED
      BY <1>3, <2>1, <3>1, <3>2
  <2> QED
    BY <2>2, <2>3
<1> QED
  BY <1>4, <1>6, <1>7 DEF Takes

\* What a pointer takes a text to, its next takes the text undone once to.
LEMMA TakesRest ==
  ASSUME NEW rec, Linked(rec), Leads(rec), NEW p \in Id, NEW t, NEW u, Takes(rec, p, t, u)
  PROVE  Takes(rec, rec[p].next, UndoneText(t, rec[p]), u)
<1>1. PICK q \in Pointer : q = rec[p].next
  BY DEF Linked
<1>2. PICK s : IsList(rec, q, s)
  BY DEF Leads
<1>3. PICK n \in Nat : n = Len(s)
  BY <1>2, ListHas
<1>4. PICK l : /\ IsList(rec, p, l) /\ Len(l) = n + 1
               /\ \A k \in 1 .. n + 1 : l[k] = IF k = 1 THEN p ELSE s[k - 1]
  <2>1. \E l : /\ IsList(rec, p, l) /\ Len(l) = Len(s) + 1
               /\ \A k \in 1 .. Len(s) + 1 : l[k] = IF k = 1 THEN p ELSE s[k - 1]
    BY <1>1, <1>2, LongerList
  <2> QED
    BY <1>3, <2>1
<1>5. PICK m : /\ IsList(rec, p, m)
               /\ \E tt \in [0 .. Len(m) -> Text] :
                    /\ tt[0] = t /\ tt[Len(m)] = u
                    /\ \A k \in 1 .. Len(m) : tt[k] = UndoneText(tt[k - 1], rec[m[k]])
  BY DEF Takes
<1>6. m = l
  <2>1. p \in Pointer
    BY Pointers
  <2> QED
    BY <1>4, <1>5, <2>1, OneList
<1>7. PICK ll \in [0 .. n + 1 -> Text] :
                    /\ ll[0] = t /\ ll[n + 1] = u
                    /\ \A k \in 1 .. n + 1 : ll[k] = UndoneText(ll[k - 1], rec[l[k]])
  <2>1. \E ll \in [0 .. Len(l) -> Text] :
          /\ ll[0] = t /\ ll[Len(l)] = u
          /\ \A k \in 1 .. Len(l) : ll[k] = UndoneText(ll[k - 1], rec[l[k]])
    BY <1>5, <1>6
  <2>2. Len(l) = n + 1
    BY <1>4
  <2> QED
    BY ONLY <2>1, <2>2
<1>8. PICK tt : tt = [k \in 0 .. n |-> ll[k + 1]]
  OBVIOUS
<1>9. tt \in [0 .. n -> Text] /\ tt[n] = u /\ tt[0] = UndoneText(t, rec[p])
  <2>1. \A k \in 0 .. n : k + 1 \in 0 .. n + 1
    BY <1>3
  <2>2. 1 \in 1 .. n + 1 /\ 1 - 1 = 0 /\ 0 + 1 = 1 /\ 0 \in 0 .. n /\ n \in 0 .. n
    BY <1>3
  <2>3. l[1] = p
    BY <1>4, <2>2
  <2>4. ll[1] = UndoneText(ll[1 - 1], rec[l[1]])
    BY <1>7, <2>2
  <2>5. tt[0] = ll[1]
    BY <1>8, <2>2
  <2>6. tt[0] = UndoneText(t, rec[p])
    BY <1>7, <2>2, <2>3, <2>4, <2>5
  <2> QED
    BY <1>7, <1>8, <2>1, <2>2, <2>6
<1>10. \A k \in 1 .. n : tt[k] = UndoneText(tt[k - 1], rec[s[k]])
  <2> SUFFICES ASSUME NEW k \in 1 .. n PROVE tt[k] = UndoneText(tt[k - 1], rec[s[k]])
    OBVIOUS
  <2>1. k + 1 \in 1 .. n + 1 /\ k + 1 # 1 /\ (k + 1) - 1 = k /\ k - 1 \in 0 .. n /\ (k - 1) + 1 = k
    BY <1>3
  <2>2. ll[k + 1] = UndoneText(ll[k], rec[l[k + 1]]) /\ l[k + 1] = s[k]
    BY <1>4, <1>7, <2>1
  <2>3. tt[k] = ll[k + 1] /\ tt[k - 1] = ll[k]
    BY <1>8, <2>1
  <2> QED
    BY <2>2, <2>3
<1> QED
  BY <1>1, <1>2, <1>3, <1>9, <1>10 DEF Takes

\* A list whose records stay as they are takes a text where it took it.
LEMMA TakesSame ==
  ASSUME NEW e, Linked(e.rec), Leads(e.rec), NEW p \in Pointer, NEW rec,
         \A i \in On(e, p) : rec[i] = e.rec[i], NEW t, NEW u, Takes(e.rec, p, t, u)
  PROVE  Takes(rec, p, t, u)
<1>1. PICK s : /\ IsList(e.rec, p, s)
               /\ \E tt \in [0 .. Len(s) -> Text] :
                    /\ tt[0] = t /\ tt[Len(s)] = u
                    /\ \A k \in 1 .. Len(s) : tt[k] = UndoneText(tt[k - 1], e.rec[s[k]])
  BY DEF Takes
<1>2. \A k \in 1 .. Len(s) : s[k] \in On(e, p)
  BY <1>1, OnIs
<1>3. IsList(rec, p, s)
  BY <1>1, SameList
<1>4. \A k \in 1 .. Len(s) : rec[s[k]] = e.rec[s[k]]
  BY <1>2
<1> QED
  BY <1>1, <1>3, <1>4 DEF Takes

\* Where a list takes a text is what the text is reverted to.
LEMMA TakesReverted ==
  ASSUME NEW e, Sound(e.rec), NEW p \in Pointer, NEW t, NEW u, Takes(e.rec, p, t, u)
  PROVE  Reverted(e, t, p) = u
<1>1. PICK s : /\ IsList(e.rec, p, s)
               /\ \E tt \in [0 .. Len(s) -> Text] :
                    /\ tt[0] = t /\ tt[Len(s)] = u
                    /\ \A k \in 1 .. Len(s) : tt[k] = UndoneText(tt[k - 1], e.rec[s[k]])
  BY DEF Takes
<1>2. PICK n \in Nat : n = Len(s) /\ \A k \in 1 .. n : s[k] \in Id
  BY <1>1, ListHas
<1>3. PICK tt \in [0 .. n -> Text] :
                    /\ tt[0] = t /\ tt[n] = u
                    /\ \A k \in 1 .. n : tt[k] = UndoneText(tt[k - 1], e.rec[s[k]])
  BY <1>1, <1>2
<1>4. s = Chain(e, p) /\ DOMAIN s = 1 .. n
  <2>1. DOMAIN s = 1 .. Len(s)
    BY <1>1 DEF IsList
  <2> QED
    BY <1>1, <1>2, <2>1, SoundLinked, ChainIs
<1>5. \A x \in Text : \A k \in 1 .. n : UndoneText(x, e.rec[s[k]]) \in Text
  BY <1>2, UndoneIs DEF Sound
<1>6. KeepsTexts(e, s, n) /\ UndoneOneByOne(e, s, n, tt)
  BY <1>3, <1>5 DEF KeepsTexts, UndoneOneByOne
<1>7. Reverted(e, tt[0], p) = tt[n]
  BY <1>2, <1>4, <1>6, RevertedIs
<1> QED
  BY <1>3, <1>7

-----------------------------------------------------------------------------
(* The memory, list by list *)

\* The records of the list from a pointer on, in a memory.
Of(rec, p) == On([rec |-> rec], p)

\* What a list holds depends on the memory only.
LEMMA OnOf ==
  ASSUME NEW e, Sound(e.rec), NEW p \in Pointer
  PROVE  On(e, p) = Of(e.rec, p)
<1>1. PICK d : d = [rec |-> e.rec]
  OBVIOUS
<1>2. d.rec = e.rec /\ Sound(d.rec)
  BY <1>1
<1>3. Linked(e.rec) /\ Leads(e.rec) /\ Linked(d.rec) /\ Leads(d.rec)
  BY <1>2, SoundLinked
<1>4. \A i \in On(e, p) : d.rec[i].next = e.rec[i].next
  BY <1>2
<1>5. On(d, p) = On(e, p)
  BY <1>3, <1>4, SameOn
<1> QED
  BY <1>1, <1>5 DEF Of

\* What OnFacts says, of a memory.
LEMMA OfFacts ==
  ASSUME NEW rec, Sound(rec)
  PROVE  /\ Of(rec, NULL) = {}
         /\ \A p \in Pointer : Of(rec, p) \subseteq Id
         /\ \A p \in Id : Of(rec, p) = {p} \cup Of(rec, rec[p].next)
         /\ \A p \in Id : p \notin Of(rec, rec[p].next)
         /\ \A p \in Pointer : \A i \in Of(rec, p) : Of(rec, i) \subseteq Of(rec, p)
         /\ \A p \in Id : rec[p].next \in Pointer
<1>1. PICK d : d = [rec |-> rec]
  OBVIOUS
<1>2. d.rec = rec /\ \A p : Of(rec, p) = On(d, p)
  BY <1>1 DEF Of
<1>3. Linked(d.rec) /\ Leads(d.rec)
  BY <1>2, SoundLinked
<1>4. /\ On(d, NULL) = {}
      /\ \A p \in Pointer : On(d, p) \subseteq Id
      /\ \A p \in Id : /\ On(d, p) = {p} \cup On(d, d.rec[p].next)
                       /\ p \notin On(d, d.rec[p].next)
      /\ \A p \in Pointer : \A i \in On(d, p) : On(d, i) \subseteq On(d, p)
  BY <1>3, OnFacts
<1>5. \A p \in Id : rec[p].next \in Pointer
  BY SoundLinked DEF Linked
<1> QED
  BY <1>2, <1>4, <1>5

\* Lists whose records keep their links have the same records.
LEMMA SameOf ==
  ASSUME NEW rec, Sound(rec), NEW new, Sound(new), NEW p \in Pointer,
         \A i \in Of(rec, p) : new[i].next = rec[i].next
  PROVE  Of(new, p) = Of(rec, p)
<1>1. PICK e : e = [rec |-> rec]
  OBVIOUS
<1>2. PICK d : d = [rec |-> new]
  OBVIOUS
<1>3. e.rec = rec /\ d.rec = new /\ Of(rec, p) = On(e, p) /\ Of(new, p) = On(d, p)
  BY <1>1, <1>2 DEF Of
<1>4. Linked(e.rec) /\ Leads(e.rec) /\ Linked(d.rec) /\ Leads(d.rec)
  BY <1>3, SoundLinked
<1>5. \A i \in On(e, p) : d.rec[i].next = e.rec[i].next
  BY <1>3
<1>6. On(d, p) = On(e, p)
  BY <1>4, <1>5, SameOn
<1> QED
  BY <1>3, <1>6

\* Lists whose records stay as they are take texts where they took them.
LEMMA SameTakes ==
  ASSUME NEW rec, Sound(rec), NEW p \in Pointer, NEW new,
         \A i \in Of(rec, p) : new[i] = rec[i], NEW t, NEW u, Takes(rec, p, t, u)
  PROVE  Takes(new, p, t, u)
<1>1. PICK e : e = [rec |-> rec]
  OBVIOUS
<1>2. e.rec = rec /\ Of(rec, p) = On(e, p)
  BY <1>1 DEF Of
<1>3. Linked(e.rec) /\ Leads(e.rec)
  BY <1>2, SoundLinked
<1>4. \A i \in On(e, p) : new[i] = e.rec[i]
  BY <1>2
<1>5. Takes(e.rec, p, t, u)
  BY <1>2
<1> QED
  BY <1>3, <1>4, <1>5, TakesSame

\* A list whose records keep their links is still a list.
LEMMA StillList ==
  ASSUME NEW rec, Sound(rec), NEW p \in Pointer, NEW new,
         \A i \in Of(rec, p) : new[i].next = rec[i].next
  PROVE  \E s : IsList(new, p, s)
<1>1. PICK e : e = [rec |-> rec]
  OBVIOUS
<1>2. e.rec = rec /\ Of(rec, p) = On(e, p)
  BY <1>1 DEF Of
<1>3. Linked(e.rec) /\ Leads(e.rec)
  BY <1>2, SoundLinked
<1>4. PICK s : IsList(e.rec, p, s)
  BY <1>3 DEF Leads
<1>5. \A i \in On(e, p) : new[i].next = e.rec[i].next
  BY <1>2
<1>6. IsList(new, p, s)
  BY <1>3, <1>4, <1>5, SameList
<1> QED
  BY <1>6

-----------------------------------------------------------------------------
\* Every record of a set is freed: a list that comes to one ends there.
LEMMA FreedSound ==
  ASSUME NEW rec, Sound(rec), NEW F, NEW new,
         new = [i \in Id |-> IF i \in F THEN Free ELSE rec[i]]
  PROVE  Sound(new)
<1>1. Free \in UndoRec /\ Free.start <= Free.end /\ Free.next = NULL
  <2>1. <<>> \in Text
    BY DEF Text
  <2> QED
    BY <2>1, Pointers DEF Free, UndoRec
<1>2. new \in [Id -> UndoRec]
  BY <1>1 DEF Sound
<1>3. \A i \in Id : new[i].start <= new[i].end /\ (new[i].what = "free" => new[i] = Free)
  BY <1>1 DEF Sound
<1>4. ASSUME NEW p \in Pointer PROVE \E s : IsList(new, p, s)
  <2>1. PICK s : IsList(rec, p, s)
    BY DEF Sound, Leads
  <2>2. s \in Seq(Id) /\ Len(s) \in Nat /\ \A k \in 1 .. Len(s) : s[k] \in Id /\ s[k] # NULL
    BY <2>1, ListHas
  <2>3. CASE \A k \in 1 .. Len(s) : s[k] \notin F
    <3>1. \A k \in 1 .. Len(s) : new[s[k]] = rec[s[k]]
      BY <2>2, <2>3
    <3> QED
      BY <2>1, <3>1 DEF IsList
  <2>4. CASE \E k \in 1 .. Len(s) : s[k] \in F
    <3> DEFINE S == {k \in 1 .. Len(s) : s[k] \in F}
    <3>1. PICK m \in S : \A l \in S : m <= l
      <4>1. S \in SUBSET Nat /\ S # {}
        BY <2>2, <2>4
      <4> HIDE DEF S
      <4> QED
        BY <4>1, LeastNumber
    <3>2. m \in 1 .. Len(s) /\ s[m] \in F /\ \A k \in 1 .. m - 1 : s[k] \notin F
      <4>1. \A k \in 1 .. m - 1 : k \in 1 .. Len(s) /\ ~(m <= k)
        BY <2>2
      <4> QED
        BY <3>1, <4>1
    <3> HIDE DEF S
    <3>3. PICK t : t = [k \in 1 .. m |-> s[k]]
      OBVIOUS
    <3>4. t \in Seq(Id) /\ Len(t) = m /\ \A k \in 1 .. m : t[k] = s[k]
      <4>1. \A k \in 1 .. m : s[k] \in Id
        BY <2>2, <3>2
      <4>2. m \in Nat
        BY <2>2, <3>2
      <4> QED
        BY <3>3, <4>1, <4>2
    <3>5. \A k \in 1 .. m : new[t[k]].next = IF k < m THEN t[k + 1] ELSE NULL
      <4> SUFFICES ASSUME NEW k \in 1 .. m
                   PROVE  new[t[k]].next = IF k < m THEN t[k + 1] ELSE NULL
        OBVIOUS
      <4>1. CASE k = m
        <5>1. new[t[k]] = Free
          BY <2>2, <3>2, <3>4, <4>1
        <5> QED
          BY <1>1, <4>1, <5>1
      <4>2. CASE k # m
        <5>1. k \in 1 .. m - 1 /\ k \in 1 .. Len(s) /\ k < Len(s) /\ k < m /\ k + 1 \in 1 .. m
          BY <2>2, <3>2, <4>2
        <5>2. new[t[k]] = rec[s[k]]
          BY <2>2, <3>2, <3>4, <5>1
        <5>3. rec[s[k]].next = s[k + 1]
          BY <2>1, <5>1 DEF IsList
        <5> QED
          BY <3>4, <5>1, <5>2, <5>3
      <4> QED
        BY <4>1, <4>2
    <3>6. p # NULL /\ Len(t) # 0 /\ t[1] = p
      <4>1. 1 \in 1 .. m /\ m # 0 /\ Len(s) # 0
        BY <2>2, <3>2
      <4>2. p # NULL
        <5>1. Len(<<>>) = 0
          OBVIOUS
        <5> QED
          BY <2>1, <4>1, <5>1 DEF IsList
      <4> QED
        BY <2>1, <3>4, <4>1, <4>2 DEF IsList
    <3>7. \A k \in 1 .. Len(t) : new[t[k]].next = IF k < Len(t) THEN t[k + 1] ELSE NULL
      BY ONLY <3>4, <3>5
    <3>8. IsList(new, p, t)
      BY ONLY <3>4, <3>6, <3>7 DEF IsList
    <3> QED
      BY <3>8
  <2> QED
    BY <2>3, <2>4
<1> QED
  BY <1>2, <1>3, <1>4 DEF Sound, Leads

-----------------------------------------------------------------------------
\* How the lists of records are apart: those of the lines (L, the saved line
\* first) from each other, from the list of the line in view (U), but for the
\* line whose place is in view, and from a list that is held for later (W).  What
\* is in none of them is not in use.
Apart(n, at, U, L, W, used) ==
  /\ \A k, m \in 0 .. n : k # m => L[k] \cap L[m] = {}
  /\ \A k \in 0 .. n : IF k = at THEN L[k] \subseteq U ELSE L[k] \cap U = {}
  /\ \A k \in 0 .. n : L[k] \cap W = {}
  /\ U \cap W = {}
  /\ \A i : i \in used <=> i \in U \/ i \in W \/ \E k \in 0 .. n : i \in L[k]

\* The records in use.
InUse(rec) == {i \in Id : rec[i].what # "free"}

\* The records of the lists of the lines.
Lists(e) == [k \in 0 .. Len(e.list) |-> Of(e.rec, Heads(e)[k])]

\* The memory is in order, with the list w held for later.
InOrder(e, w) ==
  /\ e \in Editor /\ w \in Pointer /\ e.offset <= Len(e.list) /\ Sound(e.rec)
  /\ OnEntry(e) <=> e.saved # <<>>
  /\ Apart(Len(e.list), Place(e), Of(e.rec, e.undo), Lists(e), Of(e.rec, w), InUse(e.rec))

\* What the parts of an editor are.
LEMMA Parts ==
  ASSUME NEW e \in Editor
  PROVE  /\ e.text \in Text /\ e.point \in Nat /\ e.undo \in Pointer
         /\ e.list \in Seq(Entry) /\ Len(e.list) \in Nat /\ DOMAIN e.list = 1 .. Len(e.list)
         /\ \A k \in 1 .. Len(e.list) : /\ e.list[k] \in Entry
                                        /\ e.list[k].line \in Text /\ e.list[k].data \in Pointer
         /\ e.offset \in Nat
         /\ e.saved # <<>> => /\ e.saved \in [{1} -> Entry]
                              /\ e.saved[1].line \in Text /\ e.saved[1].data \in Pointer
         /\ e.rec \in [Id -> UndoRec]
<1>1. /\ e.text \in Text /\ e.point \in Nat /\ e.undo \in Pointer
      /\ e.list \in Seq(Entry) /\ e.offset \in Nat /\ e.rec \in [Id -> UndoRec]
      /\ e.saved \in {<<>>} \cup [{1} -> Entry]
  BY DEF Editor, Text, UndoRec
<1>2. Len(e.list) \in Nat /\ DOMAIN e.list = 1 .. Len(e.list)
      /\ \A k \in 1 .. Len(e.list) : e.list[k] \in Entry
  BY <1>1
<1>3. \A x \in Entry : x.line \in Text /\ x.data \in Pointer
  BY DEF Entry, Text
<1>4. e.saved # <<>> => e.saved \in [{1} -> Entry] /\ e.saved[1] \in Entry
  BY <1>1
<1> QED
  BY <1>1, <1>2, <1>3, <1>4

\* Where the lists of the lines begin.
LEMMA HeadsAre ==
  ASSUME NEW e \in Editor
  PROVE  /\ Heads(e)[0] = IF e.saved = <<>> THEN NULL ELSE e.saved[1].data
         /\ \A k \in 1 .. Len(e.list) : Heads(e)[k] = e.list[k].data
         /\ \A k \in 0 .. Len(e.list) : Heads(e)[k] \in Pointer
         /\ \A k \in 0 .. Len(e.list) : Lists(e)[k] = Of(e.rec, Heads(e)[k])
<1>1. Len(e.list) \in Nat /\ \A k \in 1 .. Len(e.list) : e.list[k].data \in Pointer
  BY Parts
<1>2. Heads(e)[0] = IF e.saved = <<>> THEN NULL ELSE e.saved[1].data
  BY <1>1 DEF Heads
<1>3. \A k \in 1 .. Len(e.list) : Heads(e)[k] = e.list[k].data
  BY <1>1 DEF Heads
<1>4. Heads(e)[0] \in Pointer
  BY <1>2, Parts, Pointers
<1>5. \A k \in 0 .. Len(e.list) : k = 0 \/ k \in 1 .. Len(e.list)
  BY <1>1
<1>6. \A k \in 0 .. Len(e.list) : Heads(e)[k] \in Pointer
  BY <1>1, <1>3, <1>4, <1>5
<1> QED
  BY <1>2, <1>3, <1>6 DEF Lists

-----------------------------------------------------------------------------
(* What the records give back *)

\* The first texts of the lines: o of the entries, x of the line being typed.
Based(x, o) == [k \in 0 .. Len(o) |-> IF k = 0 THEN x ELSE o[k]]

\* Every entry, and the saved line, gives back its first text.
Gives(e, o) ==
  /\ \A k \in 1 .. Len(e.list) : Takes(e.rec, e.list[k].data, e.list[k].line, o[k])
  /\ e.saved # <<>> => Takes(e.rec, e.saved[1].data, e.saved[1].line, o[0])

\* They are the first texts.
LEMMA BasedIs ==
  ASSUME NEW x, NEW o, NEW n \in Nat, Len(o) = n
  PROVE  Based(x, o)[0] = x /\ \A k \in 1 .. n : Based(x, o)[k] = o[k]
<1>1. Based(x, o) = [k \in 0 .. n |-> IF k = 0 THEN x ELSE o[k]]
  BY DEF Based
<1>2. 0 \in 0 .. n /\ \A k \in 1 .. n : k \in 0 .. n /\ k # 0
  OBVIOUS
<1> QED
  BY <1>1, <1>2

\* Undoing the line in view takes a text to u.
LineTakes(e, t, u) == Takes(e.rec, e.undo, t, u)

\* The lines of the history, and where they are, stay.
SameLines(e, d) == d.list = e.list /\ d.offset = e.offset /\ d.saved = e.saved

\* d is e with one more record, r.
Noted(e, d, r) ==
  /\ d \in Editor /\ SameLines(e, d) /\ d.text = e.text /\ d.point = e.point
  /\ d.undo \in Id /\ e.rec[d.undo].what = "free"
  /\ d.rec = [e.rec EXCEPT ![d.undo] = r]

\* A record that says what is undone, before the list of the line.
NewRecord(e, r) == r \in UndoRec /\ r.start <= r.end /\ r.what # "free" /\ r.next = e.undo

\* rl_add_undo puts such a record in a free place of the memory.
LEMMA AddUndoNotes ==
  ASSUME NEW e \in Editor, FreeIds(e) # {},
         NEW what \in {"insert", "delete", "begin", "end"},
         NEW start \in Nat, NEW end \in Nat, start <= end, NEW text \in Text,
         NEW r, r = [what |-> what, start |-> start, end |-> end, text |-> text, next |-> e.undo]
  PROVE  Noted(e, AddUndo(e, what, start, end, text), r) /\ NewRecord(e, r)
<1>1. PICK i : i = CHOOSE m \in FreeIds(e) : \A j \in FreeIds(e) : m <= j
  OBVIOUS
<1>2. i \in FreeIds(e)
  <2>1. FreeIds(e) \in SUBSET Nat
    BY DEF FreeIds, Id
  <2>2. \E k \in FreeIds(e) : \A j \in FreeIds(e) : k <= j
    BY <2>1, LeastNumber
  <2> QED
    BY <1>1, <2>2
<1>3. i \in Id /\ e.rec[i].what = "free"
  BY <1>2 DEF FreeIds
<1>4. e.undo \in Pointer /\ e.rec \in [Id -> UndoRec] /\ i \in Pointer
  BY <1>3, Parts, Pointers
<1>5. r \in UndoRec /\ r.start <= r.end /\ r.what # "free" /\ r.next = e.undo
  BY <1>4 DEF UndoRec
<1>6. AddUndo(e, what, start, end, text) = [e EXCEPT !.rec[i] = r, !.undo = i]
  BY <1>1 DEF AddUndo
<1>7. PICK d : d = [e EXCEPT !.rec[i] = r, !.undo = i]
  OBVIOUS
<1>8. [e.rec EXCEPT ![i] = r] \in [Id -> UndoRec]
  BY <1>3, <1>4, <1>5
<1>9. /\ d.text = e.text /\ d.point = e.point /\ d.list = e.list /\ d.offset = e.offset
      /\ d.saved = e.saved /\ d.undo = i /\ d.rec = [e.rec EXCEPT ![i] = r]
  BY <1>7 DEF Editor
<1>10. d \in Editor
  BY <1>4, <1>7, <1>8 DEF Editor, UndoRec, Text
<1> QED
  BY <1>3, <1>5, <1>6, <1>7, <1>9, <1>10 DEF Noted, NewRecord, SameLines

\* What is not in use is in no list but its own.
LEMMA FreeAlone ==
  ASSUME NEW e, NEW w, InOrder(e, w), NEW i \in Id, e.rec[i].what = "free"
  PROVE  /\ i \notin Of(e.rec, e.undo) /\ i \notin Of(e.rec, w)
         /\ \A k \in 0 .. Len(e.list) : i \notin Of(e.rec, Heads(e)[k])
         /\ \A p \in Pointer : p # i => i \notin Of(e.rec, p)
<1>1. /\ e \in Editor /\ Sound(e.rec) /\ w \in Pointer
      /\ Apart(Len(e.list), Place(e), Of(e.rec, e.undo), Lists(e), Of(e.rec, w), InUse(e.rec))
  BY DEF InOrder
<1>2. e.undo \in Pointer /\ \A k \in 0 .. Len(e.list) : Heads(e)[k] \in Pointer
                         /\ Lists(e)[k] = Of(e.rec, Heads(e)[k])
  BY <1>1, Parts, HeadsAre
<1>3. i \notin InUse(e.rec)
  BY DEF InUse
<1>4. /\ i \notin Of(e.rec, e.undo) /\ i \notin Of(e.rec, w)
      /\ \A k \in 0 .. Len(e.list) : i \notin Of(e.rec, Heads(e)[k])
  BY <1>1, <1>2, <1>3 DEF Apart
<1>5. ASSUME NEW p \in Pointer, p # i, i \in Of(e.rec, p) PROVE FALSE
  <2>1. p \in Id
    BY <1>1, <1>5, Pointers, OfFacts
  <2>2. p \in Of(e.rec, p) /\ Of(e.rec, p) = {p} \cup Of(e.rec, e.rec[p].next)
    BY <1>1, <2>1, OfFacts
  <2>3. CASE e.rec[p].what = "free"
    <3>1. e.rec[p].next = NULL
      BY <1>1, <2>1, <2>3 DEF Sound, Free
    <3> QED
      BY <1>1, <1>5, <2>2, <3>1, OfFacts
  <2>4. CASE e.rec[p].what # "free"
    <3>1. p \in InUse(e.rec)
      BY <2>1, <2>4 DEF InUse
    <3>2. \/ p \in Of(e.rec, e.undo) \/ p \in Of(e.rec, w)
          \/ \E k \in 0 .. Len(e.list) : p \in Of(e.rec, Heads(e)[k])
      BY <1>1, <1>2, <3>1 DEF Apart
    <3>3. \A q \in Pointer : p \in Of(e.rec, q) => i \in Of(e.rec, q)
      BY <1>1, <1>5, OfFacts
    <3> QED
      BY <1>1, <1>2, <1>4, <3>2, <3>3
  <2> QED
    BY <2>3, <2>4
<1> QED
  BY <1>4, <1>5

\* A record more in use is a record more in the list of the line.
LEMMA ApartMore ==
  ASSUME NEW n, NEW at, NEW U, NEW L, NEW W, NEW used, Apart(n, at, U, L, W, used),
         NEW i, i \notin used
  PROVE  Apart(n, at, {i} \cup U, L, W, used \cup {i})
BY DEF Apart

\* A record more keeps the memory in order, and what the lines give back.
LEMMA NotedInOrder ==
  ASSUME NEW e, NEW w, InOrder(e, w), NEW d, NEW r, Noted(e, d, r), NewRecord(e, r)
  PROVE  /\ InOrder(d, w)
         /\ \A o : Gives(e, o) => Gives(d, o)
         /\ \A t \in Text : \A u : LineTakes(e, UndoneText(t, r), u) => LineTakes(d, t, u)
<1>1. /\ e \in Editor /\ Sound(e.rec) /\ w \in Pointer /\ e.undo \in Pointer
      /\ Apart(Len(e.list), Place(e), Of(e.rec, e.undo), Lists(e), Of(e.rec, w), InUse(e.rec))
  BY Parts DEF InOrder
<1>2. PICK i \in Id : i = d.undo
  BY DEF Noted
<1>3. e.rec[i].what = "free" /\ d.rec = [e.rec EXCEPT ![i] = r] /\ e.rec \in [Id -> UndoRec]
  BY <1>1, <1>2, Parts DEF Noted
<1>4. /\ i \notin Of(e.rec, e.undo) /\ i \notin Of(e.rec, w)
      /\ \A k \in 0 .. Len(e.list) : i \notin Of(e.rec, Heads(e)[k])
      /\ \A p \in Pointer : p # i => i \notin Of(e.rec, p)
  BY <1>3, FreeAlone
<1>5. \A j \in Id : j # i => d.rec[j] = e.rec[j]
  BY <1>3
<1>6. d.rec[i] = r
  BY <1>3
<1>7. \A p \in Pointer : i \notin Of(e.rec, p) => \A j \in Of(e.rec, p) : d.rec[j] = e.rec[j]
  BY <1>1, <1>5, OfFacts
<1>8. Sound(d.rec)
  <2>1. d.rec \in [Id -> UndoRec] /\ \A j \in Id : d.rec[j].start <= d.rec[j].end
    BY <1>1, <1>3, <1>5, <1>6 DEF NewRecord, Sound
  <2>2. \A j \in Id : d.rec[j].what = "free" => d.rec[j] = Free
    BY <1>1, <1>5, <1>6 DEF NewRecord, Sound
  <2>3. ASSUME NEW p \in Pointer PROVE \E s : IsList(d.rec, p, s)
    <3>1. CASE i \notin Of(e.rec, p)
      <4>1. \A j \in Of(e.rec, p) : d.rec[j].next = e.rec[j].next
        BY <1>7, <3>1
      <4> QED
        BY <1>1, <4>1, StillList
    <3>2. CASE i \in Of(e.rec, p)
      <4>1. p = i
        BY <1>4, <3>2
      <4>2. \A j \in Of(e.rec, e.undo) : d.rec[j].next = e.rec[j].next
        BY <1>1, <1>4, <1>7
      <4>3. PICK s : IsList(d.rec, e.undo, s)
        BY <1>1, <4>2, StillList
      <4>4. d.rec[i].next = e.undo
        BY <1>6 DEF NewRecord
      <4>5. IsList(d.rec, i, <<i>> \o s)
        BY <1>1, <4>3, <4>4, ListMore
      <4> QED
        BY <4>1, <4>5
    <3> QED
      BY <3>1, <3>2
  <2> QED
    BY <2>1, <2>2, <2>3 DEF Sound, Leads
<1>9. \A p \in Pointer : i \notin Of(e.rec, p) => Of(d.rec, p) = Of(e.rec, p)
  <2> SUFFICES ASSUME NEW p \in Pointer, i \notin Of(e.rec, p)
               PROVE  Of(d.rec, p) = Of(e.rec, p)
    OBVIOUS
  <2>1. \A j \in Of(e.rec, p) : d.rec[j].next = e.rec[j].next
    BY <1>7
  <2> QED
    BY <1>1, <1>8, <2>1, SameOf
<1>10. d \in Editor /\ d.list = e.list /\ d.offset = e.offset /\ d.saved = e.saved
  BY DEF Noted, SameLines
<1>11. /\ \A k \in 0 .. Len(e.list) : Heads(e)[k] \in Pointer /\ Heads(d)[k] = Heads(e)[k]
       /\ \A k \in 0 .. Len(e.list) : Lists(e)[k] = Of(e.rec, Heads(e)[k])
  <2>1. Heads(d) = Heads(e)
    BY <1>10 DEF Heads
  <2> QED
    BY <1>1, <2>1, HeadsAre
<1>12. Lists(d) = Lists(e)
  <2>1. \A k \in 0 .. Len(e.list) : Of(d.rec, Heads(d)[k]) = Of(e.rec, Heads(e)[k])
    BY <1>4, <1>9, <1>11
  <2> QED
    BY <1>10, <2>1 DEF Lists
<1>13. Of(d.rec, d.undo) = {i} \cup Of(e.rec, e.undo) /\ Of(d.rec, w) = Of(e.rec, w)
  <2>1. d.rec[i].next = e.undo
    BY <1>6 DEF NewRecord
  <2>2. Of(d.rec, e.undo) = Of(e.rec, e.undo) /\ Of(d.rec, w) = Of(e.rec, w)
    BY <1>1, <1>4, <1>9
  <2>3. Of(d.rec, i) = {i} \cup Of(d.rec, d.rec[i].next)
    BY <1>8, OfFacts
  <2> QED
    BY <1>2, <2>1, <2>2, <2>3
<1>14. InUse(d.rec) = InUse(e.rec) \cup {i} /\ i \notin InUse(e.rec)
  BY <1>3, <1>5, <1>6 DEF InUse, NewRecord
<1>15. InOrder(d, w)
  <2>1. Apart(Len(e.list), Place(e), {i} \cup Of(e.rec, e.undo), Lists(e), Of(e.rec, w),
              InUse(e.rec) \cup {i})
    BY <1>1, <1>14, ApartMore
  <2>2. Place(d) = Place(e) /\ (OnEntry(d) <=> OnEntry(e))
    BY <1>10 DEF Place, OnEntry
  <2> QED
    BY <1>1, <1>8, <1>10, <1>12, <1>13, <1>14, <2>1, <2>2 DEF InOrder
<1>16. \A p \in Pointer : i \notin Of(e.rec, p) => \A t, u : Takes(e.rec, p, t, u) => Takes(d.rec, p, t, u)
  BY <1>1, <1>7, SameTakes
<1>17. ASSUME NEW o, Gives(e, o) PROVE Gives(d, o)
  <2>1. \A k \in 1 .. Len(e.list) : Takes(d.rec, e.list[k].data, e.list[k].line, o[k])
    <3> SUFFICES ASSUME NEW k \in 1 .. Len(e.list)
                 PROVE  Takes(d.rec, e.list[k].data, e.list[k].line, o[k])
      OBVIOUS
    <3>1. k \in 0 .. Len(e.list) /\ e.list[k].data = Heads(e)[k]
      BY <1>1, Parts, HeadsAre
    <3>2. e.list[k].data \in Pointer /\ i \notin Of(e.rec, e.list[k].data)
      BY <1>4, <1>11, <3>1
    <3>3. Takes(e.rec, e.list[k].data, e.list[k].line, o[k])
      BY <1>17 DEF Gives
    <3> QED
      BY <1>16, <3>2, <3>3
  <2>2. ASSUME e.saved # <<>> PROVE Takes(d.rec, e.saved[1].data, e.saved[1].line, o[0])
    <3>1. 0 \in 0 .. Len(e.list) /\ e.saved[1].data = Heads(e)[0]
      BY <1>1, <2>2, Parts, HeadsAre
    <3>2. e.saved[1].data \in Pointer /\ i \notin Of(e.rec, e.saved[1].data)
      BY <1>4, <1>11, <3>1
    <3>3. Takes(e.rec, e.saved[1].data, e.saved[1].line, o[0])
      BY <1>17, <2>2 DEF Gives
    <3> QED
      BY <1>16, <3>2, <3>3
  <2> QED
    BY <1>10, <2>1, <2>2 DEF Gives
<1>18. ASSUME NEW t \in Text, NEW u, LineTakes(e, UndoneText(t, r), u) PROVE LineTakes(d, t, u)
  <2>1. Takes(d.rec, e.undo, UndoneText(t, r), u)
    BY <1>1, <1>4, <1>16, <1>18 DEF LineTakes
  <2>2. d.rec[i].next = e.undo
    BY <1>6 DEF NewRecord
  <2>3. Takes(d.rec, e.undo, UndoneText(t, d.rec[i]), u)
    BY <1>6, <2>1
  <2>4. Takes(d.rec, i, t, u)
    BY <1>1, <2>2, <2>3, TakesMore
  <2> QED
    BY <1>2, <2>4 DEF LineTakes
<1> QED
  BY <1>15, <1>17, <1>18

-----------------------------------------------------------------------------
(* Undoing one record *)

\* The point is in the line.
PointIn(e) == e.point <= Len(e.text)

\* Another text of the line, with the same records, leaves the memory in order.
LEMMA SameMemory ==
  ASSUME NEW e, NEW w, InOrder(e, w), NEW d \in Editor, SameLines(e, d),
         d.undo = e.undo, d.rec = e.rec
  PROVE  /\ InOrder(d, w)
         /\ \A o : Gives(e, o) => Gives(d, o)
         /\ \A t, u : LineTakes(e, t, u) => LineTakes(d, t, u)
<1>1. Heads(d) = Heads(e) /\ Place(d) = Place(e) /\ (OnEntry(d) <=> OnEntry(e))
  BY DEF SameLines, Heads, Place, OnEntry
<1>2. Lists(d) = Lists(e)
  BY <1>1 DEF SameLines, Lists
<1>3. InOrder(d, w)
  BY <1>1, <1>2 DEF SameLines, InOrder
<1> QED
  BY <1>3 DEF SameLines, Gives, LineTakes

\* The point stays a number.
LEMMA UndonePointNat ==
  ASSUME NEW t \in Text, NEW r \in UndoRec, r.start <= r.end, NEW p \in Nat
  PROVE  UndonePoint(t, p, r) \in Nat
<1>1. 0 \in 0 .. Len(t) /\ Len(t) \in Nat
  BY TextLen
<1>2. CASE r.what = "delete" \/ r.what = "insert"
  <2>1. UndonePoint(t, p, r) = UndonePoint(t, 0, r)
    BY <1>2 DEF UndonePoint
  <2>2. UndonePoint(t, 0, r) \in 0 .. Len(UndoneText(t, r)) /\ UndoneText(t, r) \in Text
    BY <1>1, UndoneIs
  <2> QED
    BY <2>1, <2>2
<1>3. CASE ~(r.what = "delete" \/ r.what = "insert")
  BY <1>3 DEF UndonePoint
<1> QED
  BY <1>2, <1>3

\* No other line holds the record undone, so none is told.
LEMMA NobodyTold ==
  ASSUME NEW e \in Editor, NEW h \in Id,
         \A k \in 1 .. Len(e.list) : e.list[k].data # h,
         e.saved # <<>> => e.saved[1].data # h,
         e.saved # <<>> => \A i \in On(e, e.saved[1].data) : e.rec[i].next # h
  PROVE  OthersTold(e, h) = e
<1>1. /\ DOMAIN e.list = 1 .. Len(e.list) /\ e.list \in Seq(Entry) /\ e.rec \in [Id -> UndoRec]
      /\ e.saved # <<>> => e.saved \in [{1} -> Entry]
  BY Parts
<1>2. ReplaceData(e, h, e.undo) = e
  <2>1. [k \in DOMAIN e.list |-> IF e.list[k].data = h THEN [e.list[k] EXCEPT !.data = e.undo]
                                                      ELSE e.list[k]] = e.list
    BY <1>1
  <2>2. [e EXCEPT !.list = e.list] = e
    BY DEF Editor
  <2> QED
    BY <2>1, <2>2 DEF ReplaceData
<1>3. CASE e.saved = <<>>
  BY <1>2, <1>3 DEF OthersTold
<1>4. CASE e.saved # <<>>
  <2>1. [i \in Id |-> IF i \in On(e, e.saved[1].data) /\ e.rec[i].next = h
                      THEN [e.rec[i] EXCEPT !.next = e.undo] ELSE e.rec[i]] = e.rec
    BY <1>1, <1>4
  <2>2. OthersTold(e, h) = [e EXCEPT !.saved[1].data = IF @ = h THEN e.undo ELSE @, !.rec = e.rec]
    BY <1>2, <1>4, <2>1 DEF OthersTold, On
  <2>3. [e.saved EXCEPT ![1].data = IF @ = h THEN e.undo ELSE @] = e.saved
    BY <1>1, <1>4 DEF Entry
  <2>4. [e EXCEPT !.saved[1].data = IF @ = h THEN e.undo ELSE @, !.rec = e.rec] = e
    BY <2>3 DEF Editor
  <2> QED
    BY <2>2, <2>4
<1> QED
  BY <1>3, <1>4

\* What undoing a record leaves in the entry k, which may hold the record.
EntryThen(e, h, t, k) ==
  IF k = Place(e) /\ e.list[k].data = h THEN [line |-> t, data |-> e.rec[h].next] ELSE e.list[k]

\* The record undone is in no list but that of the line and of its entry.
LEMMA HeadAlone ==
  ASSUME NEW e, NEW w, InOrder(e, w), NEW h \in Id, h = e.undo
  PROVE  /\ \A k \in 0 .. Len(e.list) : k # Place(e) => h \notin Of(e.rec, Heads(e)[k])
         /\ h \notin Of(e.rec, w)
         /\ \A k \in 1 .. Len(e.list) : k # Place(e) => e.list[k].data # h
         /\ Place(e) \in 1 .. Len(e.list) /\ e.list[Place(e)].data # h
              => h \notin Of(e.rec, Heads(e)[Place(e)])
<1>1. /\ e \in Editor /\ Sound(e.rec) /\ w \in Pointer
      /\ Apart(Len(e.list), Place(e), Of(e.rec, e.undo), Lists(e), Of(e.rec, w), InUse(e.rec))
  BY DEF InOrder
<1>2. h \in Of(e.rec, h) /\ Of(e.rec, h) = {h} \cup Of(e.rec, e.rec[h].next)
      /\ h \notin Of(e.rec, e.rec[h].next)
  BY <1>1, OfFacts
<1>3. /\ \A k \in 0 .. Len(e.list) : Heads(e)[k] \in Pointer /\ Lists(e)[k] = Of(e.rec, Heads(e)[k])
      /\ \A k \in 1 .. Len(e.list) : Heads(e)[k] = e.list[k].data
      /\ \A k \in 1 .. Len(e.list) : k \in 0 .. Len(e.list)
  BY <1>1, Parts, HeadsAre
<1>4. \A k \in 0 .. Len(e.list) : k # Place(e) => h \notin Of(e.rec, Heads(e)[k])
  BY <1>1, <1>2, <1>3 DEF Apart
<1>5. h \notin Of(e.rec, w)
  BY <1>1, <1>2 DEF Apart
<1>6. \A k \in 1 .. Len(e.list) : k # Place(e) => e.list[k].data # h
  BY <1>2, <1>3, <1>4
<1>7. ASSUME Place(e) \in 1 .. Len(e.list), e.list[Place(e)].data # h,
             h \in Of(e.rec, Heads(e)[Place(e)])
      PROVE  FALSE
  <2>1. PICK q \in Pointer : q = e.list[Place(e)].data /\ q = Heads(e)[Place(e)] /\ q # h
    BY <1>3, <1>7
  <2>2. h \in Of(e.rec, q) /\ Of(e.rec, q) \subseteq Of(e.rec, h)
    BY <1>1, <1>3, <1>7, <2>1 DEF Apart
  <2>3. q \in Id
    BY <1>1, <2>2, Pointers, OfFacts
  <2>4. q \in Of(e.rec, q) /\ Of(e.rec, q) = {q} \cup Of(e.rec, e.rec[q].next)
        /\ q \notin Of(e.rec, e.rec[q].next)
    BY <1>1, <2>3, OfFacts
  <2>5. q \in Of(e.rec, e.rec[h].next)
    BY <1>2, <2>1, <2>2, <2>4
  <2>6. Of(e.rec, q) \subseteq Of(e.rec, e.rec[h].next)
    BY <1>1, <2>5, OfFacts
  <2> QED
    BY <1>2, <2>2, <2>6
<1> QED
  BY <1>4, <1>5, <1>6, <1>7

\* Undoing one record: the text it gives back, and the rest of the list, also for
\* an entry that holds the record; the record is freed.
LEMMA UndoRecordIs ==
  ASSUME NEW e, NEW w, InOrder(e, w), NEW h \in Id, h = e.undo, NEW d, d = UndoRecord(e)
  PROVE  /\ d \in Editor
         /\ d.text = UndoneText(e.text, e.rec[h])
         /\ PointIn(e) => PointIn(d)
         /\ d.undo = e.rec[h].next
         /\ d.offset = e.offset /\ d.saved = e.saved
         /\ d.rec = [i \in Id |-> IF i \in {h} THEN Free ELSE e.rec[i]]
         /\ Len(d.list) = Len(e.list)
         /\ \A k \in 1 .. Len(e.list) : d.list[k] = EntryThen(e, h, d.text, k)
<1>1. /\ e \in Editor /\ Sound(e.rec) /\ w \in Pointer /\ e.offset <= Len(e.list)
      /\ Apart(Len(e.list), Place(e), Of(e.rec, e.undo), Lists(e), Of(e.rec, w), InUse(e.rec))
  BY DEF InOrder
<1>2. /\ e.text \in Text /\ e.point \in Nat /\ e.undo \in Pointer
      /\ e.list \in Seq(Entry) /\ Len(e.list) \in Nat /\ DOMAIN e.list = 1 .. Len(e.list)
      /\ \A k \in 1 .. Len(e.list) : e.list[k] \in Entry
      /\ e.offset \in Nat /\ e.rec \in [Id -> UndoRec]
      /\ e.saved # <<>> => e.saved \in [{1} -> Entry] /\ e.saved[1].data \in Pointer
  BY <1>1, Parts
<1>3. PICK r \in UndoRec : r = e.rec[h] /\ r.start <= r.end /\ r.next \in Pointer
  BY <1>1, <1>2, OfFacts DEF Sound
<1>4. PICK t \in Text : t = UndoneText(e.text, r)
  BY <1>2, <1>3, UndoneIs
<1>5. PICK p \in Nat : p = UndonePoint(e.text, e.point, r) /\ (PointIn(e) => p <= Len(t))
  <2>1. UndonePoint(e.text, e.point, r) \in Nat
    BY <1>2, <1>3, UndonePointNat
  <2>2. PointIn(e) => UndonePoint(e.text, e.point, r) \in 0 .. Len(UndoneText(e.text, r))
    <3>1. PointIn(e) => e.point \in 0 .. Len(e.text)
      BY <1>2, TextLen DEF PointIn
    <3> QED
      BY <1>2, <1>3, <3>1, UndoneIs
  <2> QED
    BY <1>4, <2>1, <2>2
<1>6. PICK b : b = [e EXCEPT !.text = t, !.point = p, !.undo = r.next]
  OBVIOUS
<1>7. /\ b \in Editor /\ b.text = t /\ b.point = p /\ b.undo = r.next /\ b.list = e.list
      /\ b.offset = e.offset /\ b.saved = e.saved /\ b.rec = e.rec
  BY <1>1, <1>3, <1>4, <1>5, <1>6 DEF Editor, Text
<1>8. PICK x \in Entry : x = [line |-> t, data |-> r.next]
  BY <1>3, <1>4 DEF Entry, Text
<1>9. PICK c : c = EntryTold(b, h)
  OBVIOUS
<1>10. /\ c \in Editor /\ c.text = t /\ c.point = p /\ c.undo = r.next
       /\ c.offset = e.offset /\ c.saved = e.saved /\ c.rec = e.rec
       /\ Len(c.list) = Len(e.list)
       /\ \A k \in 1 .. Len(e.list) : c.list[k] = EntryThen(e, h, t, k)
  <2>1. Place(e) = e.offset + 1 /\ (OnEntry(b) <=> e.offset < Len(e.list))
    BY <1>7 DEF Place, OnEntry
  <2>2. CASE OnEntry(b) /\ Current(b).data = h
    <3>1. Place(e) \in 1 .. Len(e.list) /\ e.list[Place(e)].data = h
      BY <1>2, <1>7, <2>1, <2>2 DEF Current
    <3>2. PICK l : l = [e.list EXCEPT ![e.offset + 1] = x]
      OBVIOUS
    <3>3. c = [b EXCEPT !.list = l]
      BY <1>7, <1>8, <1>9, <2>2, <3>2 DEF EntryTold
    <3>4. l \in Seq(Entry) /\ Len(l) = Len(e.list)
          /\ \A k \in 1 .. Len(e.list) : l[k] = IF k = Place(e) THEN x ELSE e.list[k]
      <4>1. e.offset + 1 \in 1 .. Len(e.list)
        BY <2>1, <3>1
      <4> QED
        BY <1>2, <2>1, <3>2, <4>1, ExceptSeq
    <3>5. /\ c \in Editor /\ c.text = t /\ c.point = p /\ c.undo = r.next
          /\ c.offset = e.offset /\ c.saved = e.saved /\ c.rec = e.rec /\ c.list = l
      BY <1>7, <3>3, <3>4 DEF Editor
    <3>6. \A k \in 1 .. Len(e.list) : l[k] = EntryThen(e, h, t, k)
      BY <1>3, <1>8, <3>1, <3>4 DEF EntryThen
    <3> QED
      BY <3>4, <3>5, <3>6
  <2>3. CASE ~(OnEntry(b) /\ Current(b).data = h)
    <3>1. c = b
      BY <1>9, <2>3 DEF EntryTold
    <3>2. \A k \in 1 .. Len(e.list) : k = Place(e) => OnEntry(b) /\ Current(b) = e.list[k]
      BY <1>2, <1>7, <2>1 DEF Current
    <3>3. \A k \in 1 .. Len(e.list) : EntryThen(e, h, t, k) = e.list[k]
      BY <2>3, <3>2 DEF EntryThen
    <3> QED
      BY <1>7, <3>1, <3>3
  <2> QED
    BY <2>2, <2>3
<1>11. h \in Of(e.rec, h) /\ h \notin Of(e.rec, r.next) /\ Of(e.rec, h) = {h} \cup Of(e.rec, r.next)
  BY <1>1, <1>3, OfFacts
<1>12. OthersTold(c, h) = c
  <2>1. r.next # h
    <3>1. r.next = h => h \in Of(e.rec, r.next)
      BY <1>11
    <3> QED
      BY <1>11, <3>1
  <2>2. \A k \in 1 .. Len(c.list) : c.list[k].data # h
    <3>1. \A k \in 1 .. Len(e.list) : k # Place(e) => e.list[k].data # h
      BY HeadAlone
    <3> QED
      BY <1>3, <1>10, <2>1, <3>1 DEF EntryThen
  <2>3. ASSUME e.saved # <<>>
        PROVE  e.saved[1].data # h /\ \A i \in On(c, c.saved[1].data) : c.rec[i].next # h
    <3>1. PICK q \in Pointer : q = e.saved[1].data
      BY <1>2, <2>3
    <3>2. q = Heads(e)[0]
      BY <1>1, <2>3, <3>1, HeadsAre
    <3>3. 0 \in 0 .. Len(e.list) /\ 0 # Place(e)
      BY <1>2 DEF Place
    <3>4. h \notin Of(e.rec, q)
      BY <3>2, <3>3, HeadAlone
    <3>5. q # h
      BY <1>11, <3>4
    <3>6. Sound(c.rec) /\ c.rec = e.rec
      BY <1>1, <1>10
    <3>7. On(c, q) = Of(e.rec, q)
      BY <3>6, OnOf
    <3>8. ASSUME NEW i \in Of(e.rec, q), e.rec[i].next = h PROVE FALSE
      <4>1. i \in Id /\ Of(e.rec, i) \subseteq Of(e.rec, q)
        BY <1>1, OfFacts
      <4>2. h \in Of(e.rec, i)
        BY <1>1, <1>11, <3>8, <4>1, OfFacts
      <4> QED
        BY <3>4, <4>1, <4>2
    <3> QED
      BY <1>10, <3>1, <3>5, <3>7, <3>8
  <2> QED
    BY <1>10, <2>2, <2>3, NobodyTold
<1>13. d = [c EXCEPT !.rec[h] = Free]
  <2>1. UndoRecord(e) = [OthersTold(EntryTold(b, h), h) EXCEPT !.rec[h] = Free]
    BY <1>3, <1>4, <1>5, <1>6 DEF UndoRecord
  <2> QED
    BY <1>9, <1>12, <2>1
<1>14. PICK f : f = [i \in Id |-> IF i \in {h} THEN Free ELSE e.rec[i]]
  OBVIOUS
<1>15. f \in [Id -> UndoRec]
  <2>1. Sound(f)
    BY <1>1, <1>14, FreedSound
  <2> QED
    BY <2>1 DEF Sound
<1>16. [c.rec EXCEPT ![h] = Free] = f
  BY <1>2, <1>10, <1>14
<1>17. d = [c EXCEPT !.rec = f]
  BY <1>13, <1>16
<1>18. /\ d \in Editor /\ d.text = t /\ d.point = p /\ d.undo = r.next /\ d.list = c.list
       /\ d.offset = e.offset /\ d.saved = e.saved /\ d.rec = f
  BY <1>10, <1>15, <1>17 DEF Editor, UndoRec, Text
<1> QED
  BY <1>3, <1>4, <1>5, <1>10, <1>14, <1>18 DEF PointIn

-----------------------------------------------------------------------------
(* What undoing comes past *)

\* A set of pointers and texts that has, with every record and a text, the next
\* pointer and the text that undoing the record gives.
GoesOn(rec, X) ==
  \A i \in Id : \A x : <<i, x>> \in X => <<rec[i].next, UndoneText(x, rec[i])>> \in X

\* Undoing the records from pointer p on, text t comes to text l at pointer q.
Reaches(rec, p, t, q, l) == \A X : <<p, t>> \in X /\ GoesOn(rec, X) => <<q, l>> \in X

\* A pointer is reached from itself.
LEMMA ReachesItself ==
  ASSUME NEW rec, NEW p, NEW t
  PROVE  Reaches(rec, p, t, p, t)
BY DEF Reaches

\* A pointer reaches itself with no other text.
LEMMA ReachesOnce ==
  ASSUME NEW rec, Sound(rec), NEW p \in Pointer, NEW t \in Text, NEW l, Reaches(rec, p, t, p, l)
  PROVE  t = l
<1>1. CASE p = NULL
  <2>1. GoesOn(rec, {<<p, t>>})
    BY <1>1, Pointers DEF GoesOn
  <2> QED
    BY <2>1 DEF Reaches
<1>2. CASE p # NULL
  <2>1. p \in Id /\ rec[p].next \in Pointer
    BY <1>2, Pointers, OfFacts
  <2>2. PICK after : after = Of(rec, rec[p].next)
    OBVIOUS
  <2>3. p \notin after /\ after \subseteq Id
    BY <2>1, <2>2, OfFacts
  <2>4. \A q \in Pointer : q # NULL => q \in Of(rec, q)
    BY Pointers, OfFacts
  <2>5. ASSUME NEW i \in after PROVE rec[i].next \in after \cup {NULL}
    <3>1. i \in Id /\ rec[i].next \in Pointer
      BY <2>3, OfFacts
    <3>2. Of(rec, i) \subseteq after /\ Of(rec, i) = {i} \cup Of(rec, rec[i].next)
      BY <2>1, <2>2, <3>1, OfFacts
    <3> QED
      BY <2>4, <3>1, <3>2
  <2>6. rec[p].next \in after \cup {NULL}
    BY <2>1, <2>2, <2>4
  <2>7. \A i \in Id : \A x \in Text : UndoneText(x, rec[i]) \in Text
    BY UndoneIs DEF Sound
  <2>8. PICK X : X = {<<p, t>>} \cup ((after \cup {NULL}) \X Text)
    OBVIOUS
  <2>9. GoesOn(rec, X)
    <3> SUFFICES ASSUME NEW i \in Id, NEW x, <<i, x>> \in X
                 PROVE  <<rec[i].next, UndoneText(x, rec[i])>> \in X
      BY DEF GoesOn
    <3>1. i # NULL
      BY Pointers
    <3>2. x \in Text /\ rec[i].next \in after \cup {NULL}
      BY <2>5, <2>6, <2>8, <3>1
    <3> QED
      BY <2>7, <2>8, <3>2
  <2>10. <<p, l>> \in X
    BY <2>8, <2>9 DEF Reaches
  <2> QED
    BY <1>2, <2>3, <2>8, <2>10
<1> QED
  BY <1>1, <1>2

\* What the next pointer reaches, with the text undone once, is reached.
LEMMA ReachesMore ==
  ASSUME NEW rec, NEW p \in Id, NEW t, NEW q, NEW l,
         Reaches(rec, rec[p].next, UndoneText(t, rec[p]), q, l)
  PROVE  Reaches(rec, p, t, q, l)
BY DEF Reaches, GoesOn

\* No other pointer is reached than itself and what its next reaches.
LEMMA ReachesRest ==
  ASSUME NEW rec, NEW p \in Id, NEW t, NEW q, NEW l, p # q, Reaches(rec, p, t, q, l)
  PROVE  Reaches(rec, rec[p].next, UndoneText(t, rec[p]), q, l)
<1> SUFFICES ASSUME NEW X, <<rec[p].next, UndoneText(t, rec[p])>> \in X, GoesOn(rec, X)
             PROVE  <<q, l>> \in X
  BY DEF Reaches
<1>1. PICK Y : Y = X \cup {<<p, t>>}
  OBVIOUS
<1>2. GoesOn(rec, Y)
  BY <1>1 DEF GoesOn
<1>3. <<q, l>> \in Y
  BY <1>1, <1>2 DEF Reaches
<1> QED
  BY <1>1, <1>3

\* Records that stay as they are reach what they reached.
LEMMA SameReaches ==
  ASSUME NEW rec, Sound(rec), NEW p \in Pointer, NEW new,
         \A i \in Of(rec, p) : new[i] = rec[i], NEW t, NEW q, NEW l, Reaches(rec, p, t, q, l)
  PROVE  Reaches(new, p, t, q, l)
<1> SUFFICES ASSUME NEW X, <<p, t>> \in X, GoesOn(new, X)
             PROVE  <<q, l>> \in X
  BY DEF Reaches
<1>1. PICK Y : Y = {y \in X : y[1] \in Of(rec, p) \cup {NULL}}
  OBVIOUS
<1>2. \A i \in Pointer : i # NULL => i \in Of(rec, i)
  BY Pointers, OfFacts
<1>3. <<p, t>> \in Y
  BY <1>1, <1>2
<1>4. GoesOn(rec, Y)
  <2> SUFFICES ASSUME NEW i \in Id, NEW x, <<i, x>> \in Y
               PROVE  <<rec[i].next, UndoneText(x, rec[i])>> \in Y
    BY DEF GoesOn
  <2>1. i \in Of(rec, p) /\ <<i, x>> \in X
    BY <1>1, Pointers
  <2>2. <<rec[i].next, UndoneText(x, rec[i])>> \in X
    BY <2>1 DEF GoesOn
  <2>3. rec[i].next \in Of(rec, p) \cup {NULL}
    <3>1. rec[i].next \in Pointer /\ Of(rec, i) \subseteq Of(rec, p)
          /\ Of(rec, i) = {i} \cup Of(rec, rec[i].next)
      BY <2>1, OfFacts
    <3> QED
      BY <1>2, <3>1
  <2> QED
    BY <1>1, <2>2, <2>3
<1>5. <<q, l>> \in Y
  BY <1>3, <1>4 DEF Reaches
<1> QED
  BY <1>1, <1>5

-----------------------------------------------------------------------------
\* Undoing a text of the line in view comes to what its entry holds.
Meets(e, t) ==
  OnEntry(e) => Reaches(e.rec, e.undo, t, e.list[Place(e)].data, e.list[Place(e)].line)

\* It still does when a record is undone.
LEMMA UndoRecordMeets ==
  ASSUME NEW e, NEW w, InOrder(e, w), NEW h \in Id, h = e.undo, NEW d, d = UndoRecord(e),
         Meets(e, e.text)
  PROVE  Meets(d, d.text)
<1> SUFFICES ASSUME OnEntry(d)
             PROVE  Reaches(d.rec, d.undo, d.text, d.list[Place(d)].data, d.list[Place(d)].line)
  BY DEF Meets
<1>1. /\ e \in Editor /\ Sound(e.rec) /\ e.offset <= Len(e.list)
      /\ e.offset \in Nat /\ Len(e.list) \in Nat
  BY Parts DEF InOrder
<1>2. PICK r \in UndoRec : r = e.rec[h] /\ r.next \in Pointer
  BY <1>1, OfFacts DEF Sound
<1>3. /\ d.text = UndoneText(e.text, r) /\ d.undo = r.next
      /\ d.offset = e.offset
      /\ d.rec = [i \in Id |-> IF i \in {h} THEN Free ELSE e.rec[i]]
      /\ Len(d.list) = Len(e.list)
      /\ \A k \in 1 .. Len(e.list) : d.list[k] = EntryThen(e, h, d.text, k)
  BY <1>2, UndoRecordIs
<1>4. Place(d) = Place(e) /\ OnEntry(e) /\ Place(e) \in 1 .. Len(e.list)
  BY <1>1, <1>3 DEF Place, OnEntry
<1>5. CASE e.list[Place(e)].data = h
  <2>1. d.list[Place(d)] = [line |-> d.text, data |-> r.next]
    BY <1>2, <1>3, <1>4, <1>5 DEF EntryThen
  <2>2. d.list[Place(d)].data = d.undo /\ d.list[Place(d)].line = d.text
    BY <1>3, <2>1
  <2>3. Reaches(d.rec, d.undo, d.text, d.undo, d.text)
    BY ReachesItself
  <2> QED
    BY <2>2, <2>3
<1>6. CASE e.list[Place(e)].data # h
  <2>1. d.list[Place(d)] = e.list[Place(e)]
    BY <1>3, <1>4, <1>6 DEF EntryThen
  <2>2. Reaches(e.rec, h, e.text, e.list[Place(e)].data, e.list[Place(e)].line)
    BY <1>4 DEF Meets
  <2>3. Reaches(e.rec, r.next, UndoneText(e.text, r), e.list[Place(e)].data, e.list[Place(e)].line)
    BY <1>2, <1>6, <2>2, ReachesRest
  <2>4. \A i \in Of(e.rec, r.next) : d.rec[i] = e.rec[i]
    BY <1>1, <1>2, <1>3, OfFacts
  <2>5. Reaches(d.rec, r.next, UndoneText(e.text, r), e.list[Place(e)].data, e.list[Place(e)].line)
    BY <1>1, <1>2, <2>3, <2>4, SameReaches
  <2> QED
    BY <1>3, <2>1, <2>5
<1> QED
  BY <1>5, <1>6

-----------------------------------------------------------------------------
(* Undo and revert-line *)

\* A record less in use is a record less in the list of the line and of its entry.
LEMMA ApartLess ==
  ASSUME NEW n, NEW at, NEW U, NEW L, NEW W, NEW used, Apart(n, at, U, L, W, used),
         NEW h, h \in U, NEW M, M = [k \in 0 .. n |-> L[k] \ {h}]
  PROVE  Apart(n, at, U \ {h}, M, W, used \ {h})
<1>1. \A k \in 0 .. n : M[k] = L[k] \ {h}
  OBVIOUS
<1> QED
  BY <1>1 DEF Apart

\* What undoing changes in no other line: the places, the saved line, every line
\* but that of the entry in view, and entries that have no list.
OthersStay(e, d) ==
  /\ d.offset = e.offset /\ d.saved = e.saved /\ Len(d.list) = Len(e.list)
  /\ \A k \in 1 .. Len(e.list) :
       /\ e.list[k].data = NULL => d.list[k] = e.list[k]
       /\ k # Place(e) => d.list[k].line = e.list[k].line

\* What is changed in no other line twice is changed in none.
LEMMA OthersStayOn ==
  ASSUME NEW e, NEW d, NEW c, OthersStay(e, d), OthersStay(d, c)
  PROVE  OthersStay(e, c)
<1>1. Place(d) = Place(e)
  BY DEF OthersStay, Place
<1>2. Len(c.list) = Len(e.list) /\ Len(d.list) = Len(e.list)
  BY DEF OthersStay
<1>3. \A k \in 1 .. Len(e.list) : e.list[k].data = NULL => c.list[k] = e.list[k]
  BY <1>2 DEF OthersStay
<1>4. \A k \in 1 .. Len(e.list) : k # Place(e) => c.list[k].line = e.list[k].line
  BY <1>1, <1>2 DEF OthersStay
<1> QED
  BY <1>2, <1>3, <1>4 DEF OthersStay

\* Undoing a record keeps the memory in order, and what the lines give back.
LEMMA UndoRecordInOrder ==
  ASSUME NEW e, NEW w, InOrder(e, w), NEW h \in Id, h = e.undo, NEW d, d = UndoRecord(e)
  PROVE  /\ InOrder(d, w) /\ OthersStay(e, d)
         /\ PointIn(e) => PointIn(d)
         /\ InUse(d.rec) = InUse(e.rec) \ {h} /\ h \in InUse(e.rec)
         /\ \A o, u : /\ Gives(e, o) /\ LineTakes(e, e.text, u)
                      /\ Place(e) \in 1 .. Len(e.list) /\ e.list[Place(e)].data = h => u = o[Place(e)]
                      => Gives(d, o) /\ LineTakes(d, d.text, u)
<1>1. /\ e \in Editor /\ Sound(e.rec) /\ w \in Pointer /\ e.offset <= Len(e.list)
      /\ OnEntry(e) <=> e.saved # <<>>
      /\ Apart(Len(e.list), Place(e), Of(e.rec, e.undo), Lists(e), Of(e.rec, w), InUse(e.rec))
  BY DEF InOrder
<1>2. PICK r \in UndoRec : r = e.rec[h] /\ r.start <= r.end /\ r.next \in Pointer
  BY <1>1, OfFacts DEF Sound
<1>3. /\ d \in Editor /\ d.text = UndoneText(e.text, r) /\ d.undo = r.next
      /\ d.offset = e.offset /\ d.saved = e.saved
      /\ d.rec = [i \in Id |-> IF i \in {h} THEN Free ELSE e.rec[i]]
      /\ Len(d.list) = Len(e.list)
      /\ \A k \in 1 .. Len(e.list) : d.list[k] = EntryThen(e, h, d.text, k)
      /\ PointIn(e) => PointIn(d)
  BY <1>2, UndoRecordIs
<1>4. Sound(d.rec)
  <2>1. \A rec, F, new : Sound(rec) /\ new = [i \in Id |-> IF i \in F THEN Free ELSE rec[i]]
                         => Sound(new)
    BY FreedSound
  <2>2. Sound(e.rec)
    BY <1>1
  <2>3. d.rec = [i \in Id |-> IF i \in {h} THEN Free ELSE e.rec[i]]
    BY <1>3
  <2> HIDE DEF Free, Id
  <2> QED
    BY ONLY <2>1, <2>2, <2>3
<1>5. h \in Of(e.rec, h) /\ h \notin Of(e.rec, r.next) /\ Of(e.rec, h) = {h} \cup Of(e.rec, r.next)
  BY <1>1, <1>2, OfFacts
<1>6. \A p \in Pointer : h \notin Of(e.rec, p) => \A i \in Of(e.rec, p) : d.rec[i] = e.rec[i]
  BY <1>1, <1>3, OfFacts
<1>7. \A p \in Pointer : h \notin Of(e.rec, p) => Of(d.rec, p) = Of(e.rec, p)
  <2> SUFFICES ASSUME NEW p \in Pointer, h \notin Of(e.rec, p)
               PROVE  Of(d.rec, p) = Of(e.rec, p)
    OBVIOUS
  <2>1. \A i \in Of(e.rec, p) : d.rec[i].next = e.rec[i].next
    BY <1>6
  <2> QED
    BY <1>1, <1>4, <2>1, SameOf
<1>8. \A p \in Pointer : h \notin Of(e.rec, p) => \A t, u : Takes(e.rec, p, t, u) => Takes(d.rec, p, t, u)
  BY <1>1, <1>6, SameTakes
<1>9. /\ \A k \in 0 .. Len(e.list) : Heads(e)[k] \in Pointer /\ Lists(e)[k] = Of(e.rec, Heads(e)[k])
      /\ \A k \in 1 .. Len(e.list) : Heads(e)[k] = e.list[k].data
      /\ Heads(e)[0] = IF e.saved = <<>> THEN NULL ELSE e.saved[1].data
      /\ Len(e.list) \in Nat /\ Place(e) # 0
  BY <1>1, Parts, HeadsAre DEF Place
<1>10. /\ \A k \in 0 .. Len(e.list) : Heads(d)[k] \in Pointer /\ Lists(d)[k] = Of(d.rec, Heads(d)[k])
       /\ \A k \in 1 .. Len(e.list) : Heads(d)[k] = d.list[k].data
       /\ Heads(d)[0] = IF e.saved = <<>> THEN NULL ELSE e.saved[1].data
  BY <1>3, HeadsAre
<1>11. /\ \A k \in 0 .. Len(e.list) : k # Place(e) => h \notin Of(e.rec, Heads(e)[k])
       /\ h \notin Of(e.rec, w)
       /\ \A k \in 1 .. Len(e.list) : k # Place(e) => e.list[k].data # h
       /\ Place(e) \in 1 .. Len(e.list) /\ e.list[Place(e)].data # h
            => h \notin Of(e.rec, Heads(e)[Place(e)])
  BY HeadAlone
<1>12. \A k \in 0 .. Len(e.list) : Lists(d)[k] = Lists(e)[k] \ {h}
  <2> SUFFICES ASSUME NEW k \in 0 .. Len(e.list) PROVE Lists(d)[k] = Lists(e)[k] \ {h}
    OBVIOUS
  <2>1. CASE k = 0
    BY <1>7, <1>9, <1>10, <1>11, <2>1
  <2>2. CASE k # 0 /\ k = Place(e) /\ e.list[k].data = h
    <3>1. k \in 1 .. Len(e.list)
      BY <1>9, <2>2
    <3>2. d.list[k] = [line |-> d.text, data |-> r.next]
      BY <1>2, <1>3, <2>2, <3>1 DEF EntryThen
    <3>3. Heads(d)[k] = r.next /\ Heads(e)[k] = h
      BY <1>9, <1>10, <2>2, <3>1, <3>2
    <3>4. Lists(d)[k] = Of(e.rec, r.next)
      BY <1>2, <1>5, <1>7, <1>10, <3>3
    <3> QED
      BY <1>5, <1>9, <3>3, <3>4
  <2>3. CASE k # 0 /\ ~(k = Place(e) /\ e.list[k].data = h)
    <3>1. k \in 1 .. Len(e.list)
      BY <1>9, <2>3
    <3>2. d.list[k] = e.list[k]
      BY <1>3, <2>3, <3>1 DEF EntryThen
    <3>3. Heads(d)[k] = Heads(e)[k]
      BY <1>9, <1>10, <3>1, <3>2
    <3>4. h \notin Of(e.rec, Heads(e)[k])
      BY <1>11, <2>3, <3>1
    <3> QED
      BY <1>7, <1>9, <1>10, <3>3, <3>4
  <2> QED
    BY <2>1, <2>2, <2>3
<1>13. Lists(d) = [k \in 0 .. Len(e.list) |-> Lists(e)[k] \ {h}]
  <2>1. Lists(d) = [k \in 0 .. Len(e.list) |-> Lists(d)[k]]
    BY <1>3 DEF Lists
  <2> QED
    BY <1>12, <2>1
<1>14. Of(d.rec, d.undo) = Of(e.rec, e.undo) \ {h} /\ Of(d.rec, w) = Of(e.rec, w)
  BY <1>1, <1>2, <1>3, <1>5, <1>7, <1>11
<1>15. InUse(d.rec) = InUse(e.rec) \ {h} /\ h \in InUse(e.rec)
  <2>1. \A i \in Id : d.rec[i].what = IF i = h THEN "free" ELSE e.rec[i].what
    BY <1>3 DEF Free
  <2>2. h \in Of(e.rec, e.undo)
    BY <1>5
  <2>3. h \in InUse(e.rec)
    BY <1>1, <2>2 DEF Apart
  <2> QED
    BY <2>1, <2>3 DEF InUse
<1>16. InOrder(d, w)
  <2>1. Apart(Len(e.list), Place(e), Of(e.rec, e.undo) \ {h}, Lists(d), Of(e.rec, w),
              InUse(e.rec) \ {h})
    <3>1. h \in Of(e.rec, e.undo)
      BY <1>5
    <3> QED
      BY <1>1, <1>13, <3>1, ApartLess
  <2>2. Place(d) = Place(e) /\ (OnEntry(d) <=> OnEntry(e))
    BY <1>3 DEF Place, OnEntry
  <2> QED
    BY <1>1, <1>3, <1>4, <1>14, <1>15, <2>1, <2>2 DEF InOrder
<1>17. ASSUME NEW o, NEW u, Gives(e, o), LineTakes(e, e.text, u),
              Place(e) \in 1 .. Len(e.list) /\ e.list[Place(e)].data = h => u = o[Place(e)]
       PROVE  Gives(d, o) /\ LineTakes(d, d.text, u)
  <2>1. Takes(d.rec, r.next, d.text, u)
    <3>1. Takes(e.rec, r.next, UndoneText(e.text, r), u)
      BY <1>1, <1>2, <1>17, SoundLinked, TakesRest DEF LineTakes
    <3> QED
      BY <1>2, <1>3, <1>5, <1>8, <3>1
  <2>2. ASSUME NEW k \in 1 .. Len(e.list)
        PROVE  Takes(d.rec, d.list[k].data, d.list[k].line, o[k])
    <3>1. CASE k = Place(e) /\ e.list[k].data = h
      <4>1. d.list[k] = [line |-> d.text, data |-> r.next]
        BY <1>2, <1>3, <3>1 DEF EntryThen
      <4> QED
        BY <1>17, <2>1, <3>1, <4>1
    <3>2. CASE ~(k = Place(e) /\ e.list[k].data = h)
      <4>1. d.list[k] = e.list[k]
        BY <1>3, <3>2 DEF EntryThen
      <4>2. k \in 0 .. Len(e.list)
        BY <1>9
      <4>3. e.list[k].data \in Pointer /\ h \notin Of(e.rec, e.list[k].data)
        BY <1>9, <1>11, <3>2, <4>2
      <4>4. Takes(e.rec, e.list[k].data, e.list[k].line, o[k])
        BY <1>17 DEF Gives
      <4> QED
        BY <1>8, <4>1, <4>3, <4>4
    <3> QED
      BY <3>1, <3>2
  <2>3. ASSUME e.saved # <<>> PROVE Takes(d.rec, e.saved[1].data, e.saved[1].line, o[0])
    <3>1. 0 \in 0 .. Len(e.list)
      BY <1>9
    <3>2. e.saved[1].data \in Pointer /\ h \notin Of(e.rec, e.saved[1].data)
      BY <1>9, <1>11, <2>3, <3>1
    <3>3. Takes(e.rec, e.saved[1].data, e.saved[1].line, o[0])
      BY <1>17, <2>3 DEF Gives
    <3> QED
      BY <1>8, <3>2, <3>3
  <2> QED
    BY <1>3, <2>1, <2>2, <2>3 DEF Gives, LineTakes
<1>18. OthersStay(e, d)
  <2>1. h # NULL
    BY Pointers
  <2> QED
    BY <1>3, <2>1 DEF OthersStay, EntryThen
<1> QED
  BY <1>3, <1>15, <1>16, <1>17, <1>18

-----------------------------------------------------------------------------
\* d is e with some records undone: in order, with the line still coming to what
\* its entry holds, the lines giving back o and the line in view u, unless a
\* character was merged (m).
Undone(e, d, w, o, u, m) ==
  /\ InOrder(d, w)
  /\ PointIn(e) => PointIn(d)
  /\ Meets(e, e.text) => Meets(d, d.text)
  /\ OthersStay(e, d)
  /\ ~m => Gives(d, o) /\ LineTakes(d, d.text, u)

\* An entry in view that has a list gives back what the line gives back.
SharesText(e, o, u, m) ==
  ~m /\ Place(e) \in 1 .. Len(e.list) /\ e.list[Place(e)].data # NULL => u = o[Place(e)]

\* One record more undone, and one less in use.
LEMMA OneMoreUndone ==
  ASSUME NEW e, NEW d, NEW w, NEW o, NEW u, NEW m, SharesText(e, o, u, m),
         Undone(e, d, w, o, u, m), d.undo # NULL
  PROVE  /\ Undone(e, UndoRecord(d), w, o, u, m)
         /\ d.undo \in InUse(d.rec)
         /\ InUse(UndoRecord(d).rec) = InUse(d.rec) \ {d.undo}
<1>1. InOrder(d, w) /\ d \in Editor /\ d.undo \in Pointer /\ OthersStay(e, d) /\ Sound(d.rec)
  BY Parts DEF Undone, InOrder
<1>2. PICK h \in Id : h = d.undo
  BY <1>1, Pointers
<1>3. PICK c : c = UndoRecord(d)
  OBVIOUS
<1>4. Place(d) = Place(e) /\ Len(d.list) = Len(e.list)
  BY <1>1 DEF OthersStay, Place
<1>5. h # NULL
  BY <1>2, Pointers
<1>6. /\ InOrder(c, w) /\ OthersStay(d, c)
      /\ PointIn(d) => PointIn(c)
      /\ InUse(c.rec) = InUse(d.rec) \ {h} /\ h \in InUse(d.rec)
  BY <1>1, <1>2, <1>3, UndoRecordInOrder
<1>7. OthersStay(e, c)
  BY <1>1, <1>6, OthersStayOn
<1>8. Gives(d, o) /\ LineTakes(d, d.text, u)
      /\ (Place(d) \in 1 .. Len(d.list) /\ d.list[Place(d)].data = h => u = o[Place(d)])
         => Gives(c, o) /\ LineTakes(c, c.text, u)
  BY <1>1, <1>2, <1>3, UndoRecordInOrder
<1>9. ASSUME ~m PROVE Gives(c, o) /\ LineTakes(c, c.text, u)
  <2>1. Gives(d, o) /\ LineTakes(d, d.text, u)
    BY <1>9 DEF Undone
  <2>2. ASSUME Place(d) \in 1 .. Len(d.list), d.list[Place(d)].data = h PROVE u = o[Place(d)]
    <3>1. e.list[Place(e)].data # NULL
      BY <1>1, <1>4, <1>5, <2>2 DEF OthersStay
    <3> QED
      BY <1>4, <1>9, <2>2, <3>1 DEF SharesText
  <2> QED
    BY <1>8, <2>1, <2>2
<1>10. Meets(d, d.text) => Meets(c, c.text)
  BY <1>1, <1>2, <1>3, UndoRecordMeets
<1>11. Undone(e, c, w, o, u, m)
  BY <1>6, <1>7, <1>9, <1>10 DEF Undone
<1> QED
  BY <1>2, <1>3, <1>6, <1>11

\* A memory holds so many records.
LEMMA InUseNumber ==
  ASSUME NEW rec
  PROVE  /\ IsFiniteSet(InUse(rec))
         /\ Cardinality(InUse(rec)) \in Nat /\ Cardinality(InUse(rec)) <= MaxRecords
         /\ \A h \in InUse(rec) : Cardinality(InUse(rec) \ {h}) = Cardinality(InUse(rec)) - 1
         /\ Cardinality(InUse(rec)) = 0 => InUse(rec) = {}
<1>1. MaxRecords \in Nat
  BY Pointers
<1>2. IsFiniteSet(Id) /\ Cardinality(Id) = MaxRecords
  BY <1>1, FS_Interval DEF Id
<1>3. InUse(rec) \in SUBSET Id
  BY DEF InUse
<1>4. IsFiniteSet(InUse(rec)) /\ Cardinality(InUse(rec)) <= MaxRecords
  BY <1>2, <1>3, FS_Subset
<1>5. Cardinality(InUse(rec)) \in Nat
  BY <1>4, FS_CardinalityType
<1> QED
  BY <1>4, <1>5, FS_RemoveElement, FS_EmptySet

\* Undo undoes records, at least one.
LEMMA UndoUndoes ==
  ASSUME NEW e, NEW d, NEW w, NEW o, NEW u, NEW m, SharesText(e, o, u, m),
         Undone(e, d, w, o, u, m), d.undo # NULL
  PROVE  /\ Undone(e, DoUndo(d), w, o, u, m)
         /\ Cardinality(InUse(DoUndo(d).rec)) <= Cardinality(InUse(d.rec)) - 1
<1>1. PICK n \in Int : n = Cardinality(InUse(d.rec)) - 1
  BY InUseNumber
<1>2. PICK S : S = {x \in Editor : Undone(e, x, w, o, u, m) /\ Cardinality(InUse(x.rec)) <= n}
  OBVIOUS
<1>3. \A x : Undone(e, x, w, o, u, m) => x \in Editor
  BY DEF Undone, InOrder
<1>4. d.undo \in Id
  BY <1>3, Parts, Pointers
<1>5. ASSUME NEW x, Undone(e, x, w, o, u, m), x.undo # NULL, Cardinality(InUse(x.rec)) <= n + 1
      PROVE  UndoRecord(x) \in S
  <2>1. Undone(e, UndoRecord(x), w, o, u, m)
    BY <1>5, OneMoreUndone
  <2>2. x.undo \in InUse(x.rec) /\ InUse(UndoRecord(x).rec) = InUse(x.rec) \ {x.undo}
    BY <1>5, OneMoreUndone
  <2>3. Cardinality(InUse(UndoRecord(x).rec)) = Cardinality(InUse(x.rec)) - 1
    BY <2>2, InUseNumber
  <2>4. Cardinality(InUse(x.rec)) \in Nat
    BY InUseNumber
  <2>5. Cardinality(InUse(UndoRecord(x).rec)) <= n
    BY <1>1, <1>5, <2>3, <2>4
  <2> QED
    BY <1>2, <1>3, <2>1, <2>5
<1>6. UndoRecord(d) \in S
  <2>1. Cardinality(InUse(d.rec)) <= n + 1
    BY <1>1, InUseNumber
  <2> QED
    BY <1>5, <2>1
<1>7. ASSUME NEW x \in S, x.undo # NULL PROVE UndoRecord(x) \in S
  <2>1. Undone(e, x, w, o, u, m) /\ Cardinality(InUse(x.rec)) <= n
    BY <1>2
  <2>2. Cardinality(InUse(x.rec)) <= n + 1
    BY <1>1, <2>1, InUseNumber
  <2> QED
    BY <1>5, <1>7, <2>1, <2>2
<1>8. DoUndo(d) \in S
  BY <1>4, <1>6, <1>7, DoUndoStays
<1> QED
  BY <1>1, <1>2, <1>8

\* revert-line undoes all of them.
LEMMA RevertUndoesAll ==
  ASSUME NEW e, NEW w, NEW o, NEW u, NEW m, SharesText(e, o, u, m), Undone(e, e, w, o, u, m)
  PROVE  Undone(e, RevertLine(e), w, o, u, m) /\ RevertLine(e).undo = NULL
<1>1. PICK S : S = {x \in Editor : Undone(e, x, w, o, u, m)}
  OBVIOUS
<1>2. \A x : Undone(e, x, w, o, u, m) <=> x \in S
  BY <1>1 DEF Undone, InOrder
<1>3. PICK T : T = [k \in 0 .. MaxRecords |->
                      {x \in S : x.undo = NULL \/ Cardinality(InUse(x.rec)) <= MaxRecords - k}]
  OBVIOUS
<1>4. MaxRecords \in Nat
  BY Pointers
<1>5. e \in S /\ e \in T[0]
  BY <1>2, <1>3, <1>4, InUseNumber
<1>6. ASSUME NEW d \in S PROVE RevertRound(d) \in S
  BY <1>2, UndoUndoes DEF RevertRound
<1>7. ASSUME NEW k \in Id, NEW d \in S, d \in T[k - 1] PROVE RevertRound(d) \in T[k]
  <2>1. k - 1 \in 0 .. MaxRecords /\ k \in 0 .. MaxRecords
    BY <1>4 DEF Id
  <2>2. d.undo = NULL \/ Cardinality(InUse(d.rec)) <= MaxRecords - (k - 1)
    BY <1>3, <1>7, <2>1
  <2>3. CASE d.undo = NULL
    <3>1. RevertRound(d) = d
      BY <2>3 DEF RevertRound
    <3> QED
      BY <1>3, <2>1, <2>3, <3>1
  <2>4. CASE d.undo # NULL
    <3>1. PICK c \in S : c = RevertRound(d) /\ c = DoUndo(d)
      BY <1>6, <2>4 DEF RevertRound
    <3>2. Cardinality(InUse(c.rec)) <= Cardinality(InUse(d.rec)) - 1
      BY <1>2, <2>4, <3>1, UndoUndoes
    <3>3. Cardinality(InUse(c.rec)) \in Nat /\ Cardinality(InUse(d.rec)) \in Nat
      BY InUseNumber
    <3>4. Cardinality(InUse(c.rec)) <= MaxRecords - k
      BY <1>4, <2>1, <2>2, <2>4, <3>2, <3>3
    <3> QED
      BY <1>3, <2>1, <3>1, <3>4
  <2> QED
    BY <2>3, <2>4
<1>8. RevertLine(e) \in S /\ RevertLine(e) \in T[MaxRecords]
  BY <1>5, <1>6, <1>7, RevertLineStays
<1>9. PICK d \in S : d = RevertLine(e)
  BY <1>8
<1>10. d.undo = NULL \/ Cardinality(InUse(d.rec)) <= MaxRecords - MaxRecords
  BY <1>3, <1>4, <1>8, <1>9
<1>11. d.undo = NULL
  <2> SUFFICES ASSUME d.undo # NULL PROVE FALSE
    OBVIOUS
  <2>1. Cardinality(InUse(d.rec)) = 0
    BY <1>4, <1>10, InUseNumber
  <2>2. d.undo \in InUse(d.rec)
    BY <1>2, OneMoreUndone
  <2> QED
    BY <2>1, <2>2, InUseNumber
<1> QED
  BY <1>2, <1>9, <1>11

-----------------------------------------------------------------------------
(* The inductive invariant, and the commands that undo *)

\* What undoing the line in view gives back.
Origin(e, o) == IF OnEntry(e) THEN o[Place(e)] ELSE o[0]

\* The line in view, and the lines that are not, as the user last saw them.
Shows(e, v) ==
  /\ e.text = v[Place(e)]
  /\ \A k \in 1 .. Len(e.list) : k # Place(e) => e.list[k].line = v[k]
  /\ OnEntry(e) => e.saved[1].line = v[Len(e.list) + 1]

\* The entries were added as o, and the user last saw the lines as v.
Tells(e, o, v) ==
  /\ Gives(e, o) /\ LineTakes(e, e.text, Origin(e, o))
  /\ Meets(e, e.text) /\ Shows(e, v)

\* The inductive invariant, of an editor and the history of what was done.
Kept(e, o, v, m) ==
  /\ InOrder(e, NULL)
  /\ PointIn(e)
  /\ ~m => Tells(e, o, v)

\* Where the line in view is.
LEMMA PlaceIs ==
  ASSUME NEW e \in Editor, e.offset <= Len(e.list)
  PROVE  /\ Place(e) \in 1 .. Len(e.list) + 1
         /\ OnEntry(e) <=> Place(e) \in 1 .. Len(e.list)
         /\ ~OnEntry(e) <=> Place(e) = Len(e.list) + 1
BY Parts DEF Place, OnEntry

\* The memory is in order, and the records give back the lines, with t for the
\* text in view.
Holds(e, t, o, u, m) ==
  /\ InOrder(e, NULL)
  /\ ~m => Gives(e, o) /\ LineTakes(e, t, u) /\ Meets(e, t)

\* A change of the line in view, seen by the user, leaves the other lines as they are.
LEMMA EditKept ==
  ASSUME NEW e, NEW o, NEW v, NEW m, Kept(e, o, v, m), DOMAIN v = 1 .. Len(e.list) + 1,
         NEW d, NEW n, Holds(d, d.text, o, Origin(e, o), n), m => n,
         OthersStay(e, d), PointIn(d)
  PROVE  Kept(d, o, [v EXCEPT ![Place(e)] = d.text], n)
<1>1. e \in Editor /\ e.offset <= Len(e.list) /\ Len(e.list) \in Nat
  BY Parts DEF Kept, InOrder
<1>2. /\ Place(d) = Place(e) /\ (OnEntry(d) <=> OnEntry(e)) /\ Origin(d, o) = Origin(e, o)
      /\ Len(d.list) = Len(e.list) /\ d.saved = e.saved
  BY DEF OthersStay, Place, OnEntry, Origin
<1>3. /\ Place(e) \in DOMAIN v /\ \A k \in 1 .. Len(e.list) : k \in DOMAIN v
      /\ Len(e.list) + 1 \in DOMAIN v
      /\ OnEntry(e) => Place(e) # Len(e.list) + 1
  BY <1>1, PlaceIs
<1>4. ASSUME ~n PROVE Shows(d, [v EXCEPT ![Place(e)] = d.text])
  <2>1. Shows(e, v)
    BY <1>4 DEF Kept, Tells
  <2>2. PICK w : w = [v EXCEPT ![Place(e)] = d.text]
    OBVIOUS
  <2>3. w[Place(e)] = d.text /\ \A k \in DOMAIN v : k # Place(e) => w[k] = v[k]
    BY <1>3, <2>2
  <2>4. \A k \in 1 .. Len(e.list) : k # Place(e) => d.list[k].line = w[k]
    BY <1>3, <2>1, <2>3 DEF Shows, OthersStay
  <2>5. OnEntry(e) => d.saved[1].line = w[Len(e.list) + 1]
    BY <1>2, <1>3, <2>1, <2>3 DEF Shows
  <2> QED
    BY <1>2, <2>2, <2>3, <2>4, <2>5 DEF Shows
<1> QED
  BY <1>2, <1>4 DEF Holds, Kept, Tells

\* An editor is itself with nothing undone.
LEMMA NothingUndone ==
  ASSUME NEW e, NEW o, NEW v, NEW m, Kept(e, o, v, m)
  PROVE  /\ Undone(e, e, NULL, o, Origin(e, o), m)
         /\ SharesText(e, o, Origin(e, o), m)
<1>1. e \in Editor /\ e.offset <= Len(e.list) /\ InOrder(e, NULL)
  BY DEF Kept, InOrder
<1>2. Undone(e, e, NULL, o, Origin(e, o), m)
  BY <1>1 DEF Kept, Tells, Undone, OthersStay
<1>3. SharesText(e, o, Origin(e, o), m)
  BY <1>1, PlaceIs DEF SharesText, Origin
<1> QED
  BY <1>2, <1>3

\* undo and revert-line keep the invariant.
LEMMA UndoKept ==
  ASSUME NEW e, NEW o, NEW v, NEW m \in BOOLEAN, Kept(e, o, v, m), e.undo # NULL,
         DOMAIN v = 1 .. Len(e.list) + 1, NEW d \in {DoUndo(e), RevertLine(e)}
  PROVE  /\ Kept(d, o, [v EXCEPT ![Place(e)] = d.text], m)
         /\ Len(d.list) = Len(e.list) /\ d.text \in Text
<1>1. Undone(e, e, NULL, o, Origin(e, o), m) /\ SharesText(e, o, Origin(e, o), m)
  BY NothingUndone
<1>2. Undone(e, d, NULL, o, Origin(e, o), m)
  <2>1. Undone(e, DoUndo(e), NULL, o, Origin(e, o), m)
    BY <1>1, UndoUndoes
  <2>2. Undone(e, RevertLine(e), NULL, o, Origin(e, o), m)
    BY <1>1, RevertUndoesAll
  <2> QED
    BY <2>1, <2>2
<1>3. PointIn(e) /\ (~m => Meets(e, e.text))
  BY DEF Kept, Tells
<1>4. /\ InOrder(d, NULL) /\ OthersStay(e, d) /\ PointIn(d)
      /\ ~m => Gives(d, o) /\ LineTakes(d, d.text, Origin(e, o)) /\ Meets(d, d.text)
  BY <1>2, <1>3 DEF Undone
<1>5. Kept(d, o, [v EXCEPT ![Place(e)] = d.text], m)
  <2>1. Holds(d, d.text, o, Origin(e, o), m) /\ OthersStay(e, d) /\ PointIn(d)
    BY <1>4 DEF Holds
  <2> QED
    BY <2>1, EditKept
<1>6. Len(d.list) = Len(e.list) /\ d.text \in Text
  BY <1>4, Parts DEF OthersStay, InOrder
<1> QED
  BY <1>5, <1>6

-----------------------------------------------------------------------------
(* Leaving a line and coming to another *)

\* Every line, with its list, is left in its place: no list is that of the line in
\* view only.
Left(l, o, v, m) ==
  /\ l \in Editor /\ Sound(l.rec) /\ l.saved # <<>>
  /\ Apart(Len(l.list), Len(l.list) + 1, {}, Lists(l), {}, InUse(l.rec))
  /\ ~m => /\ Gives(l, o)
           /\ \A k \in 1 .. Len(l.list) : l.list[k].line = v[k]
           /\ l.saved[1].line = v[Len(l.list) + 1]

\* The lists of lines that are all in place are apart when one of them is in view.
LEMMA ApartShown ==
  ASSUME NEW n \in Nat, NEW L, NEW used, Apart(n, n + 1, {}, L, {}, used), NEW at \in 0 .. n
  PROVE  Apart(n, at, L[at], L, {}, used)
BY DEF Apart

\* So they are when the saved line comes into view, and is not saved any more.
LEMMA ApartUnsaved ==
  ASSUME NEW n \in Nat, NEW L, NEW used, Apart(n, n + 1, {}, L, {}, used),
         NEW M, M[0] = {}, \A k \in 1 .. n : M[k] = L[k]
  PROVE  Apart(n, n + 1, L[0], M, {}, used)
<1>1. \A k \in 0 .. n : k = 0 \/ k \in 1 .. n
  OBVIOUS
<1>2. /\ n + 1 \notin 0 .. n /\ 0 \in 0 .. n
      /\ \A k \in 1 .. n : k # 0 /\ k \in 0 .. n
  OBVIOUS
<1>3. \A k, m \in 0 .. n : k # m => M[k] \cap M[m] = {}
  BY <1>1, <1>2 DEF Apart
<1>4. \A k \in 0 .. n : M[k] \cap L[0] = {}
  BY <1>1, <1>2 DEF Apart
<1>5. \A i : i \in used <=> i \in L[0] \/ \E k \in 0 .. n : i \in M[k]
  <2> SUFFICES ASSUME NEW i PROVE i \in used <=> i \in L[0] \/ \E k \in 0 .. n : i \in M[k]
    OBVIOUS
  <2>1. i \in used <=> \E k \in 0 .. n : i \in L[k]
    BY DEF Apart
  <2> QED
    BY <1>1, <1>2, <2>1
<1> QED
  BY <1>2, <1>3, <1>4, <1>5 DEF Apart

\* So they are where the line in view has been left with its list in its place.
LEMMA ApartLeft ==
  ASSUME NEW n \in Nat, NEW U, NEW L, NEW used, NEW at, Apart(n, at, U, L, {}, used),
         NEW p \in 0 .. n, at \in 0 .. n => p = at,
         NEW M, M[p] = U, \A k \in 0 .. n : k # p => M[k] = L[k],
         at \notin 0 .. n => L[p] = {}
  PROVE  Apart(n, n + 1, {}, M, {}, used)
<1>1. n + 1 \notin 0 .. n
  OBVIOUS
<1>2. \A k \in 0 .. n : k # p => L[k] \cap U = {}
  BY DEF Apart
<1>3. L[p] \subseteq U
  BY DEF Apart
<1>4. \A k, m \in 0 .. n : k # m => M[k] \cap M[m] = {}
  BY <1>2 DEF Apart
<1>5. \A i : i \in used <=> \E k \in 0 .. n : i \in M[k]
  <2> SUFFICES ASSUME NEW i PROVE i \in used <=> \E k \in 0 .. n : i \in M[k]
    OBVIOUS
  <2>1. i \in used <=> i \in U \/ \E k \in 0 .. n : i \in L[k]
    BY DEF Apart
  <2> QED
    BY <1>3, <2>1
<1> QED
  BY <1>1, <1>4, <1>5 DEF Apart

-----------------------------------------------------------------------------
\* A move to an entry keeps the invariant.
LEMMA GoToKept ==
  ASSUME NEW l, NEW o, NEW v, NEW m, Left(l, o, v, m), NEW j \in Nat, j < Len(l.list),
         NEW d, d = GoTo(l, j)
  PROVE  Kept(d, o, v, m) /\ Len(d.list) = Len(l.list) /\ d.offset = j
<1>1. /\ l \in Editor /\ Sound(l.rec) /\ l.saved # <<>> /\ Len(l.list) \in Nat
      /\ Apart(Len(l.list), Len(l.list) + 1, {}, Lists(l), {}, InUse(l.rec))
  BY Parts DEF Left
<1>2. j + 1 \in 1 .. Len(l.list) /\ j + 1 \in 0 .. Len(l.list)
  BY <1>1
<1>3. PICK x \in Entry : x = l.list[j + 1] /\ x.line \in Text /\ x.data \in Pointer
  BY <1>1, <1>2, Parts
<1>4. Len(x.line) \in Nat
  BY <1>3, TextLen
<1>5. /\ d.text = x.line /\ d.point = Len(x.line) /\ d.undo = x.data /\ d.offset = j
      /\ d.list = l.list /\ d.saved = l.saved /\ d.rec = l.rec
  BY <1>1, <1>3 DEF GoTo, Editor
<1>6. d \in Editor
  BY <1>1, <1>3, <1>4 DEF GoTo, Editor, Text
<1>7. Place(d) = j + 1 /\ OnEntry(d) /\ d.offset <= Len(d.list)
  BY <1>1, <1>2, <1>5 DEF Place, OnEntry
<1>8. Lists(d) = Lists(l) /\ Lists(l)[j + 1] = Of(l.rec, x.data)
  <2>1. Heads(d) = Heads(l)
    BY <1>5 DEF Heads
  <2>2. Lists(d) = Lists(l)
    BY <1>5, <2>1 DEF Lists
  <2>3. Lists(l)[j + 1] = Of(l.rec, Heads(l)[j + 1]) /\ Heads(l)[j + 1] = l.list[j + 1].data
    BY <1>1, <1>2, HeadsAre
  <2> QED
    BY <1>3, <2>2, <2>3
<1>9. InOrder(d, NULL)
  <2>1. Of(l.rec, NULL) = {} /\ NULL \in Pointer
    BY <1>1, OfFacts, Pointers
  <2>2. Apart(Len(l.list), j + 1, Lists(l)[j + 1], Lists(l), {}, InUse(l.rec))
    BY <1>1, <1>2, ApartShown
  <2> QED
    BY <1>1, <1>5, <1>6, <1>7, <1>8, <2>1, <2>2 DEF InOrder
<1>10. PointIn(d)
  BY <1>4, <1>5 DEF PointIn
<1>11. ASSUME ~m PROVE Tells(d, o, v)
  <2>1. /\ Gives(l, o)
        /\ \A k \in 1 .. Len(l.list) : l.list[k].line = v[k]
        /\ l.saved[1].line = v[Len(l.list) + 1]
    BY <1>11 DEF Left
  <2>2. Gives(d, o)
    BY <1>5, <2>1 DEF Gives
  <2>3. LineTakes(d, d.text, Origin(d, o))
    BY <1>2, <1>3, <1>5, <1>7, <2>1 DEF Gives, LineTakes, Origin
  <2>4. Meets(d, d.text)
    <3>1. d.list[Place(d)].data = d.undo /\ d.list[Place(d)].line = d.text
      BY <1>3, <1>5, <1>7
    <3>2. Reaches(d.rec, d.undo, d.text, d.undo, d.text)
      BY ReachesItself
    <3> QED
      BY <3>1, <3>2 DEF Meets
  <2>5. Shows(d, v)
    BY <1>2, <1>3, <1>5, <1>7, <2>1 DEF Shows
  <2> QED
    BY <2>2, <2>3, <2>4, <2>5 DEF Tells
<1> QED
  BY <1>5, <1>9, <1>10, <1>11 DEF Kept

\* The way back to the line that was being typed keeps the invariant.
LEMMA UnsaveKept ==
  ASSUME NEW l, NEW o, NEW v, NEW m, Left(l, o, v, m),
         NEW d, d = MaybeUnsave([l EXCEPT !.offset = Len(l.list)])
  PROVE  Kept(d, o, v, m) /\ Len(d.list) = Len(l.list) /\ d.offset = Len(l.list)
<1>1. /\ l \in Editor /\ Sound(l.rec) /\ l.saved # <<>> /\ Len(l.list) \in Nat
      /\ Apart(Len(l.list), Len(l.list) + 1, {}, Lists(l), {}, InUse(l.rec))
  BY Parts DEF Left
<1>2. PICK x \in Entry : x = l.saved[1] /\ x.line \in Text /\ x.data \in Pointer
  BY <1>1, Parts
<1>3. Len(x.line) \in Nat
  BY <1>2, TextLen
<1>4. PICK c : c = [l EXCEPT !.offset = Len(l.list)]
  OBVIOUS
<1>5. /\ c.offset = Len(l.list) /\ c.list = l.list /\ c.saved = l.saved /\ c.rec = l.rec
      /\ c \in Editor
  BY <1>1, <1>4 DEF Editor
<1>6. d = [c EXCEPT !.text = x.line, !.point = Len(x.line), !.undo = x.data, !.saved = <<>>]
  BY <1>1, <1>2, <1>4, <1>5 DEF MaybeUnsave
<1>7. /\ d.text = x.line /\ d.point = Len(x.line) /\ d.undo = x.data /\ d.offset = Len(l.list)
      /\ d.list = l.list /\ d.saved = <<>> /\ d.rec = l.rec
  BY <1>5, <1>6 DEF Editor
<1>8. d \in Editor
  BY <1>2, <1>3, <1>5, <1>6 DEF Editor, Text
<1>9. Place(d) = Len(l.list) + 1 /\ ~OnEntry(d) /\ d.offset <= Len(d.list)
  BY <1>1, <1>7 DEF Place, OnEntry
<1>10. /\ Lists(d)[0] = {} /\ \A k \in 1 .. Len(l.list) : Lists(d)[k] = Lists(l)[k]
       /\ Lists(l)[0] = Of(l.rec, x.data)
  <2>1. 0 \in 0 .. Len(l.list) /\ \A k \in 1 .. Len(l.list) : k \in 0 .. Len(l.list)
    BY <1>1
  <2>2. Heads(d)[0] = NULL /\ \A k \in 1 .. Len(l.list) : Heads(d)[k] = l.list[k].data
    BY <1>7, <1>8, HeadsAre
  <2>3. \A k \in 0 .. Len(l.list) : Lists(d)[k] = Of(l.rec, Heads(d)[k])
    BY <1>7, <1>8, HeadsAre
  <2>4. Heads(l)[0] = x.data /\ \A k \in 1 .. Len(l.list) : Heads(l)[k] = l.list[k].data
    BY <1>1, <1>2, HeadsAre
  <2>5. \A k \in 0 .. Len(l.list) : Lists(l)[k] = Of(l.rec, Heads(l)[k])
    BY <1>1, HeadsAre
  <2>6. Of(l.rec, NULL) = {}
    BY <1>1, OfFacts
  <2> QED
    BY <2>1, <2>2, <2>3, <2>4, <2>5, <2>6
<1>11. InOrder(d, NULL)
  <2>1. Of(l.rec, NULL) = {} /\ NULL \in Pointer
    BY <1>1, OfFacts, Pointers
  <2>2. Apart(Len(l.list), Len(l.list) + 1, Lists(l)[0], Lists(d), {}, InUse(l.rec))
    BY <1>1, <1>10, ApartUnsaved
  <2> QED
    BY <1>1, <1>7, <1>8, <1>9, <1>10, <2>1, <2>2 DEF InOrder
<1>12. PointIn(d)
  BY <1>3, <1>7 DEF PointIn
<1>13. ASSUME ~m PROVE Tells(d, o, v)
  <2>1. /\ Gives(l, o)
        /\ \A k \in 1 .. Len(l.list) : l.list[k].line = v[k]
        /\ l.saved[1].line = v[Len(l.list) + 1]
    BY <1>13 DEF Left
  <2>2. Gives(d, o)
    BY <1>7, <2>1 DEF Gives
  <2>3. LineTakes(d, d.text, Origin(d, o))
    BY <1>1, <1>2, <1>7, <1>9, <2>1 DEF Gives, LineTakes, Origin
  <2>4. Meets(d, d.text)
    BY <1>9 DEF Meets
  <2>5. Shows(d, v)
    BY <1>2, <1>7, <1>9, <2>1 DEF Shows
  <2> QED
    BY <2>2, <2>3, <2>4, <2>5 DEF Tells
<1> QED
  BY <1>7, <1>11, <1>12, <1>13 DEF Kept

\* rl_maybe_replace_line leaves the edited line and its list in their place.
LEMMA ReplacedLeft ==
  ASSUME NEW e, NEW o, NEW v, NEW m, Kept(e, o, v, m), OnEntry(e),
         NEW d, d = MaybeReplace(e)
  PROVE  /\ Left(d, o, v, m) /\ Kept(d, o, v, m)
         /\ Len(d.list) = Len(e.list) /\ d.offset = e.offset
<1>1. /\ e \in Editor /\ Sound(e.rec) /\ e.saved # <<>> /\ e.offset <= Len(e.list)
      /\ Apart(Len(e.list), Place(e), Of(e.rec, e.undo), Lists(e), Of(e.rec, NULL), InUse(e.rec))
  BY DEF Kept, InOrder
<1>2. /\ e.text \in Text /\ e.undo \in Pointer /\ e.offset \in Nat
      /\ e.list \in Seq(Entry) /\ Len(e.list) \in Nat /\ DOMAIN e.list = 1 .. Len(e.list)
  BY <1>1, Parts
<1>3. PICK at \in 1 .. Len(e.list) : at = Place(e) /\ at = e.offset + 1 /\ at \in 0 .. Len(e.list)
                                     /\ at # Len(e.list) + 1
  BY <1>1, <1>2, PlaceIs DEF Place
<1>4. /\ d \in Editor /\ Len(d.list) = Len(e.list)
      /\ d.text = e.text /\ d.point = e.point /\ d.undo = e.undo
      /\ d.offset = e.offset /\ d.saved = e.saved /\ d.rec = e.rec
      /\ \A k \in 1 .. Len(e.list) : k # at => d.list[k] = e.list[k]
      /\ d.list[at].data = e.undo
      /\ d.list[at].line = IF e.list[at].data = e.undo THEN e.list[at].line ELSE e.text
  <2>1. CASE e.list[at].data = e.undo
    <3>1. d = e
      BY <1>3, <2>1 DEF MaybeReplace, Current
    <3> QED
      BY <1>1, <2>1, <3>1
  <2>2. CASE e.list[at].data # e.undo
    <3>1. PICK x \in Entry : x = [line |-> e.text, data |-> e.undo]
      BY <1>2 DEF Entry, Text
    <3>2. d = [e EXCEPT !.list[at] = x]
      BY <1>3, <2>2, <3>1 DEF MaybeReplace, Current
    <3>3. PICK list \in Seq(Entry) : list = [e.list EXCEPT ![at] = x]
      <4>1. \A l \in Seq(Entry) : \A k \in 1 .. Len(l) : \A y \in Entry :
               [l EXCEPT ![k] = y] \in Seq(Entry)
        OBVIOUS
      <4> QED
        BY <1>2, <4>1
    <3>4. Len(list) = Len(e.list) /\ list[at] = x
          /\ \A k \in 1 .. Len(e.list) : k # at => list[k] = e.list[k]
      BY <1>2, <3>3
    <3>5. /\ d.list = list /\ d.text = e.text /\ d.point = e.point /\ d.undo = e.undo
          /\ d.offset = e.offset /\ d.saved = e.saved /\ d.rec = e.rec
      BY <1>1, <3>2, <3>3 DEF Editor
    <3>6. d \in Editor
      BY <1>1, <3>2, <3>3 DEF Editor
    <3>7. x.line = e.text /\ x.data = e.undo
      BY <3>1
    <3> QED
      BY <2>2, <3>4, <3>5, <3>6, <3>7
  <2> QED
    BY <2>1, <2>2
<1>5. Of(e.rec, NULL) = {} /\ NULL \in Pointer
  BY <1>1, OfFacts, Pointers
<1>6. /\ Lists(d)[at] = Of(e.rec, e.undo)
      /\ \A k \in 0 .. Len(e.list) : k # at => Lists(d)[k] = Lists(e)[k]
  <2>1. PICK n \in Nat : n = Len(e.list) /\ n = Len(d.list)
    BY <1>1, <1>4, Parts
  <2>2. /\ Heads(e)[0] = IF e.saved = <<>> THEN NULL ELSE e.saved[1].data
        /\ \A k \in 1 .. n : Heads(e)[k] = e.list[k].data
        /\ \A k \in 0 .. n : Lists(e)[k] = Of(e.rec, Heads(e)[k])
    BY <1>1, <2>1, HeadsAre
  <2>3. /\ Heads(d)[0] = IF d.saved = <<>> THEN NULL ELSE d.saved[1].data
        /\ \A k \in 1 .. n : Heads(d)[k] = d.list[k].data
        /\ \A k \in 0 .. n : Lists(d)[k] = Of(d.rec, Heads(d)[k])
    BY <1>4, <2>1, HeadsAre
  <2>4. d.saved = e.saved /\ d.rec = e.rec
    BY <1>4
  <2>5. \A k \in 1 .. n : k # at => Heads(d)[k] = Heads(e)[k]
    BY <1>4, <2>1, <2>2, <2>3
  <2>6. Heads(d)[0] = Heads(e)[0] /\ \A k \in 0 .. n : k = 0 \/ k \in 1 .. n
    BY <2>2, <2>3, <2>4
  <2>7. \A k \in 0 .. n : k # at => Lists(d)[k] = Lists(e)[k]
    BY ONLY <2>2, <2>3, <2>4, <2>5, <2>6
  <2>8. at \in 1 .. n /\ at \in 0 .. n /\ d.list[at].data = e.undo
    BY <1>2, <1>3, <1>4, <2>1
  <2>9. Lists(d)[at] = Of(e.rec, e.undo)
    BY ONLY <2>3, <2>4, <2>8
  <2> QED
    BY <2>1, <2>7, <2>9
<1>7. Apart(Len(e.list), Len(e.list) + 1, {}, Lists(d), {}, InUse(e.rec))
  <2>1. Apart(Len(e.list), at, Of(e.rec, e.undo), Lists(e), {}, InUse(e.rec))
    BY <1>1, <1>3, <1>5
  <2>2. PICK n \in Nat : n = Len(e.list)
    BY <1>2
  <2>3. PICK L, M, U, used : L = Lists(e) /\ M = Lists(d) /\ U = Of(e.rec, e.undo) /\ used = InUse(e.rec)
    OBVIOUS
  <2>4. /\ at \in 0 .. n /\ M[at] = U /\ Apart(n, at, U, L, {}, used)
        /\ \A k \in 0 .. n : k # at => M[k] = L[k]
    BY <1>2, <1>3, <1>6, <2>1, <2>2, <2>3
  <2>5. Apart(n, n + 1, {}, M, {}, used)
    BY ONLY <2>2, <2>4, ApartLeft
  <2> QED
    BY <2>2, <2>3, <2>5
<1>8. ASSUME ~m
      PROVE  /\ Gives(d, o) /\ d.list[at].line = e.text
             /\ \A k \in 1 .. Len(e.list) : d.list[k].line = v[k]
             /\ e.saved[1].line = v[Len(e.list) + 1]
             /\ LineTakes(d, d.text, Origin(d, o)) /\ Meets(d, d.text) /\ Shows(d, v)
  <2>1. Gives(e, o) /\ LineTakes(e, e.text, Origin(e, o)) /\ Meets(e, e.text) /\ Shows(e, v)
    BY <1>8 DEF Kept, Tells
  <2>2. d.list[at].line = e.text
    <3>1. CASE e.list[at].data = e.undo
      <4>1. Reaches(e.rec, e.undo, e.text, e.undo, e.list[at].line)
        BY <1>3, <2>1, <3>1 DEF Meets
      <4>2. e.text = e.list[at].line
        BY <1>1, <1>2, <4>1, ReachesOnce
      <4> QED
        BY <1>4, <3>1, <4>2
    <3>2. CASE e.list[at].data # e.undo
      BY <1>4, <3>2
    <3> QED
      BY <3>1, <3>2
  <2>3. Origin(e, o) = o[at] /\ Place(d) = at /\ OnEntry(d) /\ Origin(d, o) = o[at]
    BY <1>3, <1>4 DEF Origin, Place, OnEntry
  <2>4. Gives(d, o)
    <3>1. Takes(e.rec, e.undo, e.text, o[at])
      BY <2>1, <2>3 DEF LineTakes
    <3>2. Takes(d.rec, d.list[at].data, d.list[at].line, o[at])
      BY <1>4, <2>2, <3>1
    <3>3. \A k \in 1 .. Len(e.list) : k # at => Takes(d.rec, d.list[k].data, d.list[k].line, o[k])
      BY <1>4, <2>1 DEF Gives
    <3>4. e.saved # <<>> => Takes(d.rec, e.saved[1].data, e.saved[1].line, o[0])
      BY <1>4, <2>1 DEF Gives
    <3> QED
      BY <1>4, <3>2, <3>3, <3>4 DEF Gives
  <2>5. LineTakes(d, d.text, Origin(d, o))
    BY <1>4, <2>1, <2>3 DEF LineTakes
  <2>6. Meets(d, d.text)
    <3>1. d.list[Place(d)].data = d.undo /\ d.list[Place(d)].line = d.text
      BY <1>4, <2>2, <2>3
    <3>2. Reaches(d.rec, d.undo, d.text, d.undo, d.text)
      BY ReachesItself
    <3> QED
      BY <3>1, <3>2 DEF Meets
  <2>7. /\ \A k \in 1 .. Len(e.list) : d.list[k].line = v[k]
        /\ e.saved[1].line = v[Len(e.list) + 1]
        /\ e.text = v[at]
    BY <1>3, <1>4, <2>1, <2>2 DEF Shows
  <2>8. Shows(d, v)
    BY <1>3, <1>4, <2>3, <2>7 DEF Shows
  <2> QED
    BY <2>2, <2>4, <2>5, <2>6, <2>7, <2>8
<1>9. Left(d, o, v, m)
  BY <1>1, <1>4, <1>7, <1>8 DEF Left
<1>10. InOrder(d, NULL)
  <2>1. Apart(Len(e.list), at, Lists(d)[at], Lists(d), {}, InUse(e.rec))
    BY <1>2, <1>3, <1>7, ApartShown
  <2>2. Place(d) = at /\ OnEntry(d)
    BY <1>3, <1>4 DEF Place, OnEntry
  <2> QED
    BY <1>1, <1>4, <1>5, <1>6, <2>1, <2>2 DEF InOrder
<1>11. Kept(d, o, v, m)
  BY <1>4, <1>8, <1>10 DEF Kept, Tells, PointIn
<1> QED
  BY <1>4, <1>9, <1>11

\* rl_maybe_save_line leaves the line that is being typed in its place.
LEMMA SavedLeft ==
  ASSUME NEW e, NEW o, NEW v, NEW m, Kept(e, o, v, m), ~OnEntry(e),
         NEW d, d = MaybeReplace(MaybeSave(e))
  PROVE  Left(d, o, v, m) /\ Len(d.list) = Len(e.list)
<1>1. /\ e \in Editor /\ Sound(e.rec) /\ e.saved = <<>> /\ e.offset <= Len(e.list)
      /\ Apart(Len(e.list), Place(e), Of(e.rec, e.undo), Lists(e), Of(e.rec, NULL), InUse(e.rec))
  BY DEF Kept, InOrder
<1>2. /\ e.text \in Text /\ e.undo \in Pointer /\ Len(e.list) \in Nat
      /\ Place(e) = Len(e.list) + 1 /\ 0 \in 0 .. Len(e.list)
      /\ Len(e.list) + 1 \notin 0 .. Len(e.list)
  BY <1>1, Parts, PlaceIs
<1>3. PICK x \in Entry : x = [line |-> e.text, data |-> e.undo] /\ x.line = e.text /\ x.data = e.undo
  <2>1. [line |-> e.text, data |-> e.undo] \in Entry
    BY <1>2 DEF Entry, Text
  <2> QED
    BY <2>1
<1>4. PICK s : s = <<x>> /\ s \in [{1} -> Entry] /\ s[1] = x /\ s # <<>>
  <2>1. <<x>>[1] = x /\ <<x>> # <<>> /\ Len(<<x>>) = 1 /\ <<x>> \in Seq(Entry)
    OBVIOUS
  <2>2. DOMAIN <<x>> = {1}
    OBVIOUS
  <2>3. <<x>> \in [{1} -> Entry]
    BY <2>1, <2>2
  <2> QED
    BY <2>1, <2>3
<1>5. PICK c : c = MaybeSave(e)
  OBVIOUS
<1>6. c = [e EXCEPT !.saved = s]
  BY <1>1, <1>3, <1>4, <1>5 DEF MaybeSave
<1>7. /\ c.text = e.text /\ c.list = e.list /\ c.offset = e.offset /\ c.saved = s
      /\ c.rec = e.rec /\ c.undo = e.undo /\ c \in Editor
  BY <1>1, <1>4, <1>6 DEF Editor
<1>8. d = c
  BY <1>5, <1>7 DEF MaybeReplace, OnEntry
<1>9. /\ Lists(c)[0] = Of(e.rec, e.undo)
      /\ \A k \in 0 .. Len(e.list) : k # 0 => Lists(c)[k] = Lists(e)[k]
      /\ Lists(e)[0] = {}
  <2>1. /\ Heads(c)[0] = e.undo /\ Heads(e)[0] = NULL
        /\ \A k \in 1 .. Len(e.list) : Heads(c)[k] = e.list[k].data /\ Heads(e)[k] = e.list[k].data
    <3>1. /\ Heads(e)[0] = IF e.saved = <<>> THEN NULL ELSE e.saved[1].data
          /\ \A k \in 1 .. Len(e.list) : Heads(e)[k] = e.list[k].data
      BY <1>1, HeadsAre
    <3>2. /\ Heads(c)[0] = IF c.saved = <<>> THEN NULL ELSE c.saved[1].data
          /\ \A k \in 1 .. Len(c.list) : Heads(c)[k] = c.list[k].data
      BY <1>7, HeadsAre
    <3>3. c.saved # <<>> /\ c.saved[1].data = e.undo /\ c.list = e.list
      BY <1>3, <1>4, <1>7
    <3> QED
      BY <1>1, <3>1, <3>2, <3>3
  <2>2. \A k \in 0 .. Len(e.list) : k = 0 \/ k \in 1 .. Len(e.list)
    BY <1>2
  <2>3. \A k \in 0 .. Len(e.list) : Lists(c)[k] = Of(e.rec, Heads(c)[k])
                                    /\ Lists(e)[k] = Of(e.rec, Heads(e)[k])
    BY <1>1, <1>7, HeadsAre
  <2>4. Of(e.rec, NULL) = {}
    BY <1>1, OfFacts
  <2> QED
    BY <1>2, <2>1, <2>2, <2>3, <2>4
<1>10. Apart(Len(e.list), Len(e.list) + 1, {}, Lists(c), {}, InUse(e.rec))
  <2>1. Of(e.rec, NULL) = {}
    BY <1>1, OfFacts
  <2>2. Apart(Len(e.list), Len(e.list) + 1, Of(e.rec, e.undo), Lists(e), {}, InUse(e.rec))
    BY <1>1, <1>2, <2>1
  <2> QED
    BY <1>2, <1>9, <2>2, ApartLeft
<1>11. ASSUME ~m
       PROVE  /\ Gives(c, o)
              /\ \A k \in 1 .. Len(e.list) : e.list[k].line = v[k]
              /\ s[1].line = v[Len(e.list) + 1]
  <2>1. Gives(e, o) /\ LineTakes(e, e.text, Origin(e, o)) /\ Shows(e, v)
    BY <1>11 DEF Kept, Tells
  <2>2. Takes(e.rec, e.undo, e.text, o[0])
    BY <2>1 DEF LineTakes, Origin
  <2>3. Gives(c, o)
    BY <1>3, <1>4, <1>7, <2>1, <2>2 DEF Gives
  <2>4. \A k \in 1 .. Len(e.list) : k # Place(e)
    BY <1>2
  <2> QED
    BY <1>2, <1>3, <1>4, <2>1, <2>3, <2>4 DEF Shows
<1>12. Left(c, o, v, m)
  BY <1>1, <1>4, <1>7, <1>10, <1>11 DEF Left
<1> QED
  BY <1>7, <1>8, <1>12

-----------------------------------------------------------------------------
\* A move to an earlier line keeps the invariant, and shows the entry it should.
LEMMA BackwardKept ==
  ASSUME NEW e, NEW o, NEW v, NEW m, Kept(e, o, v, m), NEW count \in Nat, count # 0,
         NEW d, d = Backward(e, count)
  PROVE  /\ Kept(d, o, v, m) /\ Len(d.list) = Len(e.list)
         /\ e.list # <<>> /\ count <= e.offset => d.offset = e.offset - count
<1>1. /\ e \in Editor /\ e.offset <= Len(e.list) /\ e.offset \in Nat /\ Len(e.list) \in Nat
      /\ e.list = <<>> <=> Len(e.list) = 0
      /\ OnEntry(e) <=> e.saved # <<>>
  BY Parts DEF Kept, InOrder
<1>2. PICK left : left = MaybeReplace(MaybeSave(e))
  OBVIOUS
<1>3. PICK gone \in Nat : /\ gone = IF count > e.offset THEN 0 ELSE e.offset - count
                          /\ count <= e.offset => gone = e.offset - count
                          /\ e.offset # 0 => gone < e.offset
  BY <1>1
<1>4. OnEntry(e) => left = MaybeReplace(e)
  BY <1>1, <1>2 DEF MaybeSave
<1>5. Left(left, o, v, m) /\ Len(left.list) = Len(e.list)
  <2>1. CASE OnEntry(e)
    BY <1>4, <2>1, ReplacedLeft
  <2>2. CASE ~OnEntry(e)
    BY <1>2, <2>2, SavedLeft
  <2> QED
    BY <2>1, <2>2
<1>6. CASE e.list = <<>>
  <2>1. d = e
    BY <1>6 DEF Backward
  <2> QED
    BY <1>6, <2>1
<1>7. CASE e.list # <<>> /\ e.offset = 0
  <2>1. OnEntry(e)
    BY <1>1, <1>7 DEF OnEntry
  <2>2. d = left
    BY <1>1, <1>2, <1>7, <2>1 DEF Backward
  <2>3. Kept(left, o, v, m) /\ Len(left.list) = Len(e.list)
    BY <1>4, <2>1, ReplacedLeft
  <2>4. ~(count <= e.offset)
    BY <1>7
  <2> QED
    BY <2>2, <2>3, <2>4
<1>8. CASE e.list # <<>> /\ e.offset # 0
  <2>1. d = GoTo(left, gone)
    BY <1>2, <1>3, <1>8 DEF Backward
  <2>2. gone < Len(left.list)
    BY <1>1, <1>3, <1>5, <1>8
  <2>3. Kept(d, o, v, m) /\ Len(d.list) = Len(left.list) /\ d.offset = gone
    BY <1>5, <2>1, <2>2, GoToKept
  <2> QED
    BY <1>3, <1>5, <2>3
<1> QED
  BY <1>6, <1>7, <1>8

\* A move to a later line keeps the invariant.
LEMMA ForwardKept ==
  ASSUME NEW e, NEW o, NEW v, NEW m, Kept(e, o, v, m), NEW count \in Nat, count # 0,
         NEW d, d = Forward(e, count)
  PROVE  Kept(d, o, v, m) /\ Len(d.list) = Len(e.list)
<1>1. /\ e \in Editor /\ e.offset <= Len(e.list) /\ e.offset \in Nat /\ Len(e.list) \in Nat
      /\ OnEntry(e) <=> e.saved # <<>>
  BY Parts DEF Kept, InOrder
<1>2. PICK left : left = MaybeReplace(e)
  OBVIOUS
<1>3. CASE OnEntry(e)
  <2>1. Left(left, o, v, m) /\ Len(left.list) = Len(e.list)
    BY <1>2, <1>3, ReplacedLeft
  <2>2. CASE e.offset + count < Len(e.list)
    <3>1. d = GoTo(left, e.offset + count)
      BY <1>2, <2>2 DEF Forward
    <3>2. e.offset + count \in Nat
      BY <1>1
    <3>3. e.offset + count < Len(left.list)
      BY <2>1, <2>2
    <3>4. Kept(d, o, v, m) /\ Len(d.list) = Len(left.list)
      BY <2>1, <3>1, <3>2, <3>3, GoToKept
    <3> QED
      BY <2>1, <3>4
  <2>3. CASE ~(e.offset + count < Len(e.list))
    <3>1. d = MaybeUnsave([left EXCEPT !.offset = Len(left.list)])
      BY <1>2, <2>1, <2>3 DEF Forward
    <3>2. Kept(d, o, v, m) /\ Len(d.list) = Len(left.list)
      BY <2>1, <3>1, UnsaveKept
    <3> QED
      BY <2>1, <3>2
  <2> QED
    BY <2>2, <2>3
<1>4. CASE ~OnEntry(e)
  <2>1. left = e /\ e.offset = Len(e.list) /\ e.saved = <<>>
    BY <1>1, <1>2, <1>4 DEF MaybeReplace, OnEntry
  <2>2. d = MaybeUnsave([e EXCEPT !.offset = Len(e.list)])
    BY <1>1, <1>2, <2>1 DEF Forward
  <2>3. [e EXCEPT !.offset = Len(e.list)] = e
    BY <1>1, <2>1 DEF Editor
  <2>4. d = e
    BY <2>1, <2>2, <2>3 DEF MaybeUnsave
  <2> QED
    BY <2>4
<1> QED
  BY <1>3, <1>4

-----------------------------------------------------------------------------
(* Accepting a line: its entry restored *)

\* Every entry but one, and the saved line, gives back its first text.
GivesBut(e, o, at) ==
  /\ \A k \in 1 .. Len(e.list) : k # at => Takes(e.rec, e.list[k].data, e.list[k].line, o[k])
  /\ e.saved # <<>> => Takes(e.rec, e.saved[1].data, e.saved[1].line, o[0])

\* d is e with another line for the entry at, without a list.
LineGiven(e, d, at, x) ==
  /\ d \in Editor /\ d.list = [e.list EXCEPT ![at] = [line |-> x, data |-> NULL]]
  /\ d.undo = e.undo /\ d.offset = e.offset /\ d.saved = e.saved /\ d.rec = e.rec

\* An entry that has no records can be given another line.
LEMMA LineGivenInOrder ==
  ASSUME NEW e, NEW w, InOrder(e, w), NEW at \in 1 .. Len(e.list), Lists(e)[at] = {},
         NEW x \in Text, NEW d, LineGiven(e, d, at, x)
  PROVE  /\ InOrder(d, w) /\ Len(d.list) = Len(e.list)
         /\ d.list[at].line = x /\ d.list[at].data = NULL
         /\ \A k \in 1 .. Len(e.list) : k # at => d.list[k] = e.list[k]
         /\ \A o : GivesBut(e, o, at) /\ x = o[at] => Gives(d, o)
<1>1. /\ e \in Editor /\ Sound(e.rec) /\ w \in Pointer /\ e.offset <= Len(e.list)
      /\ OnEntry(e) <=> e.saved # <<>>
      /\ Apart(Len(e.list), Place(e), Of(e.rec, e.undo), Lists(e), Of(e.rec, w), InUse(e.rec))
  BY DEF InOrder
<1>2. e.list \in Seq(Entry) /\ Len(e.list) \in Nat /\ DOMAIN e.list = 1 .. Len(e.list)
  BY <1>1, Parts
<1>3. PICK y : y = [line |-> x, data |-> NULL] /\ y.line = x /\ y.data = NULL
  <2>1. [line |-> x, data |-> NULL].line = x /\ [line |-> x, data |-> NULL].data = NULL
    OBVIOUS
  <2> QED
    BY <2>1
<1>4. d \in Editor /\ d.list = [e.list EXCEPT ![at] = y]
  BY <1>3 DEF LineGiven
<1>5. /\ Len(d.list) = Len(e.list) /\ d.list[at] = y
      /\ \A k \in 1 .. Len(e.list) : k # at => d.list[k] = e.list[k]
  BY <1>2, <1>4
<1>6. d.undo = e.undo /\ d.offset = e.offset /\ d.saved = e.saved /\ d.rec = e.rec
  BY DEF LineGiven
<1>7. \A k \in 0 .. Len(e.list) : Lists(d)[k] = Lists(e)[k]
  <2> SUFFICES ASSUME NEW k \in 0 .. Len(e.list) PROVE Lists(d)[k] = Lists(e)[k]
    OBVIOUS
  <2>1. Lists(d)[k] = Of(e.rec, Heads(d)[k]) /\ Lists(e)[k] = Of(e.rec, Heads(e)[k])
    BY <1>1, <1>4, <1>5, <1>6, HeadsAre
  <2>2. CASE k = at
    <3>1. Heads(d)[k] = NULL
      BY <1>3, <1>4, <1>5, <2>2, HeadsAre
    <3>2. Of(e.rec, NULL) = {}
      BY <1>1, OfFacts
    <3> QED
      BY <2>1, <2>2, <3>1, <3>2
  <2>3. CASE k # at
    <3>1. k = 0 \/ k \in 1 .. Len(e.list)
      BY <1>2
    <3>2. Heads(d)[k] = Heads(e)[k]
      BY <1>1, <1>4, <1>5, <1>6, <2>3, <3>1, HeadsAre
    <3> QED
      BY <2>1, <3>2
  <2> QED
    BY <2>2, <2>3
<1>8. Lists(d) = Lists(e)
  <2>1. Lists(d) = [k \in 0 .. Len(e.list) |-> Lists(d)[k]]
    BY <1>5 DEF Lists
  <2>2. Lists(e) = [k \in 0 .. Len(e.list) |-> Lists(e)[k]]
    BY DEF Lists
  <2> QED
    BY <1>7, <2>1, <2>2
<1>9. InOrder(d, w)
  <2>1. Place(d) = Place(e) /\ (OnEntry(d) <=> OnEntry(e))
    BY <1>5, <1>6 DEF Place, OnEntry
  <2> QED
    BY <1>1, <1>4, <1>5, <1>6, <1>8, <2>1 DEF InOrder
<1>10. ASSUME NEW o, GivesBut(e, o, at), x = o[at] PROVE Gives(d, o)
  <2>1. Takes(e.rec, NULL, x, o[at])
    BY <1>10, TakesNone
  <2>2. Takes(d.rec, d.list[at].data, d.list[at].line, o[at])
    BY <1>3, <1>5, <1>6, <2>1
  <2>3. \A k \in 1 .. Len(e.list) : k # at => Takes(d.rec, d.list[k].data, d.list[k].line, o[k])
    BY <1>5, <1>6, <1>10 DEF GivesBut
  <2>4. e.saved # <<>> => Takes(d.rec, e.saved[1].data, e.saved[1].line, o[0])
    BY <1>6, <1>10 DEF GivesBut
  <2> QED
    BY <1>5, <1>6, <2>2, <2>3, <2>4 DEF Gives
<1> QED
  BY <1>3, <1>5, <1>9, <1>10

\* The entry in view has no records when the line has none.
LEMMA NoneInView ==
  ASSUME NEW e, NEW w, InOrder(e, w), e.undo = NULL, OnEntry(e)
  PROVE  Lists(e)[Place(e)] = {} /\ e.list[Place(e)].data = NULL
<1>1. /\ e \in Editor /\ Sound(e.rec) /\ e.offset <= Len(e.list) /\ Len(e.list) \in Nat
      /\ Apart(Len(e.list), Place(e), Of(e.rec, e.undo), Lists(e), Of(e.rec, w), InUse(e.rec))
  BY Parts DEF InOrder
<1>2. PICK at \in 1 .. Len(e.list) : at = Place(e) /\ at \in 0 .. Len(e.list)
  BY <1>1, PlaceIs
<1>3. Lists(e)[at] = {}
  BY <1>1, <1>2, OfFacts DEF Apart
<1>4. Lists(e)[at] = Of(e.rec, e.list[at].data) /\ e.list[at].data \in Pointer
  BY <1>1, <1>2, HeadsAre, Parts
<1>5. \A p \in Pointer : p # NULL => p \in Of(e.rec, p)
  BY <1>1, OfFacts, Pointers
<1> QED
  BY <1>2, <1>3, <1>4, <1>5

\* The entry in view gets back its first text, and keeps no records.
LEMMA RestoredIs ==
  ASSUME NEW e, NEW o, NEW v, NEW m, Kept(e, o, v, m), NEW d, d = Restored(e)
  PROVE  /\ InOrder(d, NULL)
         /\ d.text = e.text /\ d.offset = e.offset /\ d.saved = e.saved
         /\ Len(d.list) = Len(e.list)
         /\ OnEntry(d) <=> OnEntry(e)
         /\ OnEntry(d) => d.undo = NULL
         /\ \A k \in 1 .. Len(e.list) : k # Place(e) => d.list[k].line = e.list[k].line
         /\ ~m => Gives(d, o) /\ (OnEntry(e) => d.list[Place(e)].line = o[Place(e)])
<1>1. /\ e \in Editor /\ Sound(e.rec) /\ e.offset <= Len(e.list) /\ Len(e.list) \in Nat
      /\ e.text \in Text /\ InOrder(e, NULL)
      /\ \A k \in 1 .. Len(e.list) : e.list[k].line \in Text
  BY Parts DEF Kept, InOrder
<1>2. CASE ~OnEntry(e)
  <2>1. d = e
    BY <1>2 DEF Restored
  <2> QED
    BY <1>1, <1>2, <2>1 DEF Kept, Tells
<1>3. CASE OnEntry(e) /\ e.undo = NULL
  <2>1. d = e
    BY <1>3 DEF Restored
  <2>2. PICK at \in 1 .. Len(e.list) : at = Place(e)
    BY <1>1, <1>3, PlaceIs
  <2>3. e.list[at].data = NULL
    BY <1>1, <1>3, <2>2, NoneInView
  <2>4. ASSUME ~m PROVE Gives(e, o) /\ e.list[at].line = o[at]
    <3>1. Gives(e, o)
      BY <2>4 DEF Kept, Tells
    <3>2. Takes(e.rec, NULL, e.list[at].line, o[at])
      BY <2>3, <3>1 DEF Gives
    <3> QED
      BY <1>1, <3>1, <3>2, TakesNone
  <2> QED
    BY <1>1, <1>3, <2>1, <2>2, <2>4
<1>4. CASE OnEntry(e) /\ e.undo # NULL
  <2>1. PICK at \in 1 .. Len(e.list) : at = Place(e) /\ at = e.offset + 1
    BY <1>1, <1>4, PlaceIs DEF Place
  <2>2. Origin(e, o) = o[at]
    BY <1>4, <2>1 DEF Origin
  <2>3. PICK r : r = RevertLine(e)
    OBVIOUS
  <2>4. Undone(e, e, NULL, o, o[at], m) /\ SharesText(e, o, o[at], m)
    BY <2>2, NothingUndone
  <2>5. Undone(e, r, NULL, o, o[at], m) /\ r.undo = NULL
    BY <2>3, <2>4, RevertUndoesAll
  <2>6. InOrder(r, NULL) /\ OthersStay(e, r) /\ r \in Editor /\ r.text \in Text
        /\ Len(r.list) = Len(e.list) /\ Place(r) = at /\ OnEntry(r)
    BY <1>4, <2>1, <2>5, Parts DEF Undone, InOrder, OthersStay, Place, OnEntry
  <2>7. Lists(r)[at] = {}
    BY <2>5, <2>6, NoneInView
  <2>8. d = [r EXCEPT !.list[at] = [line |-> r.text, data |-> NULL], !.text = e.text]
    BY <1>4, <2>1, <2>3 DEF Restored
  <2>9. PICK list \in Seq(Entry) : list = [r.list EXCEPT ![at] = [line |-> r.text, data |-> NULL]]
    <3>1. \A l \in Seq(Entry) : \A k \in 1 .. Len(l) : \A y \in Entry : [l EXCEPT ![k] = y] \in Seq(Entry)
      OBVIOUS
    <3>2. [line |-> r.text, data |-> NULL] \in Entry
      BY <2>6, Pointers DEF Entry, Text
    <3>3. r.list \in Seq(Entry) /\ at \in 1 .. Len(r.list)
      BY <2>6, Parts
    <3> QED
      BY <3>1, <3>2, <3>3
  <2>10. /\ d.list = list /\ d.text = e.text /\ d.undo = r.undo /\ d.offset = r.offset
         /\ d.saved = r.saved /\ d.rec = r.rec
    BY <2>6, <2>8, <2>9 DEF Editor
  <2>11. d \in Editor
    BY <1>1, <2>6, <2>8, <2>9 DEF Editor, Text
  <2>12. LineGiven(r, d, at, r.text)
    BY <2>9, <2>10, <2>11 DEF LineGiven
  <2>13. /\ InOrder(d, NULL) /\ Len(d.list) = Len(r.list)
         /\ d.list[at].line = r.text
         /\ \A k \in 1 .. Len(r.list) : k # at => d.list[k] = r.list[k]
         /\ GivesBut(r, o, at) /\ r.text = o[at] => Gives(d, o)
    BY <2>6, <2>7, <2>12, LineGivenInOrder
  <2>14. d.offset = e.offset /\ d.saved = e.saved /\ d.undo = NULL /\ (OnEntry(d) <=> OnEntry(e))
    BY <2>5, <2>6, <2>10, <2>13 DEF OthersStay, OnEntry
  <2>15. \A k \in 1 .. Len(e.list) : k # at => d.list[k].line = e.list[k].line
    BY <2>1, <2>6, <2>13 DEF OthersStay
  <2>16. ASSUME ~m PROVE Gives(d, o) /\ d.list[at].line = o[at]
    <3>1. Gives(r, o) /\ LineTakes(r, r.text, o[at])
      BY <2>5, <2>16 DEF Undone
    <3>2. r.text = o[at]
      BY <2>5, <2>6, <3>1, TakesNone DEF LineTakes
    <3>3. GivesBut(r, o, at)
      BY <3>1 DEF Gives, GivesBut
    <3> QED
      BY <2>13, <3>2, <3>3
  <2> QED
    BY <2>1, <2>6, <2>10, <2>13, <2>14, <2>15, <2>16
<1> QED
  BY <1>2, <1>3, <1>4

-----------------------------------------------------------------------------
(* Accepting a line: every entry reverted *)

\* While _rl_revert_all_lines works, with the list w of the line held: x is d with
\* the entries still giving back o.
Reverting(d, x, w, o, m) ==
  /\ x \in Editor /\ InOrder([x EXCEPT !.undo = NULL], w)
  /\ x.offset = d.offset /\ x.saved = d.saved /\ Len(x.list) = Len(d.list)
  /\ ~m => Gives(x, o)

\* y is c with the entry k as the line in view, with its list.
MadeLine(c, y, k) ==
  y = [c EXCEPT !.text = c.list[k].line, !.undo = c.list[k].data, !.list[k].data = NULL]

\* An entry with a list is made the line in view.
LEMMA EntryMadeLine ==
  ASSUME NEW c, NEW w, InOrder(c, w), c.undo = NULL,
         NEW k \in 1 .. Len(c.list), c.list[k].data # NULL,
         NEW y, MadeLine(c, y, k)
  PROVE  /\ InOrder(y, w) /\ k # Place(c)
         /\ y.text = c.list[k].line /\ y.undo = c.list[k].data
         /\ y.offset = c.offset /\ y.saved = c.saved /\ y.rec = c.rec /\ Len(y.list) = Len(c.list)
         /\ y.list[k].data = NULL /\ y.list[k].line = c.list[k].line
         /\ \A j \in 1 .. Len(c.list) : j # k => y.list[j] = c.list[j]
<1>1. /\ c \in Editor /\ Sound(c.rec) /\ w \in Pointer /\ c.offset <= Len(c.list)
      /\ OnEntry(c) <=> c.saved # <<>>
      /\ Apart(Len(c.list), Place(c), Of(c.rec, c.undo), Lists(c), Of(c.rec, w), InUse(c.rec))
  BY DEF InOrder
<1>2. c.list \in Seq(Entry) /\ Len(c.list) \in Nat /\ DOMAIN c.list = 1 .. Len(c.list)
  BY <1>1, Parts
<1>3. PICK x \in Entry : x = c.list[k] /\ x.line \in Text /\ x.data \in Pointer
  BY <1>1, Parts
<1>4. PICK z \in Entry : z = [x EXCEPT !.data = NULL] /\ z.line = x.line /\ z.data = NULL
  <2>1. [x EXCEPT !.data = NULL] \in Entry
    BY <1>3, Pointers DEF Entry
  <2>2. [x EXCEPT !.data = NULL].line = x.line /\ [x EXCEPT !.data = NULL].data = NULL
    BY DEF Entry
  <2> QED
    BY <2>1, <2>2
<1>5. PICK list \in Seq(Entry) : list = [c.list EXCEPT ![k] = z]
  <2>1. \A l \in Seq(Entry) : \A j \in 1 .. Len(l) : \A y0 \in Entry : [l EXCEPT ![j] = y0] \in Seq(Entry)
    OBVIOUS
  <2> QED
    BY <1>2, <2>1
<1>6. /\ Len(list) = Len(c.list) /\ list[k] = z
      /\ \A j \in 1 .. Len(c.list) : j # k => list[j] = c.list[j]
  BY <1>2, <1>5
<1>7. list = [c.list EXCEPT ![k].data = NULL]
  BY <1>3, <1>4, <1>5
<1>8. y = [c EXCEPT !.text = x.line, !.undo = x.data, !.list = list]
  BY <1>1, <1>3, <1>7 DEF Editor, MadeLine
<1>9. /\ y.text = x.line /\ y.undo = x.data /\ y.list = list
      /\ y.offset = c.offset /\ y.saved = c.saved /\ y.rec = c.rec
  BY <1>1, <1>8 DEF Editor
<1>10. y \in Editor
  BY <1>1, <1>3, <1>5, <1>8 DEF Editor, Text
<1>11. \A p \in Pointer : p # NULL => p \in Of(c.rec, p)
  BY <1>1, OfFacts, Pointers
<1>12. /\ 0 \in 0 .. Len(c.list) /\ \A j \in 1 .. Len(c.list) : j \in 0 .. Len(c.list)
       /\ \A j \in 0 .. Len(c.list) : j = 0 \/ j \in 1 .. Len(c.list)
  BY <1>2
<1>13. Of(c.rec, NULL) = {}
  BY <1>1, OfFacts
<1>14. Lists(c)[k] = Of(c.rec, x.data) /\ Lists(c)[k] # {}
  BY <1>1, <1>3, <1>11, <1>12, HeadsAre
<1>15. \A j \in 0 .. Len(c.list) : Lists(y)[j] = IF j = k THEN {} ELSE Lists(c)[j]
  <2>1. /\ Heads(y)[0] = IF y.saved = <<>> THEN NULL ELSE y.saved[1].data
        /\ \A j \in 1 .. Len(y.list) : Heads(y)[j] = y.list[j].data
        /\ \A j \in 0 .. Len(y.list) : Lists(y)[j] = Of(y.rec, Heads(y)[j])
    BY <1>10, HeadsAre
  <2>2. /\ Heads(c)[0] = IF c.saved = <<>> THEN NULL ELSE c.saved[1].data
        /\ \A j \in 1 .. Len(c.list) : Heads(c)[j] = c.list[j].data
        /\ \A j \in 0 .. Len(c.list) : Lists(c)[j] = Of(c.rec, Heads(c)[j])
    BY <1>1, HeadsAre
  <2>3. Len(y.list) = Len(c.list) /\ y.saved = c.saved /\ y.rec = c.rec
    BY <1>6, <1>9
  <2>4. y.list[k].data = NULL /\ \A j \in 1 .. Len(c.list) : j # k => y.list[j] = c.list[j]
    BY <1>4, <1>6, <1>9
  <2>5. Heads(y)[0] = Heads(c)[0]
    BY <2>1, <2>2, <2>3
  <2>6. Heads(y)[k] = NULL /\ \A j \in 1 .. Len(c.list) : j # k => Heads(y)[j] = Heads(c)[j]
    BY <2>1, <2>2, <2>3, <2>4
  <2>7. \A j \in 0 .. Len(c.list) : j # k => Heads(y)[j] = Heads(c)[j]
    BY <1>12, <2>5, <2>6
  <2> QED
    <3> SUFFICES ASSUME NEW j \in 0 .. Len(c.list)
                 PROVE  Lists(y)[j] = IF j = k THEN {} ELSE Lists(c)[j]
      OBVIOUS
    <3>1. Lists(y)[j] = Of(c.rec, Heads(y)[j])
      BY <2>1, <2>3
    <3>2. Lists(c)[j] = Of(c.rec, Heads(c)[j])
      BY <2>2
    <3>3. CASE j = k
      BY <1>13, <2>6, <3>1, <3>3
    <3>4. CASE j # k
      BY <2>7, <3>1, <3>2, <3>4
    <3> QED
      BY <3>3, <3>4
<1>16. \A j \in 0 .. Len(c.list) : j = Place(c) => Lists(c)[j] = {}
  BY <1>1, <1>13 DEF Apart
<1>17. k # Place(c)
  BY <1>12, <1>14, <1>16
<1>18. Apart(Len(c.list), Place(c), Lists(c)[k], Lists(y), Of(c.rec, w), InUse(c.rec))
  <2>1. \A i, j \in 0 .. Len(c.list) : i # j => Lists(y)[i] \cap Lists(y)[j] = {}
    BY <1>1, <1>15 DEF Apart
  <2>2. \A j \in 0 .. Len(c.list) : IF j = Place(c) THEN Lists(y)[j] \subseteq Lists(c)[k]
                                    ELSE Lists(y)[j] \cap Lists(c)[k] = {}
    BY <1>1, <1>12, <1>15, <1>16 DEF Apart
  <2>3. \A j \in 0 .. Len(c.list) : Lists(y)[j] \cap Of(c.rec, w) = {}
    BY <1>1, <1>15 DEF Apart
  <2>4. Lists(c)[k] \cap Of(c.rec, w) = {}
    BY <1>1, <1>12 DEF Apart
  <2>5. ASSUME NEW i PROVE i \in InUse(c.rec) <=> \/ i \in Lists(c)[k] \/ i \in Of(c.rec, w)
                                                  \/ \E j \in 0 .. Len(c.list) : i \in Lists(y)[j]
    <3>1. i \in InUse(c.rec) <=> i \in Of(c.rec, w) \/ \E j \in 0 .. Len(c.list) : i \in Lists(c)[j]
      BY <1>1, <1>13 DEF Apart
    <3> QED
      BY <1>12, <1>15, <3>1
  <2> QED
    BY <2>1, <2>2, <2>3, <2>4, <2>5 DEF Apart
<1>19. Place(y) = Place(c) /\ (OnEntry(y) <=> OnEntry(c))
  BY <1>6, <1>9 DEF Place, OnEntry
<1>20. InOrder(y, w)
  BY <1>1, <1>6, <1>9, <1>10, <1>14, <1>18, <1>19 DEF InOrder
<1> QED
  BY <1>3, <1>4, <1>6, <1>9, <1>17, <1>20

\* An entry more is reverted.
LEMMA EntryReverted ==
  ASSUME NEW d, NEW x, NEW w, NEW o, NEW m, Reverting(d, x, w, o, m),
         NEW k \in 1 .. Len(d.list), NEW newest, ~(k > newest),
         NEW c, c = EntryRound(x, k, newest)
  PROVE  /\ Reverting(d, c, w, o, m)
         /\ c.list[k].data = NULL
         /\ \A j \in 1 .. Len(d.list) : x.list[j].data = NULL => c.list[j].data = NULL
<1>1. CASE x.list[k].data = NULL
  <2>1. c = x
    BY <1>1 DEF EntryRound
  <2> QED
    BY <1>1, <2>1
<1>2. CASE x.list[k].data # NULL
  <2>1. PICK b : b = [x EXCEPT !.undo = NULL]
    OBVIOUS
  <2>2. /\ InOrder(b, w) /\ x \in Editor /\ Len(x.list) = Len(d.list)
        /\ x.offset = d.offset /\ x.saved = d.saved
    BY <2>1 DEF Reverting
  <2>3. /\ b.undo = NULL /\ b.list = x.list /\ b.offset = x.offset /\ b.saved = x.saved
        /\ b.rec = x.rec /\ b.point = x.point /\ b.text = x.text
    BY <2>1, <2>2 DEF Editor
  <2>4. PICK y : y = [x EXCEPT !.text = x.list[k].line, !.undo = x.list[k].data, !.list[k].data = NULL]
    OBVIOUS
  <2>5. MadeLine(b, y, k)
    BY <2>1, <2>2, <2>3, <2>4 DEF Editor, MadeLine
  <2>6. k \in 1 .. Len(b.list) /\ b.list[k].data # NULL
    BY <1>2, <2>2, <2>3
  <2>7. /\ InOrder(y, w) /\ k # Place(b)
        /\ y.text = b.list[k].line /\ y.undo = b.list[k].data
        /\ y.offset = b.offset /\ y.saved = b.saved /\ y.rec = b.rec /\ Len(y.list) = Len(b.list)
        /\ y.list[k].data = NULL /\ y.list[k].line = b.list[k].line
        /\ \A j \in 1 .. Len(b.list) : j # k => y.list[j] = b.list[j]
    BY <2>2, <2>3, <2>5, <2>6, EntryMadeLine
  <2>8. b.list[k].line \in Text
    BY <2>2, <2>3, Parts
  <2>9. PICK p : p = [j \in 0 .. Len(d.list) |-> IF j = k THEN b.list[k].line ELSE o[j]]
    OBVIOUS
  <2>10. /\ p[k] = b.list[k].line /\ p[0] = o[0]
         /\ \A j \in 1 .. Len(d.list) : j # k => p[j] = o[j]
    <3>1. Len(d.list) \in Nat /\ k \in 0 .. Len(d.list) /\ k # 0 /\ 0 \in 0 .. Len(d.list)
      BY <2>2, Parts
    <3>2. \A j \in 0 .. Len(d.list) : p[j] = IF j = k THEN b.list[k].line ELSE o[j]
      BY <2>9
    <3>3. \A j \in 1 .. Len(d.list) : j \in 0 .. Len(d.list)
      OBVIOUS
    <3> QED
      BY <3>1, <3>2, <3>3
  <2>11. Place(y) = Place(b) /\ y \in Editor
    BY <2>7 DEF Place, InOrder
  <2>12. SharesText(y, p, o[k], m)
    <3>1. ASSUME Place(y) \in 1 .. Len(y.list) PROVE y.list[Place(y)].data = NULL
      <4>1. OnEntry(b) /\ Place(b) \in 1 .. Len(b.list)
        BY <2>2, <2>7, <2>11, <3>1, PlaceIs DEF InOrder
      <4>2. b.list[Place(b)].data = NULL
        BY <2>2, <2>3, <4>1, NoneInView
      <4> QED
        BY <2>7, <2>11, <4>1, <4>2
    <3> QED
      BY <3>1 DEF SharesText
  <2>13. Undone(y, y, w, p, o[k], m)
    <3>1. OthersStay(y, y)
      BY DEF OthersStay
    <3>2. ASSUME ~m PROVE Gives(y, p) /\ LineTakes(y, y.text, o[k])
      <4>1. Gives(x, o)
        BY <3>2 DEF Reverting
      <4>2. Takes(y.rec, y.list[k].data, y.list[k].line, p[k])
        BY <2>7, <2>8, <2>10, TakesNone
      <4>3. \A j \in 1 .. Len(d.list) : j # k => Takes(y.rec, y.list[j].data, y.list[j].line, p[j])
        BY <2>2, <2>3, <2>7, <2>10, <4>1 DEF Gives
      <4>4. y.saved # <<>> => Takes(y.rec, y.saved[1].data, y.saved[1].line, p[0])
        BY <2>3, <2>7, <2>10, <4>1 DEF Gives
      <4>5. Takes(y.rec, y.undo, y.text, o[k])
        BY <2>2, <2>3, <2>7, <4>1 DEF Gives
      <4>6. Len(y.list) = Len(d.list)
        BY <2>2, <2>3, <2>7
      <4> QED
        BY <4>2, <4>3, <4>4, <4>5, <4>6 DEF Gives, LineTakes
    <3> QED
      BY <2>7, <3>1, <3>2 DEF Undone
  <2>14. PICK z : z = RevertLine(y)
    OBVIOUS
  <2>15. Undone(y, z, w, p, o[k], m) /\ z.undo = NULL
    BY <2>12, <2>13, <2>14, RevertUndoesAll
  <2>16. InOrder(z, w) /\ OthersStay(y, z) /\ z \in Editor /\ z.text \in Text /\ Sound(z.rec)
    BY <2>15, Parts DEF Undone, InOrder
  <2>17. /\ z.offset = y.offset /\ z.saved = y.saved /\ Len(z.list) = Len(d.list)
         /\ k \in 1 .. Len(y.list)
         /\ z.list[k] = y.list[k]
    BY <2>2, <2>3, <2>7, <2>16 DEF OthersStay
  <2>18. Lists(z)[k] = {}
    <3>1. k \in 0 .. Len(z.list) /\ Heads(z)[k] = NULL
      BY <2>7, <2>16, <2>17, HeadsAre
    <3> QED
      BY <2>16, <3>1, HeadsAre, OfFacts
  <2>19. c = [z EXCEPT !.list[k].line = z.text]
    BY <1>2, <2>4, <2>14 DEF EntryRound, RevertEntry
  <2>20. PICK list \in Seq(Entry) : list = [z.list EXCEPT ![k] = [line |-> z.text, data |-> NULL]]
    <3>1. \A l \in Seq(Entry) : \A j \in 1 .. Len(l) : \A y0 \in Entry : [l EXCEPT ![j] = y0] \in Seq(Entry)
      OBVIOUS
    <3>2. [line |-> z.text, data |-> NULL] \in Entry
      BY <2>16, Pointers DEF Entry, Text
    <3>3. z.list \in Seq(Entry) /\ k \in 1 .. Len(z.list)
      BY <2>16, <2>17, Parts
    <3> QED
      BY <3>1, <3>2, <3>3
  <2>21. [z.list EXCEPT ![k].line = z.text] = list
    <3>1. z.list[k] \in Entry /\ z.list[k].data = NULL
      BY <2>7, <2>16, <2>17, Parts
    <3>2. [z.list[k] EXCEPT !.line = z.text] = [line |-> z.text, data |-> NULL]
      BY <3>1 DEF Entry
    <3> QED
      BY <2>20, <3>2
  <2>22. c = [z EXCEPT !.list = list]
    BY <2>16, <2>19, <2>21 DEF Editor
  <2>23. /\ c.list = list /\ c.undo = z.undo /\ c.offset = z.offset /\ c.saved = z.saved
         /\ c.rec = z.rec /\ c \in Editor
    BY <2>16, <2>20, <2>22 DEF Editor
  <2>24. LineGiven(z, c, k, z.text)
    BY <2>20, <2>23 DEF LineGiven
  <2>25. /\ InOrder(c, w) /\ Len(c.list) = Len(z.list)
         /\ c.list[k].data = NULL
         /\ \A j \in 1 .. Len(z.list) : j # k => c.list[j] = z.list[j]
         /\ GivesBut(z, o, k) /\ z.text = o[k] => Gives(c, o)
    BY <2>16, <2>17, <2>18, <2>24, LineGivenInOrder
  <2>26. [c EXCEPT !.undo = NULL] = c
    BY <2>15, <2>23 DEF Editor
  <2>27. ASSUME ~m PROVE Gives(c, o)
    <3>1. Gives(z, p) /\ LineTakes(z, z.text, o[k])
      BY <2>15, <2>27 DEF Undone
    <3>2. z.text = o[k]
      BY <2>15, <2>16, <3>1, TakesNone DEF LineTakes
    <3>3. GivesBut(z, o, k)
      BY <2>10, <2>17, <3>1 DEF Gives, GivesBut
    <3> QED
      BY <2>25, <3>2, <3>3
  <2>28. Reverting(d, c, w, o, m)
    BY <2>2, <2>3, <2>7, <2>17, <2>23, <2>25, <2>26, <2>27 DEF Reverting
  <2>29. ASSUME NEW j \in 1 .. Len(d.list), x.list[j].data = NULL PROVE c.list[j].data = NULL
    <3>1. CASE j = k
      BY <2>25, <3>1
    <3>2. CASE j # k
      <4>1. y.list[j] = x.list[j] /\ j \in 1 .. Len(y.list)
        BY <2>2, <2>3, <2>7, <3>2
      <4>2. z.list[j] = y.list[j]
        BY <2>16, <2>29, <4>1 DEF OthersStay
      <4>3. c.list[j] = z.list[j]
        BY <2>17, <2>25, <3>2
      <4> QED
        BY <2>29, <4>1, <4>2, <4>3
    <3> QED
      BY <3>1, <3>2
  <2> QED
    BY <2>25, <2>28, <2>29
<1> QED
  BY <1>1, <1>2

\* Where the list of the line in view is not that of its entry, the two can be
\* told apart: the one is held while the entries are reverted, and taken back.
LEMMA ApartHeld ==
  ASSUME NEW n, NEW at, NEW U, NEW L, NEW used,
         at \in 0 .. n => L[at] = {}
  PROVE  Apart(n, at, U, L, {}, used) <=> Apart(n, at, {}, L, U, used)
BY DEF Apart

\* The lines give back o, unless a character was merged.
GivesUnless(m, e, o) == ~m => Gives(e, o)

\* All entries are reverted: they get back their first texts, and keep no records.
LEMMA RevertAllIs ==
  ASSUME NEW d, InOrder(d, NULL), OnEntry(d) => d.undo = NULL,
         NEW m, NEW o, GivesUnless(m, d, o),
         NEW c, c = RevertAll(d)
  PROVE  /\ InOrder(c, NULL)
         /\ c.text = d.text /\ c.undo = d.undo /\ c.offset = d.offset /\ c.saved = d.saved
         /\ Len(c.list) = Len(d.list)
         /\ ~m => Gives(c, o) /\ \A k \in 1 .. Len(d.list) : c.list[k].line = o[k]
<1>1. /\ d \in Editor /\ Sound(d.rec) /\ d.offset <= Len(d.list)
      /\ OnEntry(d) <=> d.saved # <<>>
      /\ Apart(Len(d.list), Place(d), Of(d.rec, d.undo), Lists(d), Of(d.rec, NULL), InUse(d.rec))
  BY DEF InOrder
<1>2. /\ d.undo \in Pointer /\ d.text \in Text /\ Len(d.list) \in Nat /\ NULL \in Pointer
      /\ DOMAIN d.list = 1 .. Len(d.list)
  BY <1>1, Parts, Pointers
<1>3. PICK n \in Nat : n = Len(d.list)
  BY <1>2
<1>4. Of(d.rec, NULL) = {}
  BY <1>1, OfFacts
<1>5. Place(d) \in 0 .. n => Lists(d)[Place(d)] = {}
  <2>1. Place(d) \in 0 .. n => OnEntry(d)
    BY <1>1, <1>3, PlaceIs
  <2> QED
    BY <2>1, NoneInView
<1>6. PICK w \in Pointer : w = d.undo
  BY <1>2
<1>7. Reverting(d, d, w, o, m)
  <2>1. PICK b : b = [d EXCEPT !.undo = NULL]
    OBVIOUS
  <2>2. /\ b \in Editor /\ b.undo = NULL /\ b.list = d.list /\ b.offset = d.offset
        /\ b.saved = d.saved /\ b.rec = d.rec
    BY <1>1, <1>2, <2>1 DEF Editor
  <2>3. Lists(b) = Lists(d) /\ Place(b) = Place(d) /\ (OnEntry(b) <=> OnEntry(d))
    BY <2>2 DEF Lists, Heads, Place, OnEntry
  <2>4. Apart(n, Place(d), {}, Lists(d), Of(d.rec, w), InUse(d.rec))
    BY <1>1, <1>3, <1>4, <1>5, <1>6, ApartHeld
  <2>5. InOrder(b, w)
    BY <1>1, <1>3, <1>4, <1>6, <2>2, <2>3, <2>4 DEF InOrder
  <2> QED
    BY <1>1, <2>1, <2>5 DEF Reverting, GivesUnless
<1>8. PICK S : S = {x \in Editor : Reverting(d, x, w, o, m)}
  OBVIOUS
<1>9. \A x : Reverting(d, x, w, o, m) <=> x \in S
  BY <1>8 DEF Reverting
<1>10. PICK T : T = [k \in 0 .. n |-> {x \in S : \A j \in 1 .. k : x.list[j].data = NULL}]
  OBVIOUS
<1>11. d \in S /\ d \in T[0]
  BY <1>7, <1>9, <1>10
<1>12. ASSUME NEW k \in 1 .. n, NEW x \in S
       PROVE  /\ EntryRound(x, k, n) \in S
              /\ x \in T[k - 1] => EntryRound(x, k, n) \in T[k]
  <2>1. PICK y : y = EntryRound(x, k, n)
    OBVIOUS
  <2>2. ~(k > n) /\ k \in 1 .. Len(d.list) /\ k - 1 \in 0 .. n /\ k \in 0 .. n
    BY <1>3
  <2>3. /\ Reverting(d, y, w, o, m) /\ y.list[k].data = NULL
        /\ \A j \in 1 .. Len(d.list) : x.list[j].data = NULL => y.list[j].data = NULL
    BY <1>9, <2>1, <2>2, EntryReverted
  <2>4. ASSUME x \in T[k - 1], NEW j \in 1 .. k PROVE y.list[j].data = NULL
    <3>1. \A i \in 1 .. k - 1 : x.list[i].data = NULL
      BY <1>10, <2>2, <2>4
    <3>2. j = k \/ j \in 1 .. k - 1
      BY <2>2
    <3>3. j \in 1 .. Len(d.list)
      BY <1>3, <2>2
    <3> QED
      BY <2>3, <3>1, <3>2, <3>3
  <2> QED
    BY <1>9, <1>10, <2>1, <2>2, <2>3, <2>4
<1>13. PICK x \in S : x \in T[n] /\ RevertedEntries(d, n) = LineBack(x, d)
  <2>1. DOMAIN d.list = 1 .. n /\ n \in Nat
    BY <1>2, <1>3
  <2>2. \A k \in 1 .. n : \A y \in S : EntryRound(y, k, n) \in S
    BY <1>12
  <2>3. \A k \in 1 .. n : \A y \in S : y \in T[k - 1] => EntryRound(y, k, n) \in T[k]
    BY <1>12
  <2> QED
    BY ONLY <1>11, <2>1, <2>2, <2>3, RevertedEntriesStays
<1>14. \A k \in 1 .. n : x.list[k].data = NULL
  BY <1>10, <1>13
<1>15. PICK b : b = [x EXCEPT !.undo = NULL]
  OBVIOUS
<1>16. /\ x \in Editor /\ InOrder(b, w) /\ x.offset = d.offset /\ x.saved = d.saved
       /\ Len(x.list) = n /\ (~m => Gives(x, o))
  BY <1>3, <1>9, <1>13, <1>15 DEF Reverting
<1>17. /\ b.list = x.list /\ b.offset = x.offset /\ b.saved = x.saved /\ b.rec = x.rec
       /\ b.undo = NULL /\ b \in Editor
  BY <1>2, <1>15, <1>16 DEF Editor
<1>18. (IF \E k \in DOMAIN d.list : d.list[k].data = d.undo THEN NULL ELSE d.undo) = w
  <2> SUFFICES ASSUME NEW k \in DOMAIN d.list, d.list[k].data = d.undo, d.undo # NULL
               PROVE  FALSE
    BY <1>6
  <2>1. k \in 0 .. Len(d.list) /\ k \in 1 .. Len(d.list)
    BY <1>2
  <2>2. Lists(d)[k] = Of(d.rec, d.undo)
    BY <1>1, <2>1, HeadsAre
  <2>3. d.undo \in Of(d.rec, d.undo)
    BY <1>1, <1>2, OfFacts, Pointers
  <2>4. k # Place(d)
    BY <1>3, <1>5, <2>1, <2>2, <2>3
  <2> QED
    BY <1>1, <2>1, <2>2, <2>3, <2>4 DEF Apart
<1>19. c = [x EXCEPT !.text = d.text, !.undo = w]
  <2>1. c = LineBack(x, d)
    BY <1>3, <1>13 DEF RevertAll
  <2> QED
    BY <1>18, <2>1 DEF LineBack
<1>20. /\ c.text = d.text /\ c.undo = w /\ c.list = x.list /\ c.offset = x.offset
       /\ c.saved = x.saved /\ c.rec = x.rec /\ c \in Editor
  BY <1>2, <1>16, <1>19 DEF Editor, Text
<1>21. Lists(c) = Lists(b) /\ Place(c) = Place(b) /\ (OnEntry(c) <=> OnEntry(b))
  BY <1>17, <1>20 DEF Lists, Heads, Place, OnEntry
<1>22. InOrder(c, NULL)
  <2>1. /\ Sound(b.rec) /\ b.offset <= Len(b.list) /\ (OnEntry(b) <=> b.saved # <<>>)
        /\ Apart(n, Place(b), Of(b.rec, NULL), Lists(b), Of(b.rec, w), InUse(b.rec))
    BY <1>16, <1>17 DEF InOrder
  <2>2. Of(b.rec, NULL) = {}
    BY <2>1, OfFacts
  <2>3. Place(b) \in 0 .. n => Lists(b)[Place(b)] = {}
    BY <2>1, <2>2 DEF Apart
  <2>4. Apart(n, Place(b), Of(b.rec, w), Lists(b), {}, InUse(b.rec))
    BY <2>1, <2>2, <2>3, ApartHeld
  <2> QED
    BY <1>2, <1>16, <1>17, <1>20, <1>21, <2>1, <2>2, <2>4 DEF InOrder
<1>23. ASSUME ~m PROVE Gives(c, o) /\ \A k \in 1 .. n : c.list[k].line = o[k]
  <2>1. Gives(c, o)
    BY <1>16, <1>20, <1>23 DEF Gives
  <2>2. ASSUME NEW k \in 1 .. n PROVE c.list[k].line = o[k]
    <3>1. Takes(c.rec, NULL, c.list[k].line, o[k])
      BY <1>14, <1>16, <1>20, <2>1 DEF Gives
    <3>2. c.list[k].line \in Text
      BY <1>16, <1>20, Parts
    <3> QED
      BY <3>1, <3>2, TakesNone
  <2> QED
    BY <2>1, <2>2
<1> QED
  BY <1>3, <1>6, <1>16, <1>20, <1>22, <1>23

-----------------------------------------------------------------------------
(* Accepting a line: lists freed *)

\* The memory new is rec with the records F freed.
Freed(rec, F, new) == new = [i \in Id |-> IF i \in F THEN Free ELSE rec[i]]

\* What is in no list that is freed stays as it is.
LEMMA FreedIs ==
  ASSUME NEW rec, Sound(rec), NEW F, NEW new, Freed(rec, F, new)
  PROVE  /\ Sound(new) /\ InUse(new) = InUse(rec) \ F
         /\ \A p \in Pointer : Of(rec, p) \cap F = {} =>
              /\ Of(new, p) = Of(rec, p)
              /\ \A t, u : Takes(rec, p, t, u) => Takes(new, p, t, u)
<1>1. Sound(new)
  BY FreedSound DEF Freed
<1>2. InUse(new) = InUse(rec) \ F
  BY DEF InUse, Free, Freed
<1>3. ASSUME NEW p \in Pointer, Of(rec, p) \cap F = {}
      PROVE  /\ Of(new, p) = Of(rec, p)
             /\ \A t, u : Takes(rec, p, t, u) => Takes(new, p, t, u)
  <2>1. \A i \in Of(rec, p) : new[i] = rec[i]
    BY <1>3, OfFacts DEF Freed
  <2>2. \A i \in Of(rec, p) : new[i].next = rec[i].next
    BY <2>1
  <2>3. Of(new, p) = Of(rec, p)
    BY <1>1, <2>2, SameOf
  <2> QED
    BY <2>1, <2>3, SameTakes
<1> QED
  BY <1>1, <1>2, <1>3

\* The records of a list are freed.
LEMMA FreeChainIs ==
  ASSUME NEW e \in Editor, Sound(e.rec), NEW p \in Pointer, NEW d, d = FreeChain(e, p)
  PROVE  /\ d = [e EXCEPT !.rec = d.rec]
         /\ d.rec = [i \in Id |-> IF i \in Of(e.rec, p) THEN Free ELSE e.rec[i]]
         /\ d.rec \in [Id -> UndoRec]
<1>1. Range(Chain(e, p)) = Of(e.rec, p)
  BY OnOf DEF On
<1>2. PICK new : new = [i \in Id |-> IF i \in Of(e.rec, p) THEN Free ELSE e.rec[i]]
  OBVIOUS
<1>3. d = [e EXCEPT !.rec = new]
  BY <1>1, <1>2 DEF FreeChain
<1>4. d.rec = new
  BY <1>3 DEF Editor
<1>5. Sound(new)
  BY <1>2, FreedSound
<1> QED
  BY <1>2, <1>3, <1>4, <1>5 DEF Sound

\* rl_free_undo_list, when the entry in view has no records.
LEMMA FreeUndoListIs ==
  ASSUME NEW d, InOrder(d, NULL), OnEntry(d) => d.undo = NULL, NEW c, c = FreeUndoList(d)
  PROVE  /\ InOrder(c, NULL)
         /\ c.undo = NULL /\ c.text = d.text /\ c.list = d.list
         /\ c.offset = d.offset /\ c.saved = d.saved
         /\ \A o : Gives(d, o) => Gives(c, o)
<1>1. /\ d \in Editor /\ Sound(d.rec) /\ d.offset <= Len(d.list)
      /\ OnEntry(d) <=> d.saved # <<>>
      /\ Apart(Len(d.list), Place(d), Of(d.rec, d.undo), Lists(d), Of(d.rec, NULL), InUse(d.rec))
  BY DEF InOrder
<1>2. /\ d.undo \in Pointer /\ d.list \in Seq(Entry) /\ Len(d.list) \in Nat /\ NULL \in Pointer
      /\ DOMAIN d.list = 1 .. Len(d.list) /\ \A k \in 1 .. Len(d.list) : d.list[k] \in Entry
  BY <1>1, Parts, Pointers
<1>3. PICK U : U = Of(d.rec, d.undo)
  OBVIOUS
<1>4. Of(d.rec, NULL) = {}
  BY <1>1, OfFacts
<1>5. \A k \in 0 .. Len(d.list) : Lists(d)[k] \cap U = {}
  <2> SUFFICES ASSUME NEW k \in 0 .. Len(d.list) PROVE Lists(d)[k] \cap U = {}
    OBVIOUS
  <2>1. CASE OnEntry(d)
    BY <1>3, <1>4, <2>1
  <2>2. CASE ~OnEntry(d)
    <3>1. k # Place(d)
      BY <1>1, <1>2, <2>2, PlaceIs
    <3> QED
      BY <1>1, <1>3, <3>1 DEF Apart
  <2> QED
    BY <2>1, <2>2
<1>6. ASSUME NEW k \in 1 .. Len(d.list), d.list[k].data = d.undo PROVE d.undo = NULL
  <2>1. k \in 0 .. Len(d.list) /\ Lists(d)[k] = U
    BY <1>1, <1>2, <1>3, <1>6, HeadsAre
  <2>2. d.undo # NULL => d.undo \in U
    BY <1>1, <1>2, <1>3, OfFacts, Pointers
  <2> QED
    BY <1>5, <2>1, <2>2
<1>7. [k \in DOMAIN d.list |-> IF d.list[k].data = d.undo THEN [d.list[k] EXCEPT !.data = NULL]
                                                          ELSE d.list[k]] = d.list
  <2>1. ASSUME NEW k \in 1 .. Len(d.list), d.list[k].data = d.undo
        PROVE  [d.list[k] EXCEPT !.data = NULL] = d.list[k]
    <3>1. d.list[k].data = NULL /\ d.list[k] \in Entry
      BY <1>2, <1>6, <2>1
    <3> QED
      BY <3>1 DEF Entry
  <2>2. \A k \in DOMAIN d.list : (IF d.list[k].data = d.undo THEN [d.list[k] EXCEPT !.data = NULL]
                                                             ELSE d.list[k]) = d.list[k]
    BY <1>2, <2>1
  <2>3. d.list = [k \in DOMAIN d.list |-> d.list[k]]
    BY <1>2
  <2> QED
    BY <2>2, <2>3
<1>8. PICK b : b = FreeChain(d, d.undo)
  OBVIOUS
<1>9. PICK new \in [Id -> UndoRec] : /\ new = [i \in Id |-> IF i \in U THEN Free ELSE d.rec[i]]
                                     /\ b = [d EXCEPT !.rec = new]
  <2>1. /\ b = [d EXCEPT !.rec = b.rec]
        /\ b.rec = [i \in Id |-> IF i \in Of(d.rec, d.undo) THEN Free ELSE d.rec[i]]
        /\ b.rec \in [Id -> UndoRec]
    BY <1>1, <1>2, <1>8, FreeChainIs
  <2> QED
    BY <1>3, <2>1
<1>10. c = [d EXCEPT !.rec = new, !.undo = NULL]
  <2>1. PICK a : a = [b EXCEPT !.undo = NULL]
    OBVIOUS
  <2>2. a = [d EXCEPT !.rec = new, !.undo = NULL] /\ a.list = d.list
    BY <1>1, <1>9, <2>1 DEF Editor
  <2>3. c = [a EXCEPT !.list = d.list]
    <3>1. c = ReplaceData(a, d.undo, NULL)
      BY <1>8, <2>1 DEF FreeUndoList
    <3>2. PICK list : list = [k \in DOMAIN a.list |->
                                IF a.list[k].data = d.undo THEN [a.list[k] EXCEPT !.data = NULL]
                                                           ELSE a.list[k]]
      OBVIOUS
    <3>3. c = [a EXCEPT !.list = list]
      BY <3>1, <3>2 DEF ReplaceData
    <3>4. list = d.list
      BY <1>7, <2>2, <3>2
    <3> QED
      BY <3>3, <3>4
  <2> QED
    BY <1>1, <2>2, <2>3 DEF Editor
<1>11. /\ c.rec = new /\ c.undo = NULL /\ c.text = d.text /\ c.list = d.list
       /\ c.offset = d.offset /\ c.saved = d.saved
  BY <1>1, <1>10 DEF Editor
<1>12. c \in Editor
  BY <1>1, <1>2, <1>9, <1>10 DEF Editor, UndoRec, Text
<1>13. /\ Sound(new) /\ InUse(new) = InUse(d.rec) \ U
       /\ \A p \in Pointer : Of(d.rec, p) \cap U = {} =>
            /\ Of(new, p) = Of(d.rec, p)
            /\ \A t, u : Takes(d.rec, p, t, u) => Takes(new, p, t, u)
  <2>1. Freed(d.rec, U, new)
    BY <1>9 DEF Freed
  <2> QED
    BY <1>1, <2>1, FreedIs
<1>14. /\ Heads(c) = Heads(d) /\ Place(c) = Place(d) /\ (OnEntry(c) <=> OnEntry(d))
  BY <1>11 DEF Heads, Place, OnEntry
<1>15. \A k \in 0 .. Len(d.list) : /\ Heads(d)[k] \in Pointer /\ Lists(d)[k] = Of(d.rec, Heads(d)[k])
                                   /\ Of(d.rec, Heads(d)[k]) \cap U = {}
  BY <1>1, <1>5, HeadsAre
<1>16. Lists(c) = Lists(d)
  <2>1. \A k \in 0 .. Len(d.list) : Of(new, Heads(d)[k]) = Of(d.rec, Heads(d)[k])
    BY <1>13, <1>15
  <2> QED
    BY <1>11, <1>14, <2>1 DEF Lists
<1>17. InOrder(c, NULL)
  <2>1. Of(new, NULL) = {}
    BY <1>13, OfFacts
  <2>2. Place(d) \in 0 .. Len(d.list) => Lists(d)[Place(d)] = {}
    <3>1. Place(d) \in 0 .. Len(d.list) => Lists(d)[Place(d)] \subseteq U
      BY <1>1, <1>3 DEF Apart
    <3> QED
      BY <1>5, <3>1
  <2>3. Apart(Len(d.list), Place(d), {}, Lists(d), {}, InUse(d.rec) \ U)
    <3>1. \A i : i \in InUse(d.rec) \ U <=> \E k \in 0 .. Len(d.list) : i \in Lists(d)[k]
      <4>1. \A i : i \in InUse(d.rec) <=> i \in U \/ \E k \in 0 .. Len(d.list) : i \in Lists(d)[k]
        BY <1>1, <1>3, <1>4 DEF Apart
      <4> QED
        BY <1>5, <4>1
    <3> QED
      BY <1>1, <2>2, <3>1 DEF Apart
  <2> QED
    BY <1>1, <1>2, <1>11, <1>12, <1>13, <1>14, <1>16, <2>1, <2>3 DEF InOrder
<1>18. ASSUME NEW o, Gives(d, o) PROVE Gives(c, o)
  <2>1. ASSUME NEW k \in 1 .. Len(d.list) PROVE Takes(new, d.list[k].data, d.list[k].line, o[k])
    <3>1. Takes(d.rec, d.list[k].data, d.list[k].line, o[k])
      BY <1>18 DEF Gives
    <3>2. k \in 0 .. Len(d.list) /\ Heads(d)[k] = d.list[k].data
      BY <1>1, <1>2, HeadsAre
    <3> QED
      BY <1>13, <1>15, <3>1, <3>2
  <2>2. ASSUME d.saved # <<>> PROVE Takes(new, d.saved[1].data, d.saved[1].line, o[0])
    <3>1. Takes(d.rec, d.saved[1].data, d.saved[1].line, o[0])
      BY <1>18, <2>2 DEF Gives
    <3>2. 0 \in 0 .. Len(d.list) /\ Heads(d)[0] = d.saved[1].data
      BY <1>1, <1>2, <2>2, HeadsAre
    <3> QED
      BY <1>13, <1>15, <3>1, <3>2
  <2> QED
    BY <1>11, <2>1, <2>2 DEF Gives
<1> QED
  BY <1>11, <1>17, <1>18

\* _rl_free_saved_history_line, when the line has no records.
LEMMA FreeSavedIs ==
  ASSUME NEW d, InOrder(d, NULL), d.undo = NULL, NEW c, c = FreeSaved(d)
  PROVE  /\ c \in Editor /\ Sound(c.rec) /\ c.undo = NULL /\ c.saved = <<>>
         /\ c.list = d.list /\ c.text = d.text
         /\ Apart(Len(d.list), Len(d.list) + 1, {}, Lists(c), {}, InUse(c.rec))
         /\ \A o : Gives(d, o) => Gives(c, o)
<1>1. /\ d \in Editor /\ Sound(d.rec) /\ d.offset <= Len(d.list)
      /\ OnEntry(d) <=> d.saved # <<>>
      /\ Apart(Len(d.list), Place(d), Of(d.rec, d.undo), Lists(d), Of(d.rec, NULL), InUse(d.rec))
  BY DEF InOrder
<1>2. Of(d.rec, NULL) = {} /\ Len(d.list) \in Nat /\ Len(d.list) + 1 \notin 0 .. Len(d.list)
      /\ NULL \in Pointer /\ 0 \in 0 .. Len(d.list)
  BY <1>1, OfFacts, Parts, Pointers
<1>3. Apart(Len(d.list), Len(d.list) + 1, {}, Lists(d), {}, InUse(d.rec))
  BY <1>1, <1>2 DEF Apart
<1>4. CASE d.saved = <<>>
  <2>1. c = d
    BY <1>4 DEF FreeSaved
  <2> QED
    BY <1>1, <1>3, <1>4, <2>1
<1>5. CASE d.saved # <<>>
  <2>1. PICK p \in Pointer : p = d.saved[1].data
    BY <1>1, <1>5, Parts
  <2>2. PICK b : b = FreeChain(d, p)
    OBVIOUS
  <2>3. PICK new \in [Id -> UndoRec] : /\ new = [i \in Id |-> IF i \in Of(d.rec, p) THEN Free ELSE d.rec[i]]
                                       /\ b = [d EXCEPT !.rec = new]
    <3>1. /\ b = [d EXCEPT !.rec = b.rec]
          /\ b.rec = [i \in Id |-> IF i \in Of(d.rec, p) THEN Free ELSE d.rec[i]]
          /\ b.rec \in [Id -> UndoRec]
      BY <1>1, <2>2, FreeChainIs
    <3> QED
      BY <3>1
  <2>4. b.undo = NULL /\ b.saved = d.saved
    BY <1>1, <2>3 DEF Editor
  <2>5. c = [b EXCEPT !.undo = NULL, !.saved = <<>>]
    BY <1>5, <2>1, <2>2, <2>4 DEF FreeSaved
  <2>6. /\ c.rec = new /\ c.undo = NULL /\ c.saved = <<>> /\ c.list = d.list /\ c.text = d.text
        /\ c.offset = d.offset
    BY <1>1, <2>3, <2>5 DEF Editor
  <2>7. c \in Editor
    BY <1>1, <1>2, <2>3, <2>5 DEF Editor, UndoRec, Text
  <2>8. /\ Sound(new) /\ InUse(new) = InUse(d.rec) \ Of(d.rec, p)
        /\ \A q \in Pointer : Of(d.rec, q) \cap Of(d.rec, p) = {} =>
             /\ Of(new, q) = Of(d.rec, q)
             /\ \A t, u : Takes(d.rec, q, t, u) => Takes(new, q, t, u)
    <3>1. Freed(d.rec, Of(d.rec, p), new)
      BY <2>3 DEF Freed
    <3> QED
      BY <1>1, <3>1, FreedIs
  <2>9. Lists(d)[0] = Of(d.rec, p)
    BY <1>1, <1>2, <1>5, <2>1, HeadsAre
  <2>10. \A k \in 1 .. Len(d.list) : /\ k \in 0 .. Len(d.list) /\ k # 0
                                     /\ Lists(d)[k] = Of(d.rec, d.list[k].data)
                                     /\ d.list[k].data \in Pointer
                                     /\ Lists(d)[k] \cap Of(d.rec, p) = {}
    <3>1. \A k \in 1 .. Len(d.list) : k \in 0 .. Len(d.list) /\ k # 0
      BY <1>2
    <3>2. \A k \in 1 .. Len(d.list) : Lists(d)[k] = Of(d.rec, d.list[k].data) /\ d.list[k].data \in Pointer
      BY <1>1, <3>1, HeadsAre, Parts
    <3>3. \A k \in 1 .. Len(d.list) : Lists(d)[k] \cap Lists(d)[0] = {}
      BY <1>2, <1>3, <3>1 DEF Apart
    <3> QED
      BY <2>9, <3>1, <3>2, <3>3
  <2>11. Lists(c)[0] = {} /\ \A k \in 1 .. Len(d.list) : Lists(c)[k] = Lists(d)[k]
    <3>1. /\ Heads(c)[0] = NULL /\ \A k \in 1 .. Len(d.list) : Heads(c)[k] = d.list[k].data
          /\ \A k \in 0 .. Len(d.list) : Lists(c)[k] = Of(new, Heads(c)[k])
      BY <2>6, <2>7, HeadsAre
    <3>2. Of(new, NULL) = {}
      BY <2>8, OfFacts
    <3>3. \A k \in 1 .. Len(d.list) : Of(new, d.list[k].data) = Lists(d)[k]
      BY <2>8, <2>10
    <3> QED
      BY <1>2, <2>10, <3>1, <3>2, <3>3
  <2>12. Apart(Len(d.list), Len(d.list) + 1, {}, Lists(c), {}, InUse(new))
    <3>1. \A k \in 0 .. Len(d.list) : k = 0 \/ k \in 1 .. Len(d.list)
      BY <1>2
    <3>2. \A k, j \in 0 .. Len(d.list) : k # j => Lists(c)[k] \cap Lists(c)[j] = {}
      BY <1>3, <2>10, <2>11, <3>1 DEF Apart
    <3>3. \A i : i \in InUse(new) <=> \E k \in 0 .. Len(d.list) : i \in Lists(c)[k]
      <4>1. \A i : i \in InUse(d.rec) <=> \E k \in 0 .. Len(d.list) : i \in Lists(d)[k]
        BY <1>3 DEF Apart
      <4>2. ASSUME NEW i PROVE (i \in InUse(d.rec) /\ i \notin Of(d.rec, p))
                                 <=> \E k \in 1 .. Len(d.list) : i \in Lists(d)[k]
        BY <1>2, <2>9, <2>10, <3>1, <4>1
      <4>3. ASSUME NEW i PROVE (\E k \in 0 .. Len(d.list) : i \in Lists(c)[k])
                                 <=> \E k \in 1 .. Len(d.list) : i \in Lists(d)[k]
        BY <2>10, <2>11, <3>1
      <4> QED
        BY <2>8, <4>2, <4>3
    <3> QED
      BY <1>2, <3>2, <3>3 DEF Apart
  <2>13. ASSUME NEW o, Gives(d, o) PROVE Gives(c, o)
    <3>1. \A k \in 1 .. Len(d.list) : Takes(new, d.list[k].data, d.list[k].line, o[k])
      BY <2>8, <2>10, <2>13 DEF Gives
    <3> QED
      BY <2>6, <3>1 DEF Gives
  <2> QED
    BY <2>6, <2>7, <2>8, <2>12, <2>13
<1> QED
  BY <1>4, <1>5

-----------------------------------------------------------------------------
(* Accepting a line: the next one *)

\* The line accepted, as the entry it becomes: none when it is empty.
NewLine(t) == IF t = <<>> THEN <<>> ELSE <<t>>

\* The texts b go on after the first n of s with the text t up to n2.
Longer(s, t, n, n2, b) ==
  /\ \A k \in 1 .. n : b[k] = s[k]
  /\ \A k \in 1 .. n2 : k \notin 1 .. n => b[k] = t

\* The number of lines when there is one more, unless it is empty.
OneMore(n, t) == IF t = <<>> THEN n ELSE n + 1

\* The texts b are s and one more, and w is b and an empty text.
AddsLine(s, t, b, w) == b = s \o NewLine(t) /\ w = b \o <<<<>>>>

\* What is in the texts of all lines and one more.
LEMMA OneMoreLine ==
  ASSUME NEW s \in Seq(Text), NEW t \in Text, NEW n \in Nat, Len(s) = n,
         NEW n2, n2 = OneMore(n, t), NEW b, NEW w, AddsLine(s, t, b, w)
  PROVE  /\ n2 \in Nat /\ b \in Seq(Text) /\ Len(b) = n2
         /\ w \in Seq(Text) /\ Len(w) = n2 + 1 /\ w[n2 + 1] = <<>>
         /\ Longer(s, t, n, n2, b) /\ Longer(s, t, n, n2, w)
<1>1. <<>> \in Text
  BY DEF Text
<1>2. PICK e \in Text : e = <<>>
  BY <1>1
<1>3. w = b \o <<e>> /\ b = s \o NewLine(t)
  BY <1>2 DEF AddsLine
<1>4. CASE t = <<>>
  <2>1. NewLine(t) = <<>> /\ n2 = n
    BY <1>4 DEF NewLine, OneMore
  <2>2. b = s
    BY <1>3, <2>1
  <2>3. /\ s \o <<e>> \in Seq(Text) /\ Len(s \o <<e>>) = n + 1
        /\ \A k \in 1 .. n : (s \o <<e>>)[k] = s[k]
        /\ (s \o <<e>>)[n + 1] = e
    OBVIOUS
  <2> QED
    BY <1>2, <1>3, <2>1, <2>2, <2>3 DEF Longer
<1>5. CASE t # <<>>
  <2>1. NewLine(t) = <<t>> /\ n2 = n + 1
    BY <1>5 DEF NewLine, OneMore
  <2>2. b = s \o <<t>>
    BY <1>3, <2>1
  <2>3. /\ b \in Seq(Text) /\ Len(b) = n + 1
        /\ \A k \in 1 .. n : b[k] = s[k]
        /\ b[n + 1] = t
    BY <2>2
  <2>4. /\ b \o <<e>> \in Seq(Text) /\ Len(b \o <<e>>) = n + 2
        /\ \A k \in 1 .. n + 1 : (b \o <<e>>)[k] = b[k]
        /\ (b \o <<e>>)[n + 2] = e
    <3>1. \A x \in Seq(Text) : \A y \in Text :
            /\ x \o <<y>> \in Seq(Text) /\ Len(x \o <<y>>) = Len(x) + 1
            /\ \A k \in 1 .. Len(x) : (x \o <<y>>)[k] = x[k]
            /\ (x \o <<y>>)[Len(x) + 1] = y
      OBVIOUS
    <3>2. Len(b) + 1 = n + 2
      BY <2>3
    <3>3. e \in Text /\ b \in Seq(Text) /\ Len(b) = n + 1
      BY <2>3
    <3> QED
      BY ONLY <3>1, <3>2, <3>3
  <2>5. \A k \in 1 .. n2 : k \notin 1 .. n => k = n + 1
    BY <2>1
  <2>6. n + 1 \in 1 .. n + 1 /\ \A k \in 1 .. n : k \in 1 .. n + 1
    OBVIOUS
  <2>7. n2 + 1 = n + 2
    BY <2>1
  <2>8. Longer(s, t, n, n2, b)
    BY <2>3, <2>5 DEF Longer
  <2>9. Longer(s, t, n, n2, w)
    BY <1>3, <2>3, <2>4, <2>5, <2>6 DEF Longer
  <2> QED
    BY <1>2, <1>3, <2>1, <2>3, <2>4, <2>7, <2>8, <2>9
<1> QED
  BY <1>4, <1>5

\* Unless a character was merged, the entries are v and give back o.
EntriesAre(c, o, v, m) ==
  ~m => Gives(c, o) /\ \A k \in 1 .. Len(c.list) : c.list[k].line = v[k]

\* a is past its entries, which are those of c and its line unless that is empty,
\* with so many texts in p, and one more in w.
OneEntryMore(c, a, p, w) ==
  /\ Len(a.list) = OneMore(Len(c.list), c.text) /\ a.offset = Len(a.list)
  /\ p \in Seq(Text) /\ Len(p) = Len(a.list)
  /\ w \in Seq(Text) /\ Len(w) = Len(a.list) + 1

\* The next line: the line accepted is the last entry, and nothing is typed yet.
LEMMA NextLineKept ==
  ASSUME NEW c, InOrder(c, NULL), c.undo = NULL,
         NEW m, NEW o \in Seq(Text), Len(o) = Len(c.list),
         NEW x0, NEW v \in Seq(Text), Len(v) = Len(c.list), EntriesAre(c, Based(x0, o), v, m),
         NEW a, a = NextLine(c), NEW p, NEW p2, AddsLine(o, c.text, p, p2),
         NEW w, NEW w2, AddsLine(v, c.text, w2, w)
  PROVE  Kept(a, Based(<<>>, p), w, m) /\ OneEntryMore(c, a, p, w)
<1>1. /\ c \in Editor /\ c.text \in Text /\ c.list \in Seq(Entry) /\ Len(c.list) \in Nat
      /\ NULL \in Pointer
  BY Parts, Pointers DEF InOrder
<1>2. PICK n \in Nat : n = Len(c.list)
  BY <1>1
<1>3. PICK f : f = FreeSaved(c)
  OBVIOUS
<1>4. /\ f \in Editor /\ Sound(f.rec) /\ f.undo = NULL /\ f.saved = <<>>
      /\ f.list = c.list /\ f.text = c.text
      /\ Apart(n, n + 1, {}, Lists(f), {}, InUse(f.rec))
      /\ Gives(c, Based(x0, o)) => Gives(f, Based(x0, o))
  BY <1>2, <1>3, FreeSavedIs
<1>5. PICK x \in Entry : x = [line |-> c.text, data |-> NULL] /\ x.line = c.text /\ x.data = NULL
  <2>1. [line |-> c.text, data |-> NULL] \in Entry
    BY <1>1 DEF Entry, Text
  <2>2. [line |-> c.text, data |-> NULL].line = c.text /\ [line |-> c.text, data |-> NULL].data = NULL
    OBVIOUS
  <2> QED
    BY <2>1, <2>2
<1>6. PICK list : list = IF c.text = <<>> THEN c.list ELSE Append(c.list, x)
  OBVIOUS
<1>7. PICK n2 \in Nat : n2 = IF c.text = <<>> THEN n ELSE n + 1
  BY <1>2
<1>8. /\ list \in Seq(Entry) /\ Len(list) = n2
      /\ \A k \in 1 .. n : list[k] = c.list[k]
      /\ \A k \in 1 .. n2 : k \notin 1 .. n => list[k] = x
  <2>1. CASE c.text = <<>>
    BY <1>1, <1>2, <1>6, <1>7, <2>1
  <2>2. CASE c.text # <<>>
    <3>1. /\ Append(c.list, x) \in Seq(Entry) /\ Len(Append(c.list, x)) = n + 1
          /\ \A k \in 1 .. n : Append(c.list, x)[k] = c.list[k]
          /\ Append(c.list, x)[n + 1] = x
      BY <1>1, <1>2
    <3>2. \A k \in 1 .. n2 : k \notin 1 .. n => k = n + 1
      BY <1>7, <2>2
    <3> QED
      BY <1>6, <1>7, <2>2, <3>1, <3>2
  <2> QED
    BY <2>1, <2>2
<1>9. a = [f EXCEPT !.list = list, !.offset = n2, !.text = <<>>, !.point = 0]
  BY <1>3, <1>5, <1>6, <1>8 DEF NextLine
<1>10. /\ a.list = list /\ a.offset = n2 /\ a.text = <<>> /\ a.point = 0
       /\ a.undo = NULL /\ a.saved = <<>> /\ a.rec = f.rec
  BY <1>4, <1>9 DEF Editor
<1>11. a \in Editor
  <2>1. <<>> \in Text /\ 0 \in Nat
    BY DEF Text
  <2> QED
    BY <1>4, <1>8, <1>9, <2>1 DEF Editor, Text
<1>12. Place(a) = n2 + 1 /\ ~OnEntry(a) /\ a.offset <= Len(a.list)
  BY <1>8, <1>10 DEF Place, OnEntry
<1>13. Of(f.rec, NULL) = {}
  BY <1>4, OfFacts
<1>14. /\ \A k \in 0 .. n : k \in 0 .. n2 /\ Lists(a)[k] = Lists(f)[k]
       /\ \A k \in 0 .. n2 : k \notin 0 .. n => Lists(a)[k] = {}
  <2>1. /\ Heads(a)[0] = NULL /\ \A k \in 1 .. n2 : Heads(a)[k] = list[k].data
        /\ \A k \in 0 .. n2 : Lists(a)[k] = Of(f.rec, Heads(a)[k])
    <3>1. /\ Heads(a)[0] = IF a.saved = <<>> THEN NULL ELSE a.saved[1].data
          /\ \A k \in 1 .. Len(a.list) : Heads(a)[k] = a.list[k].data
          /\ \A k \in 0 .. Len(a.list) : Lists(a)[k] = Of(a.rec, Heads(a)[k])
      BY <1>11, HeadsAre
    <3>2. Len(a.list) = n2 /\ a.list = list /\ a.saved = <<>> /\ a.rec = f.rec
      BY <1>8, <1>10
    <3> QED
      BY <3>1, <3>2
  <2>2. /\ Heads(f)[0] = NULL /\ \A k \in 1 .. n : Heads(f)[k] = c.list[k].data
        /\ \A k \in 0 .. n : Lists(f)[k] = Of(f.rec, Heads(f)[k])
    BY <1>2, <1>4, HeadsAre
  <2>3. /\ \A k \in 0 .. n : k \in 0 .. n2 /\ (k = 0 \/ (k \in 1 .. n /\ k \in 1 .. n2))
        /\ \A k \in 0 .. n2 : k \notin 0 .. n => k \in 1 .. n2 /\ k \notin 1 .. n
    BY <1>7
  <2>4. \A k \in 0 .. n : Heads(a)[k] = Heads(f)[k]
    <3>1. \A k \in 1 .. n : k \in 1 .. n2
      BY <1>7
    <3>2. \A k \in 1 .. n : Heads(a)[k] = Heads(f)[k]
      BY <1>8, <2>1, <2>2, <3>1
    <3>3. Heads(a)[0] = Heads(f)[0]
      BY <2>1, <2>2
    <3>4. \A k \in 0 .. n : k = 0 \/ k \in 1 .. n
      OBVIOUS
    <3> QED
      BY <3>2, <3>3, <3>4
  <2>5. \A k \in 0 .. n2 : k \notin 0 .. n => Heads(a)[k] = NULL
    BY <1>5, <1>8, <2>1, <2>3
  <2> QED
    BY <1>13, <2>1, <2>2, <2>3, <2>4, <2>5
<1>15. Apart(n2, n2 + 1, {}, Lists(a), {}, InUse(f.rec))
  <2>1. n2 + 1 \notin 0 .. n2
    OBVIOUS
  <2>2. \A k, j \in 0 .. n2 : k # j => Lists(a)[k] \cap Lists(a)[j] = {}
    <3> SUFFICES ASSUME NEW k \in 0 .. n2, NEW j \in 0 .. n2, k # j
                 PROVE  Lists(a)[k] \cap Lists(a)[j] = {}
      OBVIOUS
    <3>1. CASE k \in 0 .. n /\ j \in 0 .. n
      BY <1>4, <1>14, <3>1 DEF Apart
    <3>2. CASE ~(k \in 0 .. n /\ j \in 0 .. n)
      BY <1>14, <3>2
    <3> QED
      BY <3>1, <3>2
  <2>3. \A i : i \in InUse(f.rec) <=> \E k \in 0 .. n2 : i \in Lists(a)[k]
    <3>1. \A i : i \in InUse(f.rec) <=> \E k \in 0 .. n : i \in Lists(f)[k]
      BY <1>4 DEF Apart
    <3> QED
      BY <1>14, <3>1
  <2> QED
    BY <2>1, <2>2, <2>3 DEF Apart
<1>16. InOrder(a, NULL)
  BY <1>1, <1>4, <1>8, <1>10, <1>11, <1>12, <1>13, <1>15 DEF InOrder
<1>17. PointIn(a)
  BY <1>10 DEF PointIn
<1>18. c.text \in Text /\ Len(o) = n /\ Len(v) = n /\ n2 = OneMore(n, c.text)
  BY <1>1, <1>2, <1>7 DEF OneMore
<1>19. /\ p \in Seq(Text) /\ Len(p) = n2 /\ Longer(o, c.text, n, n2, p)
       /\ w \in Seq(Text) /\ Len(w) = n2 + 1 /\ Longer(v, c.text, n, n2, w)
       /\ w[n2 + 1] = <<>>
  BY <1>18, OneMoreLine
<1>20. /\ \A k \in 1 .. n : p[k] = o[k] /\ w[k] = v[k]
       /\ \A k \in 1 .. n2 : k \notin 1 .. n => p[k] = c.text /\ w[k] = c.text
       /\ w[n2 + 1] = <<>>
  BY <1>19 DEF Longer
<1>21. ASSUME ~m PROVE Tells(a, Based(<<>>, p), w)
  <2>0. /\ \A k \in 1 .. n : Based(x0, o)[k] = o[k]
        /\ \A k \in 1 .. n2 : Based(<<>>, p)[k] = p[k]
        /\ Based(<<>>, p)[0] = <<>>
    <3>1. Len(o) = n /\ Len(p) = n2
      BY <1>18, <1>19
    <3> QED
      BY <3>1, BasedIs
  <2>1. Gives(f, Based(x0, o)) /\ \A k \in 1 .. n : c.list[k].line = v[k]
    BY <1>2, <1>4, <1>21 DEF EntriesAre
  <2>2. ASSUME NEW k \in 1 .. n2
        PROVE  Takes(f.rec, list[k].data, list[k].line, p[k]) /\ list[k].line = w[k]
    <3>1. CASE k \in 1 .. n
      BY <1>2, <1>4, <1>8, <1>20, <2>0, <2>1, <3>1 DEF Gives
    <3>2. CASE k \notin 1 .. n
      <4>1. list[k] = x /\ p[k] = c.text /\ w[k] = c.text
        BY <1>8, <1>20, <3>2
      <4>2. Takes(f.rec, NULL, c.text, c.text)
        BY <1>1, TakesNone
      <4> QED
        BY <1>5, <4>1, <4>2
    <3> QED
      BY <3>1, <3>2
  <2>3. Gives(a, Based(<<>>, p))
    BY <1>8, <1>10, <2>0, <2>2 DEF Gives
  <2>4. LineTakes(a, a.text, Origin(a, Based(<<>>, p)))
    <3>1. <<>> \in Text
      BY DEF Text
    <3>2. PICK t \in Text : t = <<>>
      BY <3>1
    <3>3. Takes(f.rec, NULL, t, t)
      BY TakesNone
    <3> QED
      BY <1>10, <1>12, <2>0, <3>2, <3>3 DEF LineTakes, Origin
  <2>5. Meets(a, a.text)
    BY <1>12 DEF Meets
  <2>6. Shows(a, w)
    BY <1>8, <1>10, <1>12, <1>20, <2>2 DEF Shows
  <2> QED
    BY <2>3, <2>4, <2>5, <2>6 DEF Tells
<1>22. Kept(a, Based(<<>>, p), w, m)
  BY <1>16, <1>17, <1>21 DEF Kept
<1> QED
  BY <1>2, <1>8, <1>10, <1>18, <1>19, <1>22 DEF OneEntryMore

\* The lines the user expects when the line of e is accepted: the entry in view,
\* or all entries, as they were, and the others as they were last seen.
ExpectedLines(e, o, v, all, kept) ==
  kept = [k \in DOMAIN o |-> IF all \/ k = Place(e) THEN o[k] ELSE v[k]]

\* Accepting the line keeps the invariant, and adds at most one entry.
LEMMA AcceptedKept ==
  ASSUME NEW e, NEW m, NEW o \in Seq(Text), Len(o) = Len(e.list),
         NEW x0, NEW v \in Seq(Text), Len(v) = Len(e.list) + 1, Kept(e, Based(x0, o), v, m),
         NEW all \in BOOLEAN, NEW kept, ExpectedLines(e, o, v, all, kept),
         NEW p, NEW p2, AddsLine(o, e.text, p, p2),
         NEW w, NEW w2, AddsLine(kept, e.text, w2, w),
         NEW a, a = Accepted(e, all)
  PROVE  Kept(a, Based(<<>>, p), w, m) /\ OneEntryMore(e, a, p, w)
<1>1. /\ e \in Editor /\ e.text \in Text /\ Len(e.list) \in Nat /\ e.offset <= Len(e.list)
      /\ InOrder(e, NULL)
  BY Parts DEF Kept, InOrder
<1>2. PICK n \in Nat : n = Len(e.list)
  BY <1>1
<1>3. /\ DOMAIN o = 1 .. n /\ DOMAIN v = 1 .. n + 1 /\ Len(o) = n
      /\ \A k \in 1 .. n : Based(x0, o)[k] = o[k]
  BY <1>2, BasedIs
<1>4. /\ \A k \in 1 .. n : kept[k] = IF all \/ k = Place(e) THEN o[k] ELSE v[k]
      /\ kept \in Seq(Text) /\ Len(kept) = n
  <2>1. /\ kept = [k \in 1 .. n |-> IF all \/ k = Place(e) THEN o[k] ELSE v[k]]
        /\ DOMAIN kept = 1 .. n
        /\ \A k \in 1 .. n : kept[k] = IF all \/ k = Place(e) THEN o[k] ELSE v[k]
    BY <1>3 DEF ExpectedLines
  <2>2. \A k \in 1 .. n : kept[k] \in Text
    <3>1. \A k \in 1 .. n : o[k] \in Text /\ v[k] \in Text
      BY <1>3
    <3> QED
      BY <2>1, <3>1
  <2>3. kept \in [1 .. n -> Text]
    BY <2>1, <2>2
  <2>4. kept \in Seq(Text) /\ Len(kept) = n
    <3>1. \A j \in Nat : \A y \in [1 .. j -> Text] : y \in Seq(Text) /\ Len(y) = j
      OBVIOUS
    <3>2. n \in Nat
      OBVIOUS
    <3> QED
      BY ONLY <2>3, <3>1, <3>2
  <2> QED
    BY <2>1, <2>4
<1>5. PICK d : d = Restored(e)
  OBVIOUS
<1>6. /\ InOrder(d, NULL) /\ d.text = e.text /\ Len(d.list) = n
      /\ OnEntry(d) => d.undo = NULL
      /\ \A k \in 1 .. n : k # Place(e) => d.list[k].line = e.list[k].line
      /\ ~m => Gives(d, Based(x0, o))
      /\ ~m /\ OnEntry(e) => d.list[Place(e)].line = o[Place(e)]
      /\ OnEntry(d) <=> OnEntry(e)
  <2>1. OnEntry(e) => Based(x0, o)[Place(e)] = o[Place(e)]
    BY <1>1, <1>2, <1>3, PlaceIs
  <2> QED
    BY <1>2, <1>5, <2>1, RestoredIs
<1>7. PICK c : c = IF all THEN RevertAll(d) ELSE d
  OBVIOUS
<1>8. /\ InOrder(c, NULL) /\ c.text = e.text /\ Len(c.list) = n
      /\ OnEntry(c) => c.undo = NULL
      /\ ~m => Gives(c, Based(x0, o))
      /\ ~m => \A k \in 1 .. n : c.list[k].line = kept[k]
  <2>1. CASE all
    <3>1. c = RevertAll(d)
      BY <1>7, <2>1
    <3>3. ~m => Gives(d, Based(x0, o))
      BY <1>6
    <3>4. /\ InOrder(c, NULL) /\ c.text = d.text /\ c.undo = d.undo /\ c.offset = d.offset
          /\ Len(c.list) = Len(d.list)
          /\ ~m => Gives(c, Based(x0, o))
          /\ ~m => \A k \in 1 .. Len(d.list) : c.list[k].line = o[k]
      <4>1. /\ InOrder(c, NULL) /\ c.text = d.text /\ c.undo = d.undo /\ c.offset = d.offset
            /\ Len(c.list) = Len(d.list)
            /\ ~m => /\ Gives(c, Based(x0, o))
                     /\ \A k \in 1 .. Len(d.list) : c.list[k].line = Based(x0, o)[k]
        <5>1. PICK q : q = Based(x0, o)
          OBVIOUS
        <5>2. GivesUnless(m, d, q)
          BY <3>3, <5>1 DEF GivesUnless
        <5>3. InOrder(d, NULL) /\ (OnEntry(d) => d.undo = NULL)
          BY <1>6
        <5>4. /\ InOrder(c, NULL)
              /\ c.text = d.text /\ c.undo = d.undo /\ c.offset = d.offset /\ c.saved = d.saved
              /\ Len(c.list) = Len(d.list)
              /\ ~m => Gives(c, q) /\ \A k \in 1 .. Len(d.list) : c.list[k].line = q[k]
          BY ONLY <3>1, <5>2, <5>3, RevertAllIs
        <5> QED
          BY <5>1, <5>4
      <4> QED
        BY <1>3, <1>6, <4>1
    <3>5. OnEntry(c) <=> OnEntry(d)
      BY <3>4 DEF OnEntry
    <3>6. ~m => \A k \in 1 .. n : c.list[k].line = kept[k]
      BY <1>4, <1>6, <2>1, <3>4
    <3> QED
      BY <1>6, <3>4, <3>5, <3>6
  <2>2. CASE ~all
    <3>1. c = d
      BY <1>7, <2>2
    <3>2. ASSUME ~m, NEW k \in 1 .. n PROVE c.list[k].line = kept[k]
      <4>1. CASE k = Place(e)
        <5>1. OnEntry(e)
          BY <1>1, <1>2, <4>1, PlaceIs
        <5> QED
          BY <1>4, <1>6, <3>1, <3>2, <4>1, <5>1
      <4>2. CASE k # Place(e)
        <5>1. e.list[k].line = v[k]
          BY <1>2, <3>2, <4>2 DEF Kept, Tells, Shows
        <5> QED
          BY <1>4, <1>6, <2>2, <3>1, <4>2, <5>1
      <4> QED
        BY <4>1, <4>2
    <3>3. ~m => \A k \in 1 .. n : c.list[k].line = kept[k]
      BY <3>2
    <3> QED
      BY <1>6, <3>1, <3>3
  <2> QED
    BY <2>1, <2>2
<1>9. PICK f : f = FreeUndoList(c)
  OBVIOUS
<1>10. /\ InOrder(f, NULL) /\ f.undo = NULL /\ f.text = e.text /\ f.list = c.list
       /\ \A x : Gives(c, x) => Gives(f, x)
  BY <1>8, <1>9, FreeUndoListIs
<1>11. a = NextLine(f)
  BY <1>5, <1>7, <1>9 DEF Accepted
<1>12. ~m => Gives(f, Based(x0, o))
  BY <1>8, <1>10
<1>13. Len(f.list) = n /\ Len(o) = Len(f.list) /\ Len(kept) = Len(f.list)
  BY <1>3, <1>4, <1>8, <1>10
<1>14. EntriesAre(f, Based(x0, o), kept, m)
  BY <1>8, <1>10, <1>12, <1>13 DEF EntriesAre
<1>15. AddsLine(o, f.text, p, p2) /\ AddsLine(kept, f.text, w2, w)
  BY <1>10
<1>16. Kept(a, Based(<<>>, p), w, m) /\ OneEntryMore(f, a, p, w)
  <2>1. o \in Seq(Text) /\ kept \in Seq(Text)
    BY <1>4
  <2>2. InOrder(f, NULL) /\ f.undo = NULL
    BY <1>10
  <2> QED
    BY ONLY <2>1, <2>2, <1>11, <1>13, <1>14, <1>15, NextLineKept
<1> QED
  BY <1>2, <1>10, <1>13, <1>16 DEF OneEntryMore

-----------------------------------------------------------------------------
(* The characters of a text *)

\* Texts with the same characters are the same.
LEMMA SameText ==
  ASSUME NEW t \in Text, NEW u \in Text, Len(t) = Len(u), \A k \in 1 .. Len(t) : t[k] = u[k]
  PROVE  t = u
BY DEF Text

\* The characters of a part of a text.
LEMMA PartIs ==
  ASSUME NEW t \in Text, NEW m \in Nat \ {0}, NEW n \in Nat, n <= Len(t),
         NEW k \in Nat \ {0}, k <= n - m + 1
  PROVE  SubSeq(t, m, n)[k] = t[m + k - 1]
BY DEF Text

\* The characters of joined texts.
LEMMA JoinedIs ==
  ASSUME NEW t \in Text, NEW u \in Text, NEW k \in Nat \ {0}, k <= Len(t) + Len(u)
  PROVE  (t \o u)[k] = IF k <= Len(t) THEN t[k] ELSE u[k - Len(t)]
BY DEF Text

\* The part of a text between two places.
LEMMA PartBetween ==
  ASSUME NEW t \in Text, NEW to \in 0 .. Len(t), NEW from \in 0 .. to
  PROVE  \E c \in Text : /\ c = SubSeq(t, from + 1, to) /\ Len(c) = to - from
                         /\ \A k \in Nat \ {0} : k <= to - from => c[k] = t[from + k]
<1>1. Len(t) \in Nat /\ to \in Nat /\ from \in Nat /\ to <= Len(t) /\ from <= to
  BY TextLen
<1>2. PICK n \in Nat \ {0} : n = from + 1
  BY <1>1
<1>3. SubSeq(t, n, to) \in Text /\ Len(SubSeq(t, n, to)) = IF n <= to THEN to - n + 1 ELSE 0
  BY <1>1, PartOfText
<1>4. (IF n <= to THEN to - n + 1 ELSE 0) = to - from
  BY <1>1, <1>2
<1>5. ASSUME NEW k \in Nat \ {0}, k <= to - from PROVE SubSeq(t, n, to)[k] = t[from + k]
  <2>1. k <= to - n + 1 /\ n + k - 1 = from + k
    BY <1>1, <1>2, <1>5
  <2>2. SubSeq(t, n, to)[k] = t[n + k - 1]
    BY <1>1, <2>1, PartIs
  <2> QED
    BY <2>1, <2>2
<1> QED
  BY <1>2, <1>3, <1>4, <1>5

\* b is t and u, with m and n characters, joined.
Both(t, u, m, n, b) ==
  /\ b = t \o u /\ Len(b) = m + n
  /\ \A k \in Nat \ {0} : k <= m => b[k] = t[k]
  /\ \A k \in Nat \ {0} : k > m /\ k <= m + n => b[k] = u[k - m]

\* Two texts joined.
LEMMA BothParts ==
  ASSUME NEW t \in Text, NEW u \in Text, NEW m \in Nat, m = Len(t), NEW n \in Nat, n = Len(u)
  PROVE  \E b \in Text : Both(t, u, m, n, b)
<1>1. t \o u \in Text /\ Len(t \o u) = m + n
  BY JoinedText
<1>2. ASSUME NEW k \in Nat \ {0}, k <= m PROVE (t \o u)[k] = t[k]
  <2>1. k <= m + n
    BY <1>2
  <2> QED
    BY <1>2, <2>1, JoinedIs
<1>3. ASSUME NEW k \in Nat \ {0}, k > m, k <= m + n PROVE (t \o u)[k] = u[k - m]
  <2>1. ~(k <= m)
    BY <1>3
  <2> QED
    BY <1>3, <2>1, JoinedIs
<1> QED
  BY <1>1, <1>2, <1>3 DEF Both

\* w is t, of n characters, with new, of m, in it.
IsWith(t, n, at, new, m, w) ==
  /\ w = With(t, at, new) /\ Len(w) = n + m
  /\ \A k \in Nat \ {0} : k <= at => w[k] = t[k]
  /\ \A k \in Nat \ {0} : k > at /\ k <= at + m => w[k] = new[k - at]
  /\ \A k \in Nat \ {0} : k > at + m /\ k <= n + m => w[k] = t[k - m]

\* w is t, of n characters, without m of them.
IsWithout(t, n, from, to, m, w) ==
  /\ w = Without(t, from, to) /\ Len(w) = n - m
  /\ \A k \in Nat \ {0} : k <= from => w[k] = t[k]
  /\ \A k \in Nat \ {0} : k > from /\ k <= n - m => w[k] = t[k + m]

\* The characters of a text with another in it.
LEMMA WithIs ==
  ASSUME NEW t \in Text, NEW n \in Nat, n = Len(t), NEW at \in 0 .. n,
         NEW new \in Text, NEW m \in Nat, m = Len(new)
  PROVE  \E w \in Text : IsWith(t, n, at, new, m, w)
<1>1. at \in Nat /\ at <= n
  OBVIOUS
<1>2. PICK a \in Text : /\ a = SubSeq(t, 1, at) /\ Len(a) = at
                        /\ \A k \in Nat \ {0} : k <= at => a[k] = t[k]
  <2>1. 0 \in 0 .. at /\ 0 + 1 = 1 /\ at - 0 = at /\ \A k \in Nat \ {0} : 0 + k = k
    BY <1>1
  <2>2. \E c \in Text : /\ c = SubSeq(t, 0 + 1, at) /\ Len(c) = at - 0
                        /\ \A k \in Nat \ {0} : k <= at - 0 => c[k] = t[0 + k]
    BY <2>1, PartBetween
  <2> QED
    BY <2>1, <2>2
<1>3. PICK r \in Nat : r = n - at
  <2>1. n - at \in Nat
    BY <1>1
  <2> QED
    BY <2>1
<1>4. PICK c \in Text : /\ c = SubSeq(t, at + 1, Len(t)) /\ Len(c) = r
                        /\ \A k \in Nat \ {0} : k <= r => c[k] = t[at + k]
  <2>1. n \in 0 .. Len(t) /\ at \in 0 .. n
    BY <1>1
  <2>2. \E c \in Text : /\ c = SubSeq(t, at + 1, n) /\ Len(c) = n - at
                        /\ \A k \in Nat \ {0} : k <= n - at => c[k] = t[at + k]
    BY <2>1, PartBetween
  <2> QED
    BY <1>3, <2>2
<1>5. PICK l \in Nat : l = at + m
  BY <1>1
<1>6. PICK b \in Text : /\ b = a \o new /\ Len(b) = l
                        /\ \A k \in Nat \ {0} : k <= at => b[k] = a[k]
                        /\ \A k \in Nat \ {0} : k > at /\ k <= l => b[k] = new[k - at]
  <2>1. \E x \in Text : Both(a, new, at, m, x)
    BY <1>1, <1>2, BothParts
  <2> QED
    BY <1>5, <2>1 DEF Both
<1>7. PICK w \in Text : /\ w = b \o c /\ Len(w) = l + r
                        /\ \A k \in Nat \ {0} : k <= l => w[k] = b[k]
                        /\ \A k \in Nat \ {0} : k > l /\ k <= l + r => w[k] = c[k - l]
  <2>1. \E x \in Text : Both(b, c, l, r, x)
    BY <1>4, <1>6, BothParts
  <2> QED
    BY <2>1 DEF Both
<1>8. w = With(t, at, new) /\ l + r = n + m
  BY <1>1, <1>2, <1>3, <1>4, <1>5, <1>6, <1>7 DEF With
<1>9. ASSUME NEW k \in Nat \ {0}, k <= at PROVE w[k] = t[k]
  <2>1. k <= l
    BY <1>1, <1>5, <1>9
  <2> QED
    BY <1>2, <1>6, <1>7, <1>9, <2>1
<1>10. ASSUME NEW k \in Nat \ {0}, k > at, k <= at + m PROVE w[k] = new[k - at]
  BY <1>5, <1>6, <1>7, <1>10
<1>11. ASSUME NEW k \in Nat \ {0}, k > at + m, k <= n + m PROVE w[k] = t[k - m]
  <2>1. k > l /\ k <= l + r
    BY <1>5, <1>8, <1>11
  <2>2. PICK j \in Nat \ {0} : j = k - l
    <3>1. k - l \in Nat \ {0}
      BY <2>1
    <3> QED
      BY <3>1
  <2>3. w[k] = c[j]
    BY <1>7, <2>1, <2>2
  <2>4. j <= r /\ at + j = k - m
    BY <1>1, <1>5, <2>1, <2>2
  <2> QED
    BY <1>4, <2>3, <2>4
<1> QED
  BY <1>7, <1>8, <1>9, <1>10, <1>11 DEF IsWith

\* The characters of a text without a part of it.
LEMMA WithoutIs ==
  ASSUME NEW t \in Text, NEW n \in Nat, n = Len(t), NEW to \in 0 .. n, NEW from \in 0 .. to,
         NEW m \in Nat, m = to - from
  PROVE  \E w \in Text : IsWithout(t, n, from, to, m, w)
<1>1. to \in Nat /\ from \in Nat /\ to <= n /\ from <= to
  OBVIOUS
<1>2. PICK a \in Text : /\ a = SubSeq(t, 1, from) /\ Len(a) = from
                        /\ \A k \in Nat \ {0} : k <= from => a[k] = t[k]
  <2>1. /\ 0 \in 0 .. from /\ from \in 0 .. Len(t)
        /\ 0 + 1 = 1 /\ from - 0 = from /\ \A k \in Nat \ {0} : 0 + k = k
    BY <1>1
  <2>2. \E c \in Text : /\ c = SubSeq(t, 0 + 1, from) /\ Len(c) = from - 0
                        /\ \A k \in Nat \ {0} : k <= from - 0 => c[k] = t[0 + k]
    BY <2>1, PartBetween
  <2> QED
    BY <2>1, <2>2
<1>3. PICK r \in Nat : r = n - to
  <2>1. n - to \in Nat
    BY <1>1
  <2> QED
    BY <2>1
<1>4. PICK c \in Text : /\ c = SubSeq(t, to + 1, Len(t)) /\ Len(c) = r
                        /\ \A k \in Nat \ {0} : k <= r => c[k] = t[to + k]
  <2>1. n \in 0 .. Len(t) /\ to \in 0 .. n
    BY <1>1
  <2>2. \E c \in Text : /\ c = SubSeq(t, to + 1, n) /\ Len(c) = n - to
                        /\ \A k \in Nat \ {0} : k <= n - to => c[k] = t[to + k]
    BY <2>1, PartBetween
  <2> QED
    BY <1>3, <2>2
<1>5. PICK w \in Text : /\ w = a \o c /\ Len(w) = from + r
                        /\ \A k \in Nat \ {0} : k <= from => w[k] = a[k]
                        /\ \A k \in Nat \ {0} : k > from /\ k <= from + r => w[k] = c[k - from]
  <2>1. \E x \in Text : Both(a, c, from, r, x)
    BY <1>1, <1>2, <1>4, BothParts
  <2> QED
    BY <2>1 DEF Both
<1>6. w = Without(t, from, to) /\ from + r = n - m
  BY <1>1, <1>2, <1>3, <1>4, <1>5 DEF Without
<1>7. ASSUME NEW k \in Nat \ {0}, k <= from PROVE w[k] = t[k]
  BY <1>2, <1>5, <1>7
<1>8. ASSUME NEW k \in Nat \ {0}, k > from, k <= n - m PROVE w[k] = t[k + m]
  <2>1. k > from /\ k <= from + r
    BY <1>6, <1>8
  <2>2. PICK j \in Nat \ {0} : j = k - from
    <3>1. k - from \in Nat \ {0}
      BY <1>1, <2>1
    <3> QED
      BY <3>1
  <2>3. w[k] = c[j]
    BY <1>5, <2>1, <2>2
  <2>4. j <= r /\ to + j = k + m
    BY <1>1, <2>1, <2>2
  <2> QED
    BY <1>4, <2>3, <2>4
<1> QED
  BY <1>5, <1>6, <1>7, <1>8 DEF IsWithout

\* Texts of n characters that agree in all of them.
Agree(t, u, n) == Len(t) = n /\ Len(u) = n /\ \A k \in Nat \ {0} : k <= n => t[k] = u[k]

\* Such texts are the same.
LEMMA SameCharacters ==
  ASSUME NEW t \in Text, NEW u \in Text, NEW n \in Nat, Agree(t, u, n)
  PROVE  t = u
<1>1. \A k \in 1 .. n : k \in Nat \ {0} /\ k <= n
  OBVIOUS
<1>2. Len(t) = Len(u) /\ \A k \in 1 .. Len(t) : t[k] = u[k]
  BY <1>1 DEF Agree
<1> QED
  BY <1>2, SameText

\* What an insertion gives back when it is undone: the text it was made in.
LEMMA InsertionUndone ==
  ASSUME NEW t \in Text, NEW at \in 0 .. Len(t), NEW new \in Text,
         NEW r, r.what = "insert", r.start = at, r.end = at + Len(new)
  PROVE  UndoneText(With(t, at, new), r) = t
<1>1. PICK n \in Nat : n = Len(t)
  BY TextLen
<1>2. PICK m \in Nat : m = Len(new)
  BY TextLen
<1>3. at \in 0 .. n /\ at \in Nat /\ at <= n
  BY <1>1
<1>4. PICK w \in Text :
        /\ w = With(t, at, new) /\ Len(w) = n + m
        /\ \A k \in Nat \ {0} : k <= at => w[k] = t[k]
        /\ \A k \in Nat \ {0} : k > at + m /\ k <= n + m => w[k] = t[k - m]
  <2>1. \E x \in Text : IsWith(t, n, at, new, m, x)
    BY <1>1, <1>2, <1>3, WithIs
  <2> QED
    BY <2>1 DEF IsWith
<1>5. PICK l \in Nat : l = n + m
  OBVIOUS
<1>6. PICK to \in 0 .. l : to = at + m
  <2>1. at + m \in 0 .. l
    BY <1>3, <1>5
  <2> QED
    BY <2>1
<1>7. at \in 0 .. to /\ m = to - at /\ l - m = n
  BY <1>3, <1>5, <1>6
<1>8. PICK u \in Text :
        /\ u = Without(w, at, to) /\ Len(u) = l - m
        /\ \A k \in Nat \ {0} : k <= at => u[k] = w[k]
        /\ \A k \in Nat \ {0} : k > at /\ k <= l - m => u[k] = w[k + m]
  <2>1. \E x \in Text : IsWithout(w, l, at, to, m, x)
    BY <1>4, <1>5, <1>7, WithoutIs
  <2> QED
    BY <2>1 DEF IsWithout
<1>9. ASSUME NEW k \in Nat \ {0}, k <= n PROVE u[k] = t[k]
  <2>1. CASE k <= at
    BY <1>4, <1>8, <2>1
  <2>2. CASE k > at
    <3>1. PICK j \in Nat \ {0} : j = k + m
      <4>1. k + m \in Nat \ {0}
        OBVIOUS
      <4> QED
        BY <4>1
    <3>2. u[k] = w[j]
      BY <1>7, <1>8, <1>9, <2>2, <3>1
    <3>3. j > at + m /\ j <= n + m /\ j - m = k
      BY <1>3, <1>9, <2>2, <3>1
    <3> QED
      BY <1>4, <3>2, <3>3
  <2> QED
    BY <1>3, <2>1, <2>2
<1>10. u = t
  <2>1. Agree(u, t, n)
    BY <1>1, <1>7, <1>8, <1>9 DEF Agree
  <2> QED
    BY <2>1, SameCharacters
<1>11. Clip(r.start, w) = at /\ Clip(r.end, w) = to
  <2>1. Len(w) = l /\ r.start = at /\ r.end = to
    BY <1>2, <1>4, <1>5, <1>6
  <2> QED
    BY <1>3, <1>5, <1>6, <2>1 DEF Clip
<1> QED
  BY <1>4, <1>8, <1>10, <1>11 DEF UndoneText

\* Undoing a deletion gives back the text before it.
LEMMA DeletionUndone ==
  ASSUME NEW t \in Text, NEW to \in 0 .. Len(t), NEW from \in 0 .. to,
         NEW r, r.what = "delete", r.start = from, r.text = SubSeq(t, from + 1, to)
  PROVE  UndoneText(Without(t, from, to), r) = t
<1>1. PICK n \in Nat : n = Len(t)
  BY TextLen
<1>2. to \in 0 .. n /\ to \in Nat /\ from \in Nat /\ from <= to /\ to <= n
  BY <1>1
<1>3. PICK m \in Nat : m = to - from
  <2>1. to - from \in Nat
    BY <1>2
  <2> QED
    BY <2>1
<1>4. PICK c \in Text : /\ c = SubSeq(t, from + 1, to) /\ Len(c) = m
                        /\ \A k \in Nat \ {0} : k <= m => c[k] = t[from + k]
  BY <1>3, PartBetween
<1>5. PICK l \in Nat : l = n - m
  <2>1. n - m \in Nat
    BY <1>2, <1>3
  <2> QED
    BY <2>1
<1>6. PICK w \in Text :
        /\ w = Without(t, from, to) /\ Len(w) = l
        /\ \A k \in Nat \ {0} : k <= from => w[k] = t[k]
        /\ \A k \in Nat \ {0} : k > from /\ k <= l => w[k] = t[k + m]
  <2>1. \E x \in Text : IsWithout(t, n, from, to, m, x)
    BY <1>1, <1>2, <1>3, WithoutIs
  <2> QED
    BY <1>5, <2>1 DEF IsWithout
<1>7. from \in 0 .. l /\ l + m = n
  BY <1>2, <1>3, <1>5
<1>8. PICK u \in Text :
        /\ u = With(w, from, c) /\ Len(u) = l + m
        /\ \A k \in Nat \ {0} : k <= from => u[k] = w[k]
        /\ \A k \in Nat \ {0} : k > from /\ k <= from + m => u[k] = c[k - from]
        /\ \A k \in Nat \ {0} : k > from + m /\ k <= l + m => u[k] = w[k - m]
  <2>1. \E x \in Text : IsWith(w, l, from, c, m, x)
    BY <1>4, <1>6, <1>7, WithIs
  <2> QED
    BY <2>1 DEF IsWith
<1>9. ASSUME NEW k \in Nat \ {0}, k <= n PROVE u[k] = t[k]
  <2>1. CASE k <= from
    BY <1>6, <1>8, <2>1
  <2>2. CASE k > from /\ k <= from + m
    <3>1. PICK j \in Nat \ {0} : j = k - from
      <4>1. k - from \in Nat \ {0}
        BY <1>2, <2>2
      <4> QED
        BY <4>1
    <3>2. u[k] = c[j] /\ j <= m /\ from + j = k
      BY <1>2, <1>8, <2>2, <3>1
    <3> QED
      BY <1>4, <3>2
  <2>3. CASE k > from + m
    <3>1. PICK j \in Nat \ {0} : j = k - m
      <4>1. k - m \in Nat \ {0}
        BY <1>2, <2>3
      <4> QED
        BY <4>1
    <3>2. u[k] = w[j]
      BY <1>7, <1>8, <1>9, <2>3, <3>1
    <3>3. j > from /\ j <= l /\ j + m = k
      BY <1>2, <1>7, <1>9, <2>3, <3>1
    <3> QED
      BY <1>6, <3>2, <3>3
  <2> QED
    BY <1>2, <2>1, <2>2, <2>3
<1>10. u = t
  <2>1. Agree(u, t, n)
    BY <1>1, <1>7, <1>8, <1>9 DEF Agree
  <2> QED
    BY <2>1, SameCharacters
<1>11. Clip(r.start, w) = from
  <2>1. Len(w) = l /\ r.start = from
    BY <1>6
  <2> QED
    BY <1>7, <2>1 DEF Clip
<1>12. UndoneText(w, r) = With(w, from, c)
  BY <1>4, <1>11 DEF UndoneText
<1> QED
  BY <1>6, <1>8, <1>10, <1>12

\* The insertion of a character at the end of an insertion, undone with it, gives
\* back what the first insertion does.
LEMMA MergedUndone ==
  ASSUME NEW t \in Text, NEW at \in 0 .. Len(t), NEW new \in Text, Len(new) = 1,
         NEW r, r.what = "insert", r.start \in Nat, r.start <= r.end, r.end = at,
         NEW s, s.what = "insert", s.start = r.start, s.end = r.end + 1
  PROVE  UndoneText(With(t, at, new), s) = UndoneText(t, r)
<1>1. PICK n \in Nat : n = Len(t)
  BY TextLen
<1>2. PICK a \in Nat : a = r.start
  OBVIOUS
<1>3. at \in 0 .. n /\ at \in Nat /\ at <= n /\ a <= at
  BY <1>1, <1>2
<1>4. PICK w \in Text :
        /\ w = With(t, at, new) /\ Len(w) = n + 1
        /\ \A k \in Nat \ {0} : k <= at => w[k] = t[k]
        /\ \A k \in Nat \ {0} : k > at + 1 /\ k <= n + 1 => w[k] = t[k - 1]
  <2>1. \E x \in Text : IsWith(t, n, at, new, 1, x)
    BY <1>1, <1>3, WithIs
  <2> QED
    BY <2>1 DEF IsWith
<1>5. PICK m \in Nat : m = at - a
  <2>1. at - a \in Nat
    BY <1>3
  <2> QED
    BY <2>1
<1>6. PICK u \in Text :
        /\ u = Without(w, a, at + 1) /\ Len(u) = (n + 1) - (m + 1)
        /\ \A k \in Nat \ {0} : k <= a => u[k] = w[k]
        /\ \A k \in Nat \ {0} : k > a /\ k <= (n + 1) - (m + 1) => u[k] = w[k + (m + 1)]
  <2>1. /\ at + 1 \in 0 .. n + 1 /\ a \in 0 .. at + 1 /\ n + 1 \in Nat /\ m + 1 \in Nat
        /\ m + 1 = (at + 1) - a
    BY <1>3, <1>5
  <2>2. PICK l \in Nat : l = n + 1
    BY <2>1
  <2>3. PICK to \in 0 .. l : to = at + 1
    BY <2>1, <2>2
  <2>4. PICK j \in Nat : j = m + 1
    BY <2>1
  <2>5. a \in 0 .. to /\ j = to - a /\ l = Len(w)
    BY <1>4, <2>1, <2>2, <2>3, <2>4
  <2>6. \E x \in Text : IsWithout(w, l, a, to, j, x)
    BY <2>5, WithoutIs
  <2> QED
    BY <2>2, <2>3, <2>4, <2>6 DEF IsWithout
<1>7. PICK v \in Text :
        /\ v = Without(t, a, at) /\ Len(v) = n - m
        /\ \A k \in Nat \ {0} : k <= a => v[k] = t[k]
        /\ \A k \in Nat \ {0} : k > a /\ k <= n - m => v[k] = t[k + m]
  <2>1. a \in 0 .. at
    BY <1>3
  <2>2. \E x \in Text : IsWithout(t, n, a, at, m, x)
    BY <1>1, <1>3, <1>5, <2>1, WithoutIs
  <2> QED
    BY <2>2 DEF IsWithout
<1>8. PICK l \in Nat : l = n - m
  <2>1. n - m \in Nat
    BY <1>3, <1>5
  <2> QED
    BY <2>1
<1>9. ASSUME NEW k \in Nat \ {0}, k <= l PROVE u[k] = v[k]
  <2>1. CASE k <= a
    <3>1. k <= at
      BY <1>3, <2>1
    <3> QED
      BY <1>4, <1>6, <1>7, <2>1, <3>1
  <2>2. CASE k > a
    <3>1. PICK j \in Nat \ {0} : j = k + (m + 1)
      <4>1. k + (m + 1) \in Nat \ {0}
        OBVIOUS
      <4> QED
        BY <4>1
    <3>2. k <= (n + 1) - (m + 1) /\ k <= n - m
      BY <1>8, <1>9
    <3>3. u[k] = w[j]
      BY <1>6, <2>2, <3>1, <3>2
    <3>4. j > at + 1 /\ j <= n + 1 /\ j - 1 = k + m
      BY <1>3, <1>5, <1>8, <1>9, <2>2, <3>1
    <3>5. w[j] = t[k + m]
      BY <1>4, <3>4
    <3>6. v[k] = t[k + m]
      BY <1>7, <2>2, <3>2
    <3> QED
      BY <3>3, <3>5, <3>6
  <2> QED
    BY <1>2, <2>1, <2>2
<1>10. u = v
  <2>1. Len(u) = l /\ Len(v) = l
    BY <1>6, <1>7, <1>8
  <2>2. Agree(u, v, l)
    BY <1>9, <2>1 DEF Agree
  <2> QED
    BY <2>2, SameCharacters
<1>11. UndoneText(w, s) = u
  <2>1. Clip(s.start, w) = a /\ Clip(s.end, w) = at + 1
    <3>1. Len(w) = n + 1 /\ s.start = a /\ s.end = at + 1
      BY <1>2, <1>4
    <3> QED
      BY <1>3, <3>1 DEF Clip
  <2> QED
    BY <1>6, <2>1 DEF UndoneText
<1>12. UndoneText(t, r) = v
  <2>1. Clip(r.start, t) = a /\ Clip(r.end, t) = at
    BY <1>1, <1>2, <1>3 DEF Clip
  <2> QED
    BY <1>7, <2>1 DEF UndoneText
<1> QED
  BY <1>4, <1>10, <1>11, <1>12

\* Two texts that differ only in a part give back the same without it.
LEMMA ChangeUndone ==
  ASSUME NEW t \in Text, NEW n \in Nat, n = Len(t), NEW to \in 0 .. n, NEW from \in 0 .. to,
         NEW u \in Text, Len(u) = n, \A k \in 1 .. n : k \notin from + 1 .. to => u[k] = t[k]
  PROVE  Without(u, from, to) = Without(t, from, to)
<1>1. to \in Nat /\ from \in Nat /\ to <= n /\ from <= to
  OBVIOUS
<1>2. PICK m \in Nat : m = to - from
  <2>1. to - from \in Nat
    BY <1>1
  <2> QED
    BY <2>1
<1>3. PICK w \in Text :
        /\ w = Without(u, from, to) /\ Len(w) = n - m
        /\ \A k \in Nat \ {0} : k <= from => w[k] = u[k]
        /\ \A k \in Nat \ {0} : k > from /\ k <= n - m => w[k] = u[k + m]
  <2>1. \E x \in Text : IsWithout(u, n, from, to, m, x)
    BY <1>2, WithoutIs
  <2> QED
    BY <2>1 DEF IsWithout
<1>4. PICK v \in Text :
        /\ v = Without(t, from, to) /\ Len(v) = n - m
        /\ \A k \in Nat \ {0} : k <= from => v[k] = t[k]
        /\ \A k \in Nat \ {0} : k > from /\ k <= n - m => v[k] = t[k + m]
  <2>1. \E x \in Text : IsWithout(t, n, from, to, m, x)
    BY <1>2, WithoutIs
  <2> QED
    BY <2>1 DEF IsWithout
<1>5. PICK l \in Nat : l = n - m
  <2>1. n - m \in Nat
    BY <1>1, <1>2
  <2> QED
    BY <2>1
<1>6. ASSUME NEW k \in Nat \ {0}, k <= l PROVE w[k] = v[k]
  <2>1. CASE k <= from
    <3>1. k \in 1 .. n /\ k \notin from + 1 .. to
      BY <1>1, <2>1
    <3> QED
      BY <1>3, <1>4, <2>1, <3>1
  <2>2. CASE k > from
    <3>1. PICK j \in Nat \ {0} : j = k + m
      <4>1. k + m \in Nat \ {0}
        OBVIOUS
      <4> QED
        BY <4>1
    <3>2. j \in 1 .. n /\ j \notin from + 1 .. to /\ k <= n - m
      BY <1>1, <1>2, <1>5, <1>6, <2>2, <3>1
    <3> QED
      BY <1>3, <1>4, <2>2, <3>1, <3>2
  <2> QED
    BY <1>1, <2>1, <2>2
<1>7. Agree(w, v, l)
  BY <1>3, <1>4, <1>5, <1>6 DEF Agree
<1> QED
  BY <1>3, <1>4, <1>7, SameCharacters

-----------------------------------------------------------------------------
(* Changes of a line that are noted *)

\* A record more: the line with text t comes where it came with the text that the
\* record gives back.
LEMMA NotedHolds ==
  ASSUME NEW e, NEW o, NEW u, NEW m, NEW d, NEW r, Noted(e, d, r), NewRecord(e, r),
         NEW t \in Text, Holds(e, UndoneText(t, r), o, u, m)
  PROVE  Holds(d, t, o, u, m)
<1>1. InOrder(e, NULL)
  BY DEF Holds
<1>2. /\ InOrder(d, NULL)
      /\ Gives(e, o) => Gives(d, o)
      /\ LineTakes(e, UndoneText(t, r), u) => LineTakes(d, t, u)
  BY <1>1, NotedInOrder
<1>3. PICK i \in Id : i = d.undo
  BY DEF Noted
<1>4. /\ e \in Editor /\ Sound(e.rec) /\ e.undo \in Pointer /\ e.rec[i].what = "free"
      /\ d.rec = [e.rec EXCEPT ![i] = r] /\ r.next = e.undo /\ SameLines(e, d)
      /\ DOMAIN e.rec = Id
  BY <1>1, <1>3, Parts DEF InOrder, Noted, NewRecord
<1>5. d.rec[i] = r /\ \A j \in Id : j # i => d.rec[j] = e.rec[j]
  BY <1>4
<1>6. i \notin Of(e.rec, e.undo) /\ Of(e.rec, e.undo) \subseteq Id
  BY <1>1, <1>4, FreeAlone, OfFacts
<1>7. \A j \in Of(e.rec, e.undo) : d.rec[j] = e.rec[j]
  BY <1>5, <1>6
<1>8. ASSUME Meets(e, UndoneText(t, r)) PROVE Meets(d, t)
  <2> SUFFICES ASSUME OnEntry(d)
               PROVE  Reaches(d.rec, d.undo, t, d.list[Place(d)].data, d.list[Place(d)].line)
    BY DEF Meets
  <2>1. OnEntry(e) /\ Place(d) = Place(e) /\ d.list = e.list
    BY <1>4 DEF SameLines, OnEntry, Place
  <2>2. PICK x : x = e.list[Place(e)]
    OBVIOUS
  <2>3. PICK y : y = UndoneText(t, r)
    OBVIOUS
  <2>4. Reaches(e.rec, e.undo, y, x.data, x.line)
    BY <1>8, <2>1, <2>2, <2>3 DEF Meets
  <2>5. Reaches(d.rec, e.undo, y, x.data, x.line)
    BY <1>4, <1>7, <2>4, SameReaches
  <2>6. Reaches(d.rec, d.rec[i].next, UndoneText(t, d.rec[i]), x.data, x.line)
    BY <1>4, <1>5, <2>3, <2>5
  <2>7. Reaches(d.rec, i, t, x.data, x.line)
    BY <2>6, ReachesMore
  <2> QED
    BY <1>3, <2>1, <2>2, <2>7
<1> QED
  BY <1>2, <1>8 DEF Holds

\* There is room for k records.
RoomFor(e, k) == Cardinality(FreeIds(e)) >= k

\* Room for a record is a free one.
LEMMA RoomIs ==
  ASSUME NEW e, NEW k \in Nat, RoomFor(e, k + 1)
  PROVE  FreeIds(e) # {}
<1>1. SUFFICES ASSUME FreeIds(e) = {} PROVE FALSE
  OBVIOUS
<1>2. Cardinality(FreeIds(e)) = 0
  BY <1>1, FS_EmptySet
<1>3. Cardinality(FreeIds(e)) >= k + 1
  BY DEF RoomFor
<1> QED
  BY <1>2, <1>3

\* A record more is a free one less.
LEMMA RoomLeft ==
  ASSUME NEW e \in Editor, NEW d, NEW r, Noted(e, d, r), NewRecord(e, r),
         NEW k \in Nat, RoomFor(e, k + 1)
  PROVE  RoomFor(d, k)
<1>1. PICK i \in Id : i = d.undo
  BY DEF Noted
<1>2. /\ e.rec[i].what = "free" /\ DOMAIN e.rec = Id
      /\ d.rec[i] = r /\ \A j \in Id : j # i => d.rec[j] = e.rec[j]
  BY <1>1, Parts DEF Noted
<1>3. FreeIds(d) = FreeIds(e) \ {i} /\ i \in FreeIds(e)
  BY <1>2 DEF FreeIds, NewRecord
<1>4. IsFiniteSet(FreeIds(e))
  <2>1. IsFiniteSet(Id)
    BY Pointers, FS_Interval DEF Id
  <2>2. FreeIds(e) \subseteq Id
    BY DEF FreeIds
  <2> QED
    BY <2>1, <2>2, FS_Subset
<1>5. Cardinality(FreeIds(e) \ {i}) = Cardinality(FreeIds(e)) - 1
  BY <1>3, <1>4, FS_RemoveElement
<1>6. Cardinality(FreeIds(e)) \in Nat
  BY <1>4, FS_CardinalityType
<1> QED
  BY <1>3, <1>5, <1>6 DEF RoomFor

\* What a command may do to the line in view: the memory holds what it should with
\* the text t, the lines and where they are stay, and there is room for k records.
Changed(e, d, t, o, u, m, k) ==
  Holds(d, t, o, u, m) /\ SameLines(e, d) /\ RoomFor(d, k)

\* d is e with one more record, r.
Notes(e, d, what, start, end, text, r) ==
  /\ what \in {"insert", "delete", "begin", "end"}
  /\ start \in Nat /\ end \in Nat /\ start <= end /\ text \in Text
  /\ r = [what |-> what, start |-> start, end |-> end, text |-> text, next |-> e.undo]
  /\ d = AddUndo(e, what, start, end, text)

\* There is room for one record less.
OneLess(k, j) == k \in Nat /\ j = k + 1

\* A change is noted, and takes the room of one record.
LEMMA AddUndoChanges ==
  ASSUME NEW b, NEW e, NEW o, NEW u, NEW m, NEW k, NEW j, OneLess(k, j),
         NEW what, NEW start, NEW end, NEW text, NEW r, NEW d, Notes(e, d, what, start, end, text, r),
         NEW t \in Text, Changed(b, e, UndoneText(t, r), o, u, m, j)
  PROVE  /\ Changed(b, d, t, o, u, m, k)
         /\ d.text = e.text /\ d.point = e.point
         /\ d.undo \in Id /\ d.rec[d.undo] = r
<1>1. Holds(e, UndoneText(t, r), o, u, m) /\ SameLines(b, e) /\ RoomFor(e, k + 1) /\ k \in Nat
  BY DEF Changed, OneLess
<1>2. e \in Editor /\ DOMAIN e.rec = Id
  BY <1>1, Parts DEF Holds, InOrder
<1>3. Noted(e, d, r) /\ NewRecord(e, r)
  <2>1. FreeIds(e) # {}
    BY <1>1, RoomIs
  <2> QED
    BY <1>2, <2>1, AddUndoNotes DEF Notes
<1>4. Holds(d, t, o, u, m)
  BY <1>1, <1>3, NotedHolds
<1>5. RoomFor(d, k)
  BY <1>1, <1>2, <1>3, RoomLeft
<1>6. SameLines(b, d)
  BY <1>1, <1>3 DEF Noted, SameLines
<1>7. d.undo \in Id /\ d.rec[d.undo] = r
  BY <1>2, <1>3 DEF Noted
<1> QED
  BY <1>3, <1>4, <1>5, <1>6, <1>7 DEF Changed, Noted

\* d is e with the text t, and the point at p.
TextSet(e, d, t, p) == p \in Nat /\ d = [e EXCEPT !.text = t, !.point = p]

\* The text is set.
LEMMA TextChanges ==
  ASSUME NEW b, NEW e, NEW t \in Text, NEW o, NEW u, NEW m, NEW k, Changed(b, e, t, o, u, m, k),
         NEW p, NEW d, TextSet(e, d, t, p)
  PROVE  /\ Changed(b, d, t, o, u, m, k)
         /\ d.text = t /\ d.point = p /\ d.undo = e.undo /\ d.rec = e.rec
<1>1. /\ Holds(e, t, o, u, m) /\ InOrder(e, NULL) /\ SameLines(b, e) /\ RoomFor(e, k)
      /\ e \in Editor
  BY DEF Changed, Holds, InOrder
<1>2. /\ d.text = t /\ d.point = p /\ d.undo = e.undo /\ d.rec = e.rec
      /\ d.list = e.list /\ d.offset = e.offset /\ d.saved = e.saved
  BY <1>1 DEF Editor, TextSet
<1>3. d \in Editor
  BY <1>1 DEF Editor, Text, TextSet
<1>4. SameLines(e, d) /\ SameLines(b, d)
  BY <1>1, <1>2 DEF SameLines
<1>5. /\ InOrder(d, NULL)
      /\ Gives(e, o) => Gives(d, o)
      /\ LineTakes(e, t, u) => LineTakes(d, t, u)
  BY <1>1, <1>2, <1>3, <1>4, SameMemory
<1>6. Meets(e, t) => Meets(d, t)
  BY <1>2 DEF Meets, OnEntry, Place
<1>7. Holds(d, t, o, u, m)
  BY <1>1, <1>5, <1>6 DEF Holds
<1>8. RoomFor(d, k)
  BY <1>1, <1>2 DEF RoomFor, FreeIds
<1> QED
  BY <1>2, <1>4, <1>7, <1>8 DEF Changed

\* A group begins or ends.
LEMMA GroupChanges ==
  ASSUME NEW b, NEW e, NEW o, NEW u, NEW m, NEW k, NEW j, OneLess(k, j),
         NEW what \in {"begin", "end"},
         NEW t \in Text, Changed(b, e, t, o, u, m, j), NEW d, d = Group(e, what)
  PROVE  /\ Changed(b, d, t, o, u, m, k)
         /\ d.text = e.text /\ d.point = e.point
<1>1. <<>> \in Text /\ 0 \in Nat /\ what \in {"insert", "delete", "begin", "end"}
  BY DEF Text
<1>2. PICK r : r = [what |-> what, start |-> 0, end |-> 0, text |-> <<>>, next |-> e.undo]
  OBVIOUS
<1>3. UndoneText(t, r) = t
  BY <1>2 DEF UndoneText
<1>4. PICK x \in Text : x = <<>>
  BY <1>1
<1>5. Notes(e, d, what, 0, 0, x, r)
  BY <1>1, <1>2, <1>4 DEF Group, Notes
<1>6. Changed(b, e, UndoneText(t, r), o, u, m, j)
  BY <1>3
<1> QED
  BY <1>5, <1>6, AddUndoChanges

\* A part of a text.
PartOf(t, from, to) == to \in 0 .. Len(t) /\ from \in 0 .. to

\* d has t without that part, and a deletion is what is undone first.
LeftWithout(d, t, from, to) ==
  /\ d.text = Without(t, from, to)
  /\ d.undo \in Id /\ d.rec[d.undo].what = "delete"

\* A part of the text is deleted.
LEMMA DeleteChanges ==
  ASSUME NEW b, NEW e, NEW o, NEW u, NEW m, NEW k, NEW j, OneLess(k, j),
         NEW t \in Text, e.text = t, Changed(b, e, t, o, u, m, j),
         NEW from, NEW to, PartOf(t, from, to), NEW d, d = DeleteText(e, from, to)
  PROVE  /\ Changed(b, d, d.text, o, u, m, k)
         /\ LeftWithout(d, t, from, to) /\ d.text \in Text /\ PointIn(d)
<1>1. /\ Len(t) \in Nat /\ to \in Nat /\ from \in Nat /\ from <= to /\ to <= Len(t)
      /\ to \in 0 .. Len(t) /\ from \in 0 .. to
  BY TextLen DEF PartOf
<1>2. PICK x \in Text : x = SubSeq(t, from + 1, to)
  BY <1>1, PartBetween
<1>3. PICK w \in Text : w = Without(t, from, to) /\ Len(w) = Len(t) - (to - from)
  BY <1>1, WithoutText
<1>4. PICK r : r = [what |-> "delete", start |-> from, end |-> to, text |-> x, next |-> e.undo]
  OBVIOUS
<1>5. UndoneText(w, r) = t
  <2>1. r.what = "delete" /\ r.start = from /\ r.text = SubSeq(t, from + 1, to)
    BY <1>2, <1>4
  <2> QED
    BY <1>1, <1>3, <2>1, DeletionUndone
<1>6. PICK c : c = AddUndo(e, "delete", from, to, x)
  OBVIOUS
<1>7. /\ Changed(b, c, w, o, u, m, k) /\ c.text = e.text /\ c.undo \in Id
      /\ c.rec[c.undo] = r
  <2>1. Changed(b, e, UndoneText(w, r), o, u, m, j)
    BY <1>5
  <2> QED
    <3>1. Notes(e, c, "delete", from, to, x, r)
      BY <1>1, <1>4, <1>6 DEF Notes
    <3> QED
      BY <2>1, <3>1, AddUndoChanges
<1>8. TextSet(c, d, w, from)
  BY <1>1, <1>2, <1>3, <1>6 DEF DeleteText, TextSet
<1>9. /\ Changed(b, d, w, o, u, m, k)
      /\ d.text = w /\ d.point = from /\ d.undo = c.undo /\ d.rec = c.rec
  BY <1>1, <1>7, <1>8, TextChanges
<1>10. PointIn(d)
  BY <1>1, <1>3, <1>9 DEF PointIn
<1>11. r.what = "delete"
  BY <1>4
<1> QED
  BY <1>3, <1>7, <1>9, <1>10, <1>11 DEF LeftWithout

\* A text is inserted, with a record of its own.
LEMMA InsertChanges ==
  ASSUME NEW b, NEW e, NEW o, NEW u, NEW m, NEW k, NEW j, OneLess(k, j),
         NEW t \in Text, e.text = t, Changed(b, e, t, o, u, m, j), e.point \in 0 .. Len(t),
         NEW new \in Text, ~CanMerge(e, new), NEW d, d = InsertText(e, new)
  PROVE  /\ Changed(b, d, d.text, o, u, m, k)
         /\ d.text = With(t, e.point, new) /\ d.text \in Text /\ PointIn(d)
<1>1. PICK n \in Nat : n = Len(new)
  BY TextLen
<1>2. PICK at \in 0 .. Len(t) : at = e.point
  OBVIOUS
<1>3. /\ Len(t) \in Nat /\ at \in Nat /\ at + n \in Nat /\ at <= at + n
      /\ at + n <= Len(t) + n
  BY TextLen
<1>4. PICK w \in Text : w = With(t, at, new) /\ Len(w) = Len(t) + n
  BY <1>1, WithText
<1>5. <<>> \in Text
  BY DEF Text
<1>6. PICK x \in Text : x = <<>>
  BY <1>5
<1>7. PICK end \in Nat : end = at + n
  BY <1>3
<1>8. PICK r : r = [what |-> "insert", start |-> at, end |-> end, text |-> x, next |-> e.undo]
  OBVIOUS
<1>9. UndoneText(w, r) = t
  <2>1. r.what = "insert" /\ r.start = at /\ r.end = at + Len(new)
    BY <1>1, <1>7, <1>8
  <2> QED
    BY <1>4, <2>1, InsertionUndone
<1>10. PICK c : c = AddUndo(e, "insert", at, end, x)
  OBVIOUS
<1>11. Changed(b, c, w, o, u, m, k) /\ c.text = e.text /\ c.point = e.point
  <2>1. Changed(b, e, UndoneText(w, r), o, u, m, j)
    BY <1>9
  <2>2. Notes(e, c, "insert", at, end, x, r)
    BY <1>3, <1>7, <1>8, <1>10 DEF Notes
  <2>3. w \in Text /\ OneLess(k, j)
    OBVIOUS
  <2>4. /\ Changed(b, c, w, o, u, m, k)
        /\ c.text = e.text /\ c.point = e.point
        /\ c.undo \in Id /\ c.rec[c.undo] = r
    BY ONLY <2>1, <2>2, <2>3, AddUndoChanges
  <2> QED
    BY <2>4
<1>12. TextSet(c, d, w, end)
  <2>1. d = [c EXCEPT !.text = w, !.point = @ + n]
    BY <1>1, <1>2, <1>4, <1>6, <1>7, <1>10 DEF InsertText
  <2>2. c.point + n = end
    BY <1>2, <1>7, <1>11
  <2> QED
    BY <1>7, <2>1, <2>2 DEF TextSet
<1>13. Changed(b, d, w, o, u, m, k) /\ d.text = w /\ d.point = end
  BY <1>11, <1>12, TextChanges
<1>14. PointIn(d)
  BY <1>3, <1>4, <1>7, <1>13 DEF PointIn
<1> QED
  BY <1>2, <1>4, <1>13, <1>14

-----------------------------------------------------------------------------
(* A character merged into a record *)

\* A record whose end is moved on: all links, and what is in use, stay.
LongerRecord(rec, h, new) == new = [rec EXCEPT ![h].end = @ + 1]

\* The memory stays sound, with the same lists, and the other records are the same.
LEMMA LongerSound ==
  ASSUME NEW rec, Sound(rec), NEW h \in Id, rec[h].what # "free",
         NEW new, LongerRecord(rec, h, new)
  PROVE  /\ Sound(new) /\ InUse(new) = InUse(rec)
         /\ \A p \in Pointer : Of(new, p) = Of(rec, p)
         /\ \A i \in Id : i # h => new[i] = rec[i]
         /\ new[h].what = rec[h].what /\ new[h].start = rec[h].start
         /\ new[h].end = rec[h].end + 1 /\ new[h].next = rec[h].next
<1>1. rec \in [Id -> UndoRec] /\ Linked(rec) /\ Leads(rec)
  BY SoundLinked DEF Sound
<1>2. /\ DOMAIN new = Id /\ \A i \in Id : i # h => new[i] = rec[i]
      /\ new[h] = [rec[h] EXCEPT !.end = @ + 1]
  BY <1>1 DEF LongerRecord
<1>3. /\ new[h] \in UndoRec /\ new[h].what = rec[h].what /\ new[h].start = rec[h].start
      /\ new[h].end = rec[h].end + 1 /\ new[h].next = rec[h].next
  <2>1. rec[h] \in UndoRec
    BY <1>1
  <2> QED
    BY <1>2, <2>1 DEF UndoRec
<1>4. new \in [Id -> UndoRec]
  <2>1. \A i \in Id : new[i] \in UndoRec
    BY <1>1, <1>2, <1>3
  <2>2. new = [i \in Id |-> new[i]]
    BY <1>1 DEF LongerRecord
  <2> QED
    BY <2>1, <2>2
<1>5. \A i \in Id : new[i].next = rec[i].next /\ new[i].what = rec[i].what
  BY <1>2, <1>3
<1>6. \A i \in Id : new[i].start <= new[i].end
  <2>1. rec[h].start \in Nat /\ rec[h].end \in Nat /\ rec[h].start <= rec[h].end
    BY <1>1 DEF UndoRec, Sound
  <2>2. new[h].start <= new[h].end
    BY <1>3, <2>1
  <2>3. \A i \in Id : rec[i].start <= rec[i].end
    BY DEF Sound
  <2> QED
    BY <1>2, <2>2, <2>3
<1>7. \A i \in Id : new[i].what = "free" => new[i] = Free
  <2>1. \A i \in Id : rec[i].what = "free" => rec[i] = Free
    BY DEF Sound
  <2> QED
    BY <1>2, <1>5, <2>1
<1>8. \A p \in Pointer : Of(rec, p) \subseteq Id
  BY OfFacts
<1>9. Leads(new)
  <2> SUFFICES ASSUME NEW p \in Pointer PROVE \E s : IsList(new, p, s)
    BY DEF Leads
  <2>1. \A i \in Of(rec, p) : new[i].next = rec[i].next
    BY <1>5, <1>8
  <2> QED
    BY <2>1, StillList
<1>10. Sound(new)
  BY <1>4, <1>6, <1>7, <1>9 DEF Sound
<1>11. ASSUME NEW p \in Pointer PROVE Of(new, p) = Of(rec, p)
  <2>1. \A i \in Of(rec, p) : new[i].next = rec[i].next
    BY <1>5, <1>8
  <2> QED
    BY <1>10, <2>1, SameOf
<1>12. InUse(new) = InUse(rec)
  BY <1>5 DEF InUse
<1> QED
  BY <1>2, <1>3, <1>10, <1>11, <1>12

\* Was a character merged, now or before?
MergedNow(e, m, n) == n = (m \/ (OnEntry(e) /\ Current(e).data = e.undo))

\* The record of the line is made longer: the line with text t comes where it came
\* with the text that the shorter record gives back.
LEMMA LongerHolds ==
  ASSUME NEW e, NEW t \in Text, NEW o, NEW u, NEW m, Holds(e, t, o, u, m), e.undo \in Id,
         e.rec[e.undo].what # "free",
         NEW new, LongerRecord(e.rec, e.undo, new), NEW d \in Editor, SameLines(e, d),
         d.undo = e.undo, d.rec = new,
         NEW w \in Text, UndoneText(w, new[e.undo]) = UndoneText(t, e.rec[e.undo]),
         NEW n, MergedNow(e, m, n)
  PROVE  Holds(d, w, o, u, n)
<1>1. PICK h \in Id : h = e.undo
  OBVIOUS
<1>2. /\ InOrder(e, NULL) /\ e \in Editor /\ Sound(e.rec) /\ e.offset <= Len(e.list)
      /\ NULL \in Pointer
  BY Pointers DEF Holds, InOrder
<1>3. /\ Sound(new) /\ InUse(new) = InUse(e.rec)
      /\ \A p \in Pointer : Of(new, p) = Of(e.rec, p)
      /\ \A i \in Id : i # h => new[i] = e.rec[i]
      /\ new[h].next = e.rec[h].next
  BY <1>1, <1>2, LongerSound
<1>4. e.rec[h].next \in Pointer /\ h \notin Of(e.rec, e.rec[h].next) /\ h \in Pointer
  BY <1>2, OfFacts, Pointers
<1>5. /\ d.list = e.list /\ d.offset = e.offset /\ d.saved = e.saved
      /\ Place(d) = Place(e) /\ (OnEntry(d) <=> OnEntry(e))
  BY DEF SameLines, Place, OnEntry
<1>6. Heads(d) = Heads(e) /\ Lists(d) = Lists(e)
  <2>1. Heads(d) = Heads(e)
    BY <1>5 DEF Heads
  <2>2. \A k \in 0 .. Len(e.list) : Heads(e)[k] \in Pointer
    BY <1>2, HeadsAre
  <2>3. \A k \in 0 .. Len(e.list) : Of(new, Heads(e)[k]) = Of(e.rec, Heads(e)[k])
    BY <1>3, <2>2
  <2> QED
    BY <1>5, <2>1, <2>3 DEF Lists
<1>7. InOrder(d, NULL)
  <2>1. Apart(Len(e.list), Place(e), Of(e.rec, e.undo), Lists(e), Of(e.rec, NULL), InUse(e.rec))
    BY <1>2 DEF InOrder
  <2>2. Apart(Len(d.list), Place(d), Of(d.rec, d.undo), Lists(d), Of(d.rec, NULL), InUse(d.rec))
    BY <1>1, <1>2, <1>3, <1>4, <1>5, <1>6, <2>1
  <2>3. OnEntry(e) <=> e.saved # <<>>
    BY <1>2 DEF InOrder
  <2> QED
    BY <1>2, <1>3, <1>5, <2>2, <2>3 DEF InOrder
<1>8. ASSUME ~n PROVE Gives(d, o) /\ LineTakes(d, w, u) /\ Meets(d, w)
  <2>1. ~m /\ ~(OnEntry(e) /\ Current(e).data = e.undo)
    BY <1>8 DEF MergedNow
  <2>2. Gives(e, o) /\ LineTakes(e, t, u) /\ Meets(e, t)
    BY <2>1 DEF Holds
  <2>3. OnEntry(e) => e.list[Place(e)].data # h
    BY <1>1, <2>1 DEF Current, Place
  <2>4. \A k \in 0 .. Len(e.list) : h \notin Of(e.rec, Heads(e)[k])
    <3> SUFFICES ASSUME NEW k \in 0 .. Len(e.list) PROVE h \notin Of(e.rec, Heads(e)[k])
      OBVIOUS
    <3>1. CASE k # Place(e)
      BY <1>1, <1>2, <3>1, HeadAlone
    <3>2. CASE k = Place(e)
      <4>1. Len(e.list) \in Nat /\ Place(e) \in 1 .. Len(e.list) + 1
        BY <1>2, Parts, PlaceIs
      <4>2. Place(e) \in 1 .. Len(e.list)
        BY <3>2, <4>1
      <4>3. OnEntry(e)
        BY <1>2, <4>2, PlaceIs
      <4> QED
        BY <1>1, <1>2, <2>3, <3>2, <4>2, <4>3, HeadAlone
    <3> QED
      BY <3>1, <3>2
  <2>5. \A k \in 0 .. Len(e.list) : \A x, y : Takes(e.rec, Heads(e)[k], x, y) => Takes(new, Heads(e)[k], x, y)
    <3> SUFFICES ASSUME NEW k \in 0 .. Len(e.list), NEW x, NEW y, Takes(e.rec, Heads(e)[k], x, y)
                 PROVE  Takes(new, Heads(e)[k], x, y)
      OBVIOUS
    <3>1. PICK p \in Pointer : p = Heads(e)[k]
      BY <1>2, HeadsAre
    <3>2. \A i \in Of(e.rec, p) : new[i] = e.rec[i]
      BY <1>2, <1>3, <2>4, <3>1, OfFacts
    <3>3. Takes(e.rec, p, x, y)
      BY <3>1
    <3>4. Takes(new, p, x, y)
      BY <1>2, <3>2, <3>3, SameTakes
    <3> QED
      BY <3>1, <3>4
  <2>6. Gives(d, o)
    <3>1. /\ \A k \in 1 .. Len(e.list) : k \in 0 .. Len(e.list) /\ Heads(e)[k] = e.list[k].data
          /\ 0 \in 0 .. Len(e.list) /\ (e.saved # <<>> => Heads(e)[0] = e.saved[1].data)
      <4>1. Len(e.list) \in Nat
        BY <1>2, Parts
      <4>2. \A k \in 1 .. Len(e.list) : k \in 0 .. Len(e.list)
        OBVIOUS
      <4>3. 0 \in 0 .. Len(e.list)
        BY <4>1
      <4> QED
        BY <1>2, <4>2, <4>3, HeadsAre
    <3>2. /\ \A k \in 1 .. Len(e.list) : Takes(e.rec, e.list[k].data, e.list[k].line, o[k])
          /\ e.saved # <<>> => Takes(e.rec, e.saved[1].data, e.saved[1].line, o[0])
      BY <2>2 DEF Gives
    <3>3. \A k \in 1 .. Len(e.list) : Takes(new, e.list[k].data, e.list[k].line, o[k])
      BY <2>5, <3>1, <3>2
    <3>4. e.saved # <<>> => Takes(new, e.saved[1].data, e.saved[1].line, o[0])
      BY <2>5, <3>1, <3>2
    <3> QED
      BY <1>5, <3>3, <3>4 DEF Gives
  <2>7. PICK q \in Pointer : q = e.rec[h].next
    BY <1>4
  <2>8. \A i \in Of(e.rec, q) : new[i] = e.rec[i]
    BY <1>2, <1>3, <1>4, <2>7, OfFacts
  <2>9. PICK x : x = UndoneText(t, e.rec[h])
    OBVIOUS
  <2>10. UndoneText(w, new[h]) = x
    BY <1>1, <2>9
  <2>11. LineTakes(d, w, u)
    <3>1. Takes(e.rec, h, t, u)
      BY <1>1, <2>2 DEF LineTakes
    <3>2. Takes(e.rec, q, x, u)
      BY <1>2, <2>7, <2>9, <3>1, TakesRest, SoundLinked
    <3>3. Takes(new, q, x, u)
      BY <1>2, <2>8, <3>2, SameTakes
    <3>4. Takes(new, h, w, u)
      BY <1>3, <2>7, <2>10, <3>3, TakesMore
    <3> QED
      BY <1>1, <3>4 DEF LineTakes
  <2>12. Meets(d, w)
    <3> SUFFICES ASSUME OnEntry(e)
                 PROVE  Reaches(d.rec, d.undo, w, d.list[Place(d)].data, d.list[Place(d)].line)
      BY <1>5 DEF Meets
    <3>1. PICK y : y = e.list[Place(e)]
      OBVIOUS
    <3>2. Reaches(e.rec, h, t, y.data, y.line) /\ h # y.data
      BY <1>1, <2>2, <2>3, <3>1 DEF Meets
    <3>3. Reaches(e.rec, q, x, y.data, y.line)
      BY <2>7, <2>9, <3>2, ReachesRest
    <3>4. Reaches(new, q, x, y.data, y.line)
      BY <1>2, <2>8, <3>3, SameReaches
    <3>5. Reaches(new, new[h].next, UndoneText(w, new[h]), y.data, y.line)
      BY <1>3, <2>7, <2>10, <3>4
    <3>6. Reaches(new, h, w, y.data, y.line)
      BY <3>5, ReachesMore
    <3> QED
      BY <1>1, <1>5, <3>1, <3>6
  <2> QED
    BY <2>6, <2>11, <2>12
<1> QED
  BY <1>7, <1>8 DEF Holds

-----------------------------------------------------------------------------
(* The commands that change the line *)

\* A character is inserted into the record of the line.
LEMMA MergeChanges ==
  ASSUME NEW b, NEW e, NEW o, NEW u, NEW m, NEW k,
         NEW t \in Text, e.text = t, Changed(b, e, t, o, u, m, k), e.point \in 0 .. Len(t),
         NEW new \in Text, CanMerge(e, new), NEW d, d = InsertText(e, new),
         NEW n, MergedNow(e, m, n)
  PROVE  /\ Changed(b, d, d.text, o, u, n, k)
         /\ d.text = With(t, e.point, new) /\ d.text \in Text /\ PointIn(d)
<1>1. /\ Holds(e, t, o, u, m) /\ SameLines(b, e) /\ RoomFor(e, k)
      /\ InOrder(e, NULL) /\ e \in Editor /\ Sound(e.rec) /\ e.undo \in Pointer
  BY Parts DEF Changed, Holds, InOrder
<1>2. e.undo # NULL /\ Len(new) = 1
  BY DEF CanMerge
<1>3. PICK h \in Id : h = e.undo
  BY <1>1, <1>2, Pointers
<1>4. PICK r \in UndoRec : r = e.rec[h]
  BY <1>1 DEF Sound
<1>5. /\ r.what = "insert" /\ r.end = e.point /\ r.start <= r.end
      /\ r.start \in Nat /\ r.end \in Nat /\ r.what # "free"
  <2>1. r.what = "insert" /\ r.end = e.point
    BY <1>3, <1>4 DEF CanMerge
  <2>2. r.start <= r.end
    BY <1>1, <1>4 DEF Sound
  <2>3. r.start \in Nat /\ r.end \in Nat
    BY DEF UndoRec
  <2> QED
    BY <2>1, <2>2, <2>3
<1>6. PICK rec : LongerRecord(e.rec, h, rec)
  BY DEF LongerRecord
<1>7. /\ Sound(rec) /\ InUse(rec) = InUse(e.rec) /\ \A i \in Id : i # h => rec[i] = e.rec[i]
      /\ rec[h].what = r.what /\ rec[h].start = r.start /\ rec[h].end = r.end + 1
  BY <1>1, <1>4, <1>5, <1>6, LongerSound
<1>8. PICK at \in 0 .. Len(t) : at = e.point
  OBVIOUS
<1>9. PICK w \in Text : w = With(t, at, new) /\ Len(w) = Len(t) + 1
  <2>1. With(t, at, new) \in Text /\ Len(With(t, at, new)) = Len(t) + Len(new)
    BY WithText
  <2> QED
    BY <1>2, <2>1
<1>10. UndoneText(w, rec[h]) = UndoneText(t, r)
  <2>1. r.end = at /\ rec[h].what = "insert" /\ rec[h].start = r.start /\ rec[h].end = r.end + 1
    BY <1>5, <1>7, <1>8
  <2> QED
    BY <1>2, <1>5, <1>9, <2>1, MergedUndone
<1>11. Len(t) \in Nat /\ at \in Nat /\ at + 1 \in Nat /\ at + 1 <= Len(t) + 1
  BY TextLen
<1>12. d = [e EXCEPT !.rec = rec, !.text = w, !.point = at + 1]
  <2>1. [e EXCEPT !.rec[e.undo].end = @ + 1] = [e EXCEPT !.rec = rec]
    BY <1>1, <1>3, <1>6 DEF LongerRecord, Editor
  <2>2. PICK c : c = [e EXCEPT !.rec = rec]
    OBVIOUS
  <2>3. d = [c EXCEPT !.text = w, !.point = @ + 1]
    BY <1>2, <1>8, <1>9, <2>1, <2>2 DEF InsertText
  <2>4. c.point = at
    BY <1>1, <1>8, <2>2 DEF Editor
  <2>5. d = [c EXCEPT !.text = w, !.point = at + 1]
    BY <2>3, <2>4
  <2> QED
    BY <2>2, <2>5
<1>13. /\ d.text = w /\ d.point = at + 1 /\ d.undo = e.undo /\ d.rec = rec
       /\ d.list = e.list /\ d.offset = e.offset /\ d.saved = e.saved
  BY <1>1, <1>12 DEF Editor
<1>14. d \in Editor
  <2>1. rec \in [Id -> UndoRec]
    BY <1>7 DEF Sound
  <2> QED
    BY <1>1, <1>11, <1>12, <2>1 DEF Editor, UndoRec, Text
<1>15. SameLines(e, d) /\ SameLines(b, d)
  BY <1>1, <1>13 DEF SameLines
<1>16. Holds(d, w, o, u, n)
  <2>1. LongerRecord(e.rec, e.undo, rec) /\ e.undo \in Id /\ e.rec[e.undo].what # "free"
    BY <1>3, <1>4, <1>5, <1>6
  <2>2. UndoneText(w, rec[e.undo]) = UndoneText(t, e.rec[e.undo])
    BY <1>3, <1>4, <1>10
  <2> QED
    BY <1>1, <1>13, <1>14, <1>15, <2>1, <2>2, LongerHolds
<1>17. RoomFor(d, k)
  <2>1. \A i \in Id : d.rec[i].what = "free" <=> e.rec[i].what = "free"
    BY <1>4, <1>5, <1>7, <1>13
  <2>2. FreeIds(d) = FreeIds(e)
    BY <2>1 DEF FreeIds
  <2> QED
    BY <1>1, <2>2 DEF RoomFor
<1>18. PointIn(d)
  BY <1>9, <1>11, <1>13 DEF PointIn
<1> QED
  BY <1>8, <1>9, <1>13, <1>15, <1>16, <1>17, <1>18 DEF Changed

\* What a command begins with.
LEMMA EditBegins ==
  ASSUME NEW e, NEW o, NEW v, NEW m, Kept(e, o, v, m), NEW k, RoomFor(e, k)
  PROVE  /\ Changed(e, e, e.text, o, Origin(e, o), m, k)
         /\ e \in Editor /\ e.text \in Text /\ Len(e.text) \in Nat
         /\ e.point \in 0 .. Len(e.text)
<1>1. e \in Editor /\ e.text \in Text /\ e.point \in Nat /\ InOrder(e, NULL)
  BY Parts DEF Kept, InOrder
<1>2. Len(e.text) \in Nat /\ e.point <= Len(e.text)
  BY <1>1, TextLen DEF Kept, PointIn
<1>3. Holds(e, e.text, o, Origin(e, o), m)
  BY <1>1 DEF Holds, Kept, Tells
<1> QED
  BY <1>1, <1>2, <1>3 DEF Changed, SameLines

\* No character merged before is forgotten.
StillMerged(m, n) == m => n

\* What a command leaves.
LEMMA EditDone ==
  ASSUME NEW e, NEW o, NEW v, NEW m, Kept(e, o, v, m), DOMAIN v = 1 .. Len(e.list) + 1,
         NEW d, NEW n, NEW k, Changed(e, d, d.text, o, Origin(e, o), n, k), StillMerged(m, n),
         PointIn(d)
  PROVE  Kept(d, o, [v EXCEPT ![Place(e)] = d.text], n) /\ Len(d.list) = Len(e.list)
<1>1. SameLines(e, d) /\ Holds(d, d.text, o, Origin(e, o), n)
  BY DEF Changed
<1>2. d.list = e.list /\ OthersStay(e, d)
  BY <1>1 DEF SameLines, OthersStay
<1>3. m => n
  BY DEF StillMerged
<1> QED
  BY <1>1, <1>2, <1>3, EditKept

\* What every command that changes the line leaves.
EditKeeps(e, o, v, m, d, n) ==
  /\ Kept(d, o, [v EXCEPT ![Place(e)] = d.text], n)
  /\ Len(d.list) = Len(e.list) /\ d.text \in Text

\* A text inserted keeps the invariant, unless a character was merged.
LEMMA InsertKept ==
  ASSUME NEW e, NEW o, NEW v, NEW m, Kept(e, o, v, m), DOMAIN v = 1 .. Len(e.list) + 1,
         RoomFor(e, 2), NEW new \in Text, NEW d, d = InsertText(e, new),
         NEW n, n = (m \/ (CanMerge(e, new) /\ OnEntry(e) /\ Current(e).data = e.undo))
  PROVE  EditKeeps(e, o, v, m, d, n)
<1>0. PICK k1, k2 : k1 = 1 /\ k2 = 2 /\ OneLess(k1, k2)
  BY DEF OneLess
<1>1. /\ Changed(e, e, e.text, o, Origin(e, o), m, k2)
      /\ e \in Editor /\ e.text \in Text /\ e.point \in 0 .. Len(e.text)
  BY <1>0, EditBegins
<1>2. PICK t \in Text : t = e.text
  BY <1>1
<1>3. PICK u : u = Origin(e, o)
  OBVIOUS
<1>4. Changed(e, e, t, o, u, m, k2) /\ e.point \in 0 .. Len(t)
  BY <1>1, <1>2, <1>3
<1>5. StillMerged(m, n)
  BY DEF StillMerged
<1>6. CASE CanMerge(e, new)
  <2>1. MergedNow(e, m, n)
    BY <1>6 DEF MergedNow
  <2>2. Changed(e, d, d.text, o, u, n, k2) /\ d.text \in Text /\ PointIn(d)
    BY <1>2, <1>4, <1>6, <2>1, MergeChanges
  <2>3. Changed(e, d, d.text, o, Origin(e, o), n, k2)
    BY <1>3, <2>2
  <2> QED
    BY <1>5, <2>2, <2>3, EditDone DEF EditKeeps
<1>7. CASE ~CanMerge(e, new)
  <2>1. Changed(e, d, d.text, o, u, m, k1) /\ d.text \in Text /\ PointIn(d)
    BY <1>0, <1>2, <1>4, <1>7, InsertChanges
  <2>2. Changed(e, d, d.text, o, Origin(e, o), n, k1)
    <3>1. ~n => ~m
      OBVIOUS
    <3> QED
      BY <1>3, <2>1, <3>1 DEF Changed, Holds
  <2> QED
    BY <1>5, <2>1, <2>2, EditDone DEF EditKeeps
<1> QED
  BY <1>6, <1>7

\* So does a part of the text deleted.
LEMMA EraseKept ==
  ASSUME NEW e, NEW o, NEW v, NEW m, Kept(e, o, v, m), DOMAIN v = 1 .. Len(e.list) + 1,
         RoomFor(e, 2), NEW to \in 0 .. Len(e.text), NEW from \in 0 .. to,
         NEW d, d = DeleteText(e, from, to)
  PROVE  EditKeeps(e, o, v, m, d, m)
<1>0. PICK k1, k2 : k1 = 1 /\ k2 = 2 /\ OneLess(k1, k2)
  BY DEF OneLess
<1>1. /\ Changed(e, e, e.text, o, Origin(e, o), m, k2)
      /\ e \in Editor /\ e.text \in Text
  BY <1>0, EditBegins
<1>2. PICK t \in Text : t = e.text
  BY <1>1
<1>3. PICK u : u = Origin(e, o)
  OBVIOUS
<1>4. Changed(e, e, t, o, u, m, k2) /\ to \in 0 .. Len(t)
  BY <1>1, <1>2, <1>3
<1>5. PartOf(t, from, to)
  BY <1>4 DEF PartOf
<1>6. Changed(e, d, d.text, o, u, m, k1) /\ d.text \in Text /\ PointIn(d)
  <2>1. t \in Text /\ d = DeleteText(e, from, to)
    OBVIOUS
  <2>2. OneLess(k1, k2)
    BY <1>0
  <2>3. e.text = t /\ Changed(e, e, t, o, u, m, k2)
    BY <1>2, <1>4
  <2> QED
    BY ONLY <1>5, <2>1, <2>2, <2>3, DeleteChanges
<1>7. StillMerged(m, m)
  BY DEF StillMerged
<1>8. Changed(e, d, d.text, o, Origin(e, o), m, k1)
  BY <1>3, <1>6
<1> QED
  BY <1>6, <1>7, <1>8, EditDone DEF EditKeeps

\* So does kill-whole-line: the deletion, if any, in a group.
LEMMA KillKept ==
  ASSUME NEW e, NEW o, NEW v, NEW m, Kept(e, o, v, m), DOMAIN v = 1 .. Len(e.list) + 1,
         RoomFor(e, 3), NEW begun, begun = Group([e EXCEPT !.point = 0], "begin"),
         NEW d, d = Group(IF e.text = <<>> THEN begun ELSE DeleteText(begun, 0, Len(e.text)), "end")
  PROVE  EditKeeps(e, o, v, m, d, m)
<1>0. PICK k0, k1, k2, k3 :
        k0 = 0 /\ k3 = 3 /\ OneLess(k0, k1) /\ OneLess(k1, k2) /\ OneLess(k2, k3)
  <2>1. 0 \in Nat /\ 1 = 0 + 1 /\ 2 = 1 + 1 /\ 3 = 2 + 1
    OBVIOUS
  <2> QED
    BY <2>1 DEF OneLess
<1>1. /\ Changed(e, e, e.text, o, Origin(e, o), m, k3)
      /\ e \in Editor /\ e.text \in Text /\ Len(e.text) \in Nat
  BY <1>0, EditBegins
<1>2. PICK t \in Text : t = e.text
  BY <1>1
<1>3. PICK u : u = Origin(e, o)
  OBVIOUS
<1>4. Changed(e, e, t, o, u, m, k3) /\ Len(t) \in Nat
  BY <1>1, <1>2, <1>3
<1>5. PICK a : a = [e EXCEPT !.point = 0]
  OBVIOUS
<1>6. TextSet(e, a, t, k0)
  BY <1>0, <1>1, <1>2, <1>5 DEF TextSet, Editor
<1>7. Changed(e, a, t, o, u, m, k3) /\ a.text = t /\ a.point = k0
  BY <1>4, <1>6, TextChanges
<1>8. Changed(e, begun, t, o, u, m, k2) /\ begun.text = t /\ begun.point = k0
  <2>1. begun = Group(a, "begin") /\ "begin" \in {"begin", "end"}
    BY <1>5
  <2> QED
    BY <1>0, <1>7, <2>1, GroupChanges
<1>9. PICK c : c = IF e.text = <<>> THEN begun ELSE DeleteText(begun, 0, Len(e.text))
  OBVIOUS
<1>10. PICK k \in {k1, k2} : Changed(e, c, c.text, o, u, m, k) /\ c.text \in Text /\ PointIn(c)
  <2>1. CASE e.text = <<>>
    <3>1. c = begun /\ PointIn(c)
      BY <1>0, <1>2, <1>4, <1>8, <1>9, <2>1 DEF PointIn
    <3> QED
      BY <1>8, <3>1
  <2>2. CASE e.text # <<>>
    <3>1. c = DeleteText(begun, 0, Len(t))
      BY <1>2, <1>9, <2>2
    <3>2. PICK to \in 0 .. Len(t) : to = Len(t)
      BY <1>4
    <3>3. PICK from \in 0 .. to : from = 0
      OBVIOUS
    <3>4. c = DeleteText(begun, from, to)
      BY <3>1, <3>2, <3>3
    <3>5. PartOf(t, from, to)
      BY <3>2, <3>3 DEF PartOf
    <3>6. Changed(e, c, c.text, o, u, m, k1) /\ c.text \in Text /\ PointIn(c)
      <4>1. t \in Text
        OBVIOUS
      <4>2. OneLess(k1, k2)
        BY <1>0
      <4>3. begun.text = t /\ Changed(e, begun, t, o, u, m, k2)
        BY <1>8
      <4> QED
        BY ONLY <3>4, <3>5, <4>1, <4>2, <4>3, DeleteChanges
    <3> QED
      BY <3>6
  <2> QED
    BY <2>1, <2>2
<1>11. PICK j : OneLess(j, k)
  BY <1>0, <1>10
<1>12. PICK x \in Text : x = c.text
  BY <1>10
<1>13. Changed(e, d, x, o, u, m, j) /\ d.text = c.text /\ d.point = c.point
  <2>1. d = Group(c, "end") /\ "end" \in {"begin", "end"}
    BY <1>9
  <2>2. Changed(e, c, x, o, u, m, k)
    BY <1>10, <1>12
  <2> QED
    <3>1. x \in Text
      OBVIOUS
    <3> QED
      BY ONLY <1>11, <2>1, <2>2, <3>1, GroupChanges
<1>14. PointIn(d) /\ d.text \in Text /\ Changed(e, d, d.text, o, Origin(e, o), m, j)
  BY <1>3, <1>10, <1>12, <1>13 DEF PointIn
<1>15. StillMerged(m, m)
  BY DEF StillMerged
<1> QED
  BY <1>14, <1>15, EditDone DEF EditKeeps

\* The characters from start on are changed, up to end.
CaseChanged(t, start, end, case, new) ==
  new = [k \in DOMAIN t |-> IF k \in start + 1 .. end THEN case[t[k]] ELSE t[k]]

\* A character for every place is a text.
LEMMA CharactersText ==
  ASSUME NEW j \in Nat, NEW y \in [1 .. j -> Char]
  PROVE  y \in Text /\ Len(y) = j
BY DEF Text

\* So do upcase-word and downcase-word, which note a deletion and an insertion.
LEMMA CaseKept ==
  ASSUME NEW e, NEW o, NEW v, NEW m, Kept(e, o, v, m), DOMAIN v = 1 .. Len(e.list) + 1,
         RoomFor(e, 4), NEW case \in [Char -> Char], NEW end \in e.point + 1 .. Len(e.text),
         NEW start, start = e.point, NEW old, old = SubSeq(e.text, start + 1, end),
         NEW begun, begun = Group(e, "begin"),
         NEW noted, noted = Group(AddUndo(AddUndo(begun, "delete", start, end, old),
                                          "insert", start, end, <<>>), "end"),
         NEW new, CaseChanged(e.text, start, end, case, new),
         NEW d, d = [noted EXCEPT !.text = new, !.point = end]
  PROVE  EditKeeps(e, o, v, m, d, m)
<1>0. PICK k0, k1, k2, k3, k4 : /\ k4 = 4 /\ OneLess(k0, k1) /\ OneLess(k1, k2)
                                /\ OneLess(k2, k3) /\ OneLess(k3, k4)
  <2>1. 0 \in Nat /\ 1 = 0 + 1 /\ 2 = 1 + 1 /\ 3 = 2 + 1 /\ 4 = 3 + 1
    OBVIOUS
  <2> QED
    BY <2>1 DEF OneLess
<1>1. OneLess(k0, k1) /\ OneLess(k1, k2) /\ OneLess(k2, k3) /\ OneLess(k3, k4)
  BY <1>0
<1>2. /\ Changed(e, e, e.text, o, Origin(e, o), m, k4)
      /\ e \in Editor /\ e.text \in Text /\ Len(e.text) \in Nat /\ e.point \in 0 .. Len(e.text)
  BY <1>0, EditBegins
<1>3. PICK t \in Text : t = e.text
  BY <1>2
<1>4. PICK u : u = Origin(e, o)
  OBVIOUS
<1>5. Changed(e, e, t, o, u, m, k4)
  BY <1>2, <1>3, <1>4
<1>6. PICK n \in Nat : n = Len(t)
  BY TextLen
<1>7. start \in Nat /\ end \in Nat /\ start <= end /\ end <= n /\ end \in 0 .. n /\ start \in 0 .. end
  BY <1>2, <1>3, <1>6
<1>8. PICK x \in Text : x = SubSeq(t, start + 1, end)
  BY <1>6, <1>7, PartBetween
<1>9. PICK w \in Text : w = Without(t, start, end)
  BY <1>6, <1>7, WithoutText
<1>10. new \in Text /\ Len(new) = n /\ \A k \in 1 .. n : k \notin start + 1 .. end => new[k] = t[k]
  <2>1. DOMAIN t = 1 .. n /\ \A k \in 1 .. n : t[k] \in Char
    BY <1>6 DEF Text
  <2>2. new = [k \in 1 .. n |-> IF k \in start + 1 .. end THEN case[t[k]] ELSE t[k]]
    BY <1>3, <2>1 DEF CaseChanged
  <2>3. new \in [1 .. n -> Char]
    <3>1. \A y \in Char : case[y] \in Char
      OBVIOUS
    <3>2. \A k \in 1 .. n : (IF k \in start + 1 .. end THEN case[t[k]] ELSE t[k]) \in Char
      BY ONLY <2>1, <3>1
    <3> QED
      BY ONLY <2>2, <3>2
  <2>4. new \in Text /\ Len(new) = n
    <3>1. n \in Nat
      OBVIOUS
    <3> QED
      BY ONLY <2>3, <3>1, CharactersText
  <2> QED
    BY <2>2, <2>4
<1>11. Without(new, start, end) = w
  BY <1>6, <1>7, <1>9, <1>10, ChangeUndone
<1>12. Changed(e, begun, t, o, u, m, k3)
  <2>1. "begin" \in {"begin", "end"} /\ t \in Text /\ begun = Group(e, "begin")
    OBVIOUS
  <2> QED
    BY ONLY <1>1, <1>5, <2>1, GroupChanges
<1>13. PICK r : r = [what |-> "delete", start |-> start, end |-> end, text |-> x, next |-> begun.undo]
  OBVIOUS
<1>14. PICK c : c = AddUndo(begun, "delete", start, end, x)
  OBVIOUS
<1>15. Changed(e, c, w, o, u, m, k2)
  <2>1. Notes(begun, c, "delete", start, end, x, r)
    BY <1>7, <1>13, <1>14 DEF Notes
  <2>2. UndoneText(w, r) = t
    <3>1. r.what = "delete" /\ r.start = start /\ r.text = SubSeq(t, start + 1, end)
      BY <1>8, <1>13
    <3>2. end \in 0 .. Len(t) /\ start \in 0 .. end /\ t \in Text
      BY <1>6, <1>7
    <3>3. UndoneText(Without(t, start, end), r) = t
      BY ONLY <3>1, <3>2, DeletionUndone
    <3> QED
      BY <1>9, <3>3
  <2>3. Changed(e, begun, UndoneText(w, r), o, u, m, k3) /\ w \in Text
    BY <1>12, <2>2
  <2> QED
    BY ONLY <1>1, <2>1, <2>3, AddUndoChanges
<1>16. <<>> \in Text
  BY DEF Text
<1>17. PICK z \in Text : z = <<>>
  BY <1>16
<1>18. PICK s : s = [what |-> "insert", start |-> start, end |-> end, text |-> z, next |-> c.undo]
  OBVIOUS
<1>19. PICK f : f = AddUndo(c, "insert", start, end, z)
  OBVIOUS
<1>20. Changed(e, f, new, o, u, m, k1)
  <2>1. Notes(c, f, "insert", start, end, z, s)
    BY <1>7, <1>18, <1>19 DEF Notes
  <2>2. UndoneText(new, s) = w
    <3>1. s.what = "insert" /\ s.start = start /\ s.end = end
      BY <1>18
    <3>2. Clip(s.start, new) = start /\ Clip(s.end, new) = end
      BY <1>7, <1>10, <3>1 DEF Clip
    <3> QED
      BY <1>11, <3>1, <3>2 DEF UndoneText
  <2>3. Changed(e, c, UndoneText(new, s), o, u, m, k2) /\ new \in Text
    BY <1>10, <1>15, <2>2
  <2> QED
    BY ONLY <1>1, <2>1, <2>3, AddUndoChanges
<1>21. Changed(e, noted, new, o, u, m, k0)
  <2>1. noted = Group(f, "end") /\ "end" \in {"begin", "end"} /\ new \in Text
    BY <1>3, <1>8, <1>10, <1>14, <1>17, <1>19
  <2> QED
    BY ONLY <1>1, <1>20, <2>1, GroupChanges
<1>22. Changed(e, d, new, o, u, m, k0) /\ d.text = new /\ d.point = end
  <2>1. TextSet(noted, d, new, end) /\ new \in Text
    BY <1>7, <1>10 DEF TextSet
  <2>2. /\ Changed(e, d, new, o, u, m, k0)
        /\ d.text = new /\ d.point = end /\ d.undo = noted.undo /\ d.rec = noted.rec
    BY ONLY <1>21, <2>1, TextChanges
  <2> QED
    BY <2>2
<1>23. PointIn(d) /\ d.text \in Text /\ Changed(e, d, d.text, o, Origin(e, o), m, k0)
  BY <1>4, <1>7, <1>10, <1>22 DEF PointIn
<1>24. StillMerged(m, m)
  BY DEF StillMerged
<1>25. Kept(d, o, [v EXCEPT ![Place(e)] = d.text], m) /\ Len(d.list) = Len(e.list)
  BY <1>23, <1>24, EditDone
<1> QED
  BY <1>23, <1>25 DEF EditKeeps

\* So does transpose-chars: a deletion and an insertion in a group.
LEMMA TransposeKept ==
  ASSUME NEW e, NEW o, NEW v, NEW m, Kept(e, o, v, m), DOMAIN v = 1 .. Len(e.list) + 1,
         RoomFor(e, 4), e.point > 0, Len(e.text) >= 2,
         NEW at, at = IF e.point = Len(e.text) THEN e.point - 1 ELSE e.point,
         NEW cut, cut = DeleteText(Group(e, "begin"), at - 1, at),
         NEW moved, moved = InsertText([cut EXCEPT !.point = at], <<e.text[at]>>),
         NEW d, d = Group(moved, "end")
  PROVE  EditKeeps(e, o, v, m, d, m)
<1>0. PICK k0, k1, k2, k3, k4 : /\ k4 = 4 /\ OneLess(k0, k1) /\ OneLess(k1, k2)
                                /\ OneLess(k2, k3) /\ OneLess(k3, k4)
  <2>1. 0 \in Nat /\ 1 = 0 + 1 /\ 2 = 1 + 1 /\ 3 = 2 + 1 /\ 4 = 3 + 1
    OBVIOUS
  <2> QED
    BY <2>1 DEF OneLess
<1>1. OneLess(k0, k1) /\ OneLess(k1, k2) /\ OneLess(k2, k3) /\ OneLess(k3, k4)
  BY <1>0
<1>2. /\ Changed(e, e, e.text, o, Origin(e, o), m, k4)
      /\ e \in Editor /\ e.text \in Text /\ Len(e.text) \in Nat /\ e.point \in 0 .. Len(e.text)
  BY <1>0, EditBegins
<1>3. PICK t \in Text : t = e.text
  BY <1>2
<1>4. PICK u : u = Origin(e, o)
  OBVIOUS
<1>5. Changed(e, e, t, o, u, m, k4)
  BY <1>2, <1>3, <1>4
<1>6. PICK n \in Nat : n = Len(t)
  BY TextLen
<1>7. at \in 1 .. n - 1 /\ at \in Nat /\ at - 1 \in Nat
  <2>1. PICK p \in 0 .. n : p = e.point
    BY <1>2, <1>3, <1>6
  <2>2. p > 0 /\ n >= 2 /\ at = IF p = n THEN p - 1 ELSE p
    BY <1>3, <1>6, <2>1
  <2> QED
    BY <2>1, <2>2
<1>8. PICK from : from = at - 1
  OBVIOUS
<1>9. PartOf(t, from, at)
  BY <1>6, <1>7, <1>8 DEF PartOf
<1>10. PICK begun : begun = Group(e, "begin")
  OBVIOUS
<1>11. Changed(e, begun, t, o, u, m, k3) /\ begun.text = t
  <2>1. "begin" \in {"begin", "end"} /\ t \in Text
    OBVIOUS
  <2>2. Changed(e, begun, t, o, u, m, k3) /\ begun.text = e.text
    BY ONLY <1>1, <1>5, <1>10, <2>1, GroupChanges
  <2> QED
    BY <1>3, <2>2
<1>12. /\ Changed(e, cut, cut.text, o, u, m, k2)
       /\ cut.text = Without(t, from, at) /\ cut.text \in Text
       /\ cut.undo \in Id /\ cut.rec[cut.undo].what = "delete"
  <2>1. t \in Text /\ cut = DeleteText(begun, from, at)
    BY <1>8, <1>10
  <2> QED
    <3>1. OneLess(k2, k3)
      BY <1>1
    <3>2. begun.text = t /\ Changed(e, begun, t, o, u, m, k3)
      BY <1>11
    <3>3. Changed(e, cut, cut.text, o, u, m, k2) /\ cut.text \in Text
      BY ONLY <1>9, <2>1, <3>1, <3>2, DeleteChanges
    <3>4. LeftWithout(cut, t, from, at)
      BY ONLY <1>9, <2>1, <3>1, <3>2, DeleteChanges
    <3> QED
      BY <3>3, <3>4 DEF LeftWithout
<1>13. PICK w \in Text : w = cut.text
  BY <1>12
<1>14. Len(w) = n - 1
  <2>1. at \in 0 .. Len(t) /\ from \in 0 .. at
    BY <1>6, <1>7, <1>8
  <2>2. Len(Without(t, from, at)) = Len(t) - (at - from)
    BY <2>1, WithoutText
  <2>3. n - (at - from) = n - 1
    BY <1>7, <1>8
  <2> QED
    BY <1>6, <1>12, <1>13, <2>2, <2>3
<1>15. PICK c : c = [cut EXCEPT !.point = at]
  OBVIOUS
<1>16. /\ Changed(e, c, w, o, u, m, k2)
       /\ c.text = w /\ c.point = at /\ c.undo = cut.undo /\ c.rec = cut.rec
  <2>1. cut \in Editor
    BY <1>12 DEF Changed, Holds, InOrder
  <2>2. TextSet(cut, c, w, at) /\ w \in Text
    BY <1>7, <1>13, <1>15, <2>1 DEF TextSet, Editor
  <2>3. Changed(e, cut, w, o, u, m, k2)
    BY <1>12, <1>13
  <2>4. /\ Changed(e, c, w, o, u, m, k2)
        /\ c.text = w /\ c.point = at /\ c.undo = cut.undo /\ c.rec = cut.rec
    BY ONLY <2>2, <2>3, TextChanges
  <2> QED
    BY <2>4
<1>17. PICK x \in Text : x = <<e.text[at]>>
  <2>1. t[at] \in Char
    BY <1>6, <1>7 DEF Text
  <2>2. <<t[at]>> \in Text
    BY <2>1 DEF Text
  <2> QED
    BY <1>3, <2>2
<1>18. ~CanMerge(c, x)
  <2>1. c.rec[c.undo].what = "delete"
    BY <1>12, <1>16
  <2> QED
    BY <2>1 DEF CanMerge
<1>19. Changed(e, moved, moved.text, o, u, m, k1) /\ moved.text \in Text /\ PointIn(moved)
  <2>1. moved = InsertText(c, x) /\ w \in Text /\ x \in Text
    BY <1>15, <1>17
  <2>2. c.point \in 0 .. Len(w)
    BY <1>7, <1>14, <1>16
  <2>3. c.text = w /\ Changed(e, c, w, o, u, m, k2)
    BY <1>16
  <2> QED
    BY ONLY <1>1, <1>18, <2>1, <2>2, <2>3, InsertChanges
<1>20. PICK y \in Text : y = moved.text
  BY <1>19
<1>21. Changed(e, d, y, o, u, m, k0) /\ d.text = moved.text /\ d.point = moved.point
  <2>1. d = Group(moved, "end") /\ "end" \in {"begin", "end"} /\ y \in Text
    OBVIOUS
  <2>2. Changed(e, moved, y, o, u, m, k1)
    BY <1>19, <1>20
  <2> QED
    BY ONLY <1>1, <2>1, <2>2, GroupChanges
<1>22. PointIn(d) /\ d.text \in Text /\ Changed(e, d, d.text, o, Origin(e, o), m, k0)
  BY <1>4, <1>19, <1>20, <1>21 DEF PointIn
<1>23. StillMerged(m, m)
  BY DEF StillMerged
<1> QED
  <2>1. Kept(e, o, v, m) /\ DOMAIN v = 1 .. Len(e.list) + 1
    OBVIOUS
  <2> QED
    BY ONLY <2>1, <1>22, <1>23, EditDone DEF EditKeeps

-----------------------------------------------------------------------------
(* The first line *)

\* A memory in which nothing is in use.
LEMMA EmptySound ==
  ASSUME NEW rec, rec = [i \in Id |-> Free]
  PROVE  Sound(rec) /\ InUse(rec) = {}
<1>1. Free \in UndoRec /\ Free.start <= Free.end /\ Free.what = "free" /\ Free.next = NULL
  <2>1. <<>> \in Text /\ 0 \in Nat /\ 0 <= 0 /\ NULL \in Pointer
    BY Pointers DEF Text
  <2> QED
    BY <2>1 DEF Free, UndoRec
<1>2. \A i \in Id : rec[i] = Free
  OBVIOUS
<1>3. rec \in [Id -> UndoRec]
  BY <1>1
<1>4. Leads(rec)
  <2> SUFFICES ASSUME NEW p \in Pointer PROVE \E s : IsList(rec, p, s)
    BY DEF Leads
  <2>1. CASE p = NULL
    <3>1. <<>> \in Seq(Id) /\ Len(<<>>) = 0
      OBVIOUS
    <3>2. PICK s \in Seq(Id) : s = <<>> /\ Len(s) = 0
      BY <3>1
    <3>3. IsList(rec, p, s)
      BY <2>1, <3>2 DEF IsList
    <3> QED
      BY <3>3
  <2>2. CASE p # NULL
    <3>1. p \in Id
      BY <2>2, Pointers
    <3>2. <<p>> \in Seq(Id) /\ Len(<<p>>) = 1 /\ <<p>>[1] = p
      BY <3>1
    <3>3. PICK s \in Seq(Id) : Len(s) = 1 /\ s[1] = p
      BY <3>2
    <3>4. \A k \in 1 .. Len(s) : k = 1
      BY <3>3
    <3>5. IsList(rec, p, s)
      BY <1>1, <1>2, <2>2, <3>1, <3>3, <3>4 DEF IsList
    <3> QED
      BY <3>5
  <2> QED
    BY <2>1, <2>2
<1> QED
  BY <1>1, <1>2, <1>3, <1>4 DEF Sound, InUse

\* The first line is read in an editor that is in order.
LEMMA OpenedKept ==
  ASSUME NEW l \in Seq(Text), NEW e, e = Opened(l), NEW v, v = Append(l, <<>>)
  PROVE  /\ Kept(e, Based(<<>>, l), v, FALSE)
         /\ Len(l) = Len(e.list) /\ v \in Seq(Text) /\ Len(v) = Len(e.list) + 1
<1>1. <<>> \in Text
  BY DEF Text
<1>2. PICK z \in Text : z = <<>>
  BY <1>1
<1>3. PICK n \in Nat : n = Len(l) /\ DOMAIN l = 1 .. n
  OBVIOUS
<1>4. PICK rec : rec = [i \in Id |-> Free]
  OBVIOUS
<1>5. Sound(rec) /\ InUse(rec) = {} /\ rec \in [Id -> UndoRec] /\ Of(rec, NULL) = {}
      /\ NULL \in Pointer
  BY <1>4, EmptySound, OfFacts, Pointers DEF Sound
<1>6. PICK list : list = [k \in DOMAIN l |-> [line |-> l[k], data |-> NULL]]
  OBVIOUS
<1>7. /\ list \in Seq(Entry) /\ Len(list) = n
      /\ \A k \in 1 .. n : list[k].line = l[k] /\ list[k].data = NULL
  <2>1. \A k \in 1 .. n : l[k] \in Text
    BY <1>3
  <2>2. \A t \in Text : /\ [line |-> t, data |-> NULL] \in Entry
                        /\ [line |-> t, data |-> NULL].line = t
                        /\ [line |-> t, data |-> NULL].data = NULL
    BY <1>5 DEF Entry, Text
  <2>3. list = [k \in 1 .. n |-> [line |-> l[k], data |-> NULL]]
    BY <1>3, <1>6
  <2>4. list \in [1 .. n -> Entry]
    BY <2>1, <2>2, <2>3
  <2>5. \A j \in Nat : \A y \in [1 .. j -> Entry] : y \in Seq(Entry) /\ Len(y) = j
    OBVIOUS
  <2>6. list \in Seq(Entry) /\ Len(list) = n
    <3>1. n \in Nat
      OBVIOUS
    <3> QED
      BY ONLY <2>4, <2>5, <3>1
  <2>7. ASSUME NEW k \in 1 .. n PROVE list[k].line = l[k] /\ list[k].data = NULL
    BY <2>1, <2>2, <2>3
  <2> QED
    BY <2>6, <2>7
<1>8. /\ e.text = z /\ e.point = 0 /\ e.undo = NULL /\ e.list = list
      /\ e.offset = n /\ e.saved = <<>> /\ e.rec = rec
  BY <1>2, <1>3, <1>4, <1>6 DEF Opened
<1>9. e \in Editor
  <2>1. e = [text |-> z, point |-> 0, undo |-> NULL, list |-> list,
             offset |-> n, saved |-> <<>>, rec |-> rec]
    BY <1>2, <1>3, <1>4, <1>6 DEF Opened
  <2> QED
    BY <1>5, <1>7, <2>1 DEF Editor, UndoRec, Text
<1>10. Place(e) = n + 1 /\ ~OnEntry(e) /\ e.offset <= Len(e.list) /\ Len(e.list) = n
  BY <1>7, <1>8 DEF Place, OnEntry
<1>11. \A k \in 0 .. n : Lists(e)[k] = {}
  <2>1. /\ Heads(e)[0] = NULL /\ \A k \in 1 .. n : Heads(e)[k] = NULL
        /\ \A k \in 0 .. n : Lists(e)[k] = Of(rec, Heads(e)[k])
    <3>1. /\ Heads(e)[0] = IF e.saved = <<>> THEN NULL ELSE e.saved[1].data
          /\ \A k \in 1 .. Len(e.list) : Heads(e)[k] = e.list[k].data
          /\ \A k \in 0 .. Len(e.list) : Lists(e)[k] = Of(e.rec, Heads(e)[k])
      BY <1>9, HeadsAre
    <3>2. e.saved = <<>> /\ e.list = list /\ e.rec = rec
      BY <1>8
    <3>3. Heads(e)[0] = NULL
      BY <3>1, <3>2
    <3>4. \A k \in 1 .. n : Heads(e)[k] = NULL
      BY <1>7, <1>10, <3>1, <3>2
    <3>5. \A k \in 0 .. n : Lists(e)[k] = Of(rec, Heads(e)[k])
      BY <1>10, <3>1, <3>2
    <3> QED
      BY <3>3, <3>4, <3>5
  <2>2. \A k \in 0 .. n : k = 0 \/ k \in 1 .. n
    OBVIOUS
  <2> QED
    BY <1>5, <2>1, <2>2
<1>12. InOrder(e, NULL)
  <2>1. Apart(n, n + 1, Of(rec, NULL), Lists(e), Of(rec, NULL), InUse(rec))
    BY <1>5, <1>11 DEF Apart
  <2> QED
    BY <1>5, <1>8, <1>9, <1>10, <2>1 DEF InOrder
<1>13. PointIn(e)
  <2>1. Len(z) \in Nat
    BY TextLen
  <2> QED
    BY <1>8, <2>1 DEF PointIn
<1>14. v \in Seq(Text) /\ Len(v) = n + 1 /\ v[n + 1] = z /\ \A k \in 1 .. n : v[k] = l[k]
  <2>1. \A x \in Seq(Text) : \A y \in Text :
          /\ Append(x, y) \in Seq(Text) /\ Len(Append(x, y)) = Len(x) + 1
          /\ Append(x, y)[Len(x) + 1] = y
          /\ \A k \in 1 .. Len(x) : Append(x, y)[k] = x[k]
    OBVIOUS
  <2>2. v = Append(l, z) /\ Len(l) = n /\ l \in Seq(Text) /\ z \in Text
    BY <1>2, <1>3
  <2> QED
    BY ONLY <2>1, <2>2
<1>15. Tells(e, Based(<<>>, l), v)
  <2>0. Based(<<>>, l)[0] = <<>> /\ \A k \in 1 .. n : Based(<<>>, l)[k] = l[k]
    BY <1>3, BasedIs
  <2>1. Gives(e, Based(<<>>, l))
    <3>1. ASSUME NEW k \in 1 .. n PROVE Takes(rec, list[k].data, list[k].line, l[k])
      <4>1. PICK t \in Text : t = l[k]
        BY <1>3
      <4>2. Takes(rec, NULL, t, t)
        BY TakesNone
      <4> QED
        BY <1>7, <4>1, <4>2
    <3> QED
      BY <1>8, <1>10, <2>0, <3>1 DEF Gives
  <2>2. LineTakes(e, e.text, Origin(e, Based(<<>>, l)))
    <3>1. Takes(rec, NULL, z, z)
      BY TakesNone
    <3> QED
      BY <1>2, <1>8, <1>10, <2>0, <3>1 DEF LineTakes, Origin
  <2>3. Meets(e, e.text)
    BY <1>10 DEF Meets
  <2>4. Shows(e, v)
    BY <1>7, <1>8, <1>10, <1>14 DEF Shows
  <2> QED
    BY <2>1, <2>2, <2>3, <2>4 DEF Tells
<1>16. Kept(e, Based(<<>>, l), v, FALSE)
  BY <1>12, <1>13, <1>15 DEF Kept
<1> QED
  BY <1>3, <1>10, <1>14, <1>16

=============================================================================
