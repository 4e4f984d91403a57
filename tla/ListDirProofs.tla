---------------------------- MODULE ListDirProofs ----------------------------
(***************************************************************************)
(* What is proved of ListDir, for any directory, any buffer and any number *)
(* of changes: ListDirInvariant, the memory ls uses, and ListingComplete,  *)
(* what it prints.  Neither is inductive.  They rest on counting what the  *)
(* stream is still to return, and on where the pointers point.             *)
(***************************************************************************)
EXTENDS ListDir, FiniteSetTheorems, FunctionTheorems, TLAPS

-----------------------------------------------------------------------------
(* The inductive invariant *)

\* The slots readdir is still to return, the names the kernel is, and the names
\* the directory holds, as far as ls is asked for them.
Unread == {s \in at + 1 .. filled : Listed(buffer[s])}
ToCome == {n \in Later : Listed(n)}
Wanted == {n \in present : Listed(n)}
Coming == Cardinality(Unread) + Cardinality(ToCome)

\* The directory is what it was, but for what was created and removed.
Changed == atOpen \ removed \subseteq present /\ present \subseteq atOpen \cup created

\* The stream returns names that were in the directory.
StreamPart ==
  /\ \A s \in 1 .. filled : buffer[s] \in Names
  /\ \A s \in Slot : buffer[s] \in atOpen \cup created \cup {NoName}
  /\ filled = 0 => pos = 0

\* What the first reading has counted and what is still to come is at least what
\* the directory holds, and the second reading will not pass it.
AtMost ==
  created = {} =>
    /\ pc = "count" => total + Coming >= Cardinality(Wanted)
    /\ pc = "fill" => index + Coming <= total
    /\ index <= total
    /\ pc = "done" /\ total = 0 => Wanted = {}

\* And the other way round.
AtLeast ==
  removed = {} =>
    /\ pc = "count" => total + Coming <= Cardinality(Wanted)
    /\ pc = "fill" => index + Coming >= total
    /\ pc \in {"sort", "print", "done"} => \A k \in 1 .. total : entries[k] # Unset

\* The array holds pointers to slots that were written.
Stored ==
  /\ pc = "count" => index = 0
  /\ pc \in {"count", "fill", "sort"} => i = 0 /\ out = <<>>
  /\ pc \in {"fill", "sort", "print"} => total # 0
  /\ pc = "sort" => "S" \in modifiers
  /\ pc = "fill" => \A k \in 1 .. total : entries[k] # Unset <=> k <= index
  /\ \A k \in 1 .. Len(entries) : entries[k] # Unset => buffer[entries[k]] \in Names

Quiet == Fits /\ created = {}
InBuffer == {buffer[s] : s \in 1 .. filled}
Gathering == Quiet /\ (pc \in {"fill", "sort", "print"} \/ (pc = "done" /\ total # 0))

\* While nothing is created, a directory that fits the buffer is in it whole, and
\* in order, once the second reading has begun,
Whole ==
  Gathering =>
    /\ filled # 0 => Later = {} /\ present \subseteq InBuffer
    /\ \A s, t \in 1 .. filled : s < t => buffer[s] < buffer[t]

\* the pointers stored follow the stream,
Gathered ==
  Gathering /\ pc = "fill" =>
    /\ {entries[k] : k \in 1 .. index} = {s \in 1 .. at : Listed(buffer[s])}
    /\ \A k, m \in 1 .. index : k < m => entries[k] < entries[m]

\* and in the end point to every entry once,
PointsToAll ==
  Gathering /\ pc # "fill" =>
    /\ present \subseteq InBuffer
    /\ {entries[k] : k \in 1 .. total} \ {Unset} = {s \in 1 .. filled : Listed(buffer[s])}
    /\ \A k, m \in 1 .. total : entries[k] = entries[m] /\ entries[k] # Unset => k = m

\* in the order asked for.
PointsInOrder ==
  Gathering /\ removed = {} =>
    /\ pc = "sort" => \A k, m \in 1 .. total : k < m => entries[k] < entries[m]
    /\ pc \in {"print", "done"} =>
         \A k, m \in 1 .. total : k < m => InOrder(buffer[entries[k]], buffer[entries[m]])

\* What is printed is what the array points to, where it was set.
Printed ==
  pc \in {"print", "done"} =>
    /\ Len(out) = i /\ (pc = "done" => i = total)
    /\ \A k \in 1 .. i : entries[k] # Unset => out[k].name = NameOf(k)
    /\ created = {} /\ removed = {} => \A k \in 1 .. i : out[k].details = out[k].name

IInv ==
  /\ TypeOK /\ Changed /\ StreamPart /\ AtMost /\ AtLeast /\ Stored
  /\ CrashNeedsCause /\ Whole /\ Gathered /\ PointsToAll /\ PointsInOrder /\ Printed

-----------------------------------------------------------------------------
(* Places in a finite order *)

\* The place of n in S ordered by R.
PlaceIn(S, R, n) == Cardinality({m \in S : <<m, n>> \in R})

\* In a finite set that is ordered, places are in order, and every place from the
\* first to the last is somebody's.
LEMMA Places ==
  ASSUME NEW S, IsFiniteSet(S), NEW R,
         \A x, y \in S : <<x, y>> \in R \/ <<y, x>> \in R,
         \A x, y \in S : <<x, y>> \in R /\ <<y, x>> \in R => x = y,
         \A x, y, z \in S : <<x, y>> \in R /\ <<y, z>> \in R => <<x, z>> \in R
  PROVE  /\ \A n \in S : PlaceIn(S, R, n) \in 1 .. Cardinality(S)
         /\ \A m, n \in S : PlaceIn(S, R, m) <= PlaceIn(S, R, n) <=> <<m, n>> \in R
         /\ \A k \in 1 .. Cardinality(S) : \E n \in S : PlaceIn(S, R, n) = k
<1> DEFINE Below(n) == {m \in S : <<m, n>> \in R}
<1>1. \A n \in S : /\ IsFiniteSet(Below(n)) /\ Cardinality(Below(n)) \in Nat
                   /\ Cardinality(Below(n)) <= Cardinality(S) /\ n \in Below(n)
  <2> TAKE n \in S
  <2>1. Below(n) \in SUBSET S /\ n \in Below(n)
    OBVIOUS
  <2> HIDE DEF Below
  <2> QED
    BY <2>1, FS_Subset, FS_CardinalityType
<1>2. Cardinality(S) \in Nat
  BY FS_CardinalityType
<1>3. \A m, n \in S : <<m, n>> \in R => Cardinality(Below(m)) <= Cardinality(Below(n))
  <2> TAKE m \in S, n \in S
  <2>1. <<m, n>> \in R => Below(m) \in SUBSET Below(n)
    OBVIOUS
  <2> HIDE DEF Below
  <2> QED
    BY <1>1, <2>1, FS_Subset
<1>4. \A m, n \in S : <<m, n>> \notin R => ~(Cardinality(Below(m)) <= Cardinality(Below(n)))
  <2> SUFFICES ASSUME NEW m \in S, NEW n \in S, <<m, n>> \notin R
               PROVE  ~(Cardinality(Below(m)) <= Cardinality(Below(n)))
    OBVIOUS
  <2>1. Below(n) \in SUBSET Below(m) /\ m \in Below(m) /\ m \notin Below(n)
    OBVIOUS
  <2> HIDE DEF Below
  <2>2. /\ Cardinality(Below(n)) <= Cardinality(Below(m))
        /\ Cardinality(Below(n)) # Cardinality(Below(m))
    BY <1>1, <2>1, FS_Subset
  <2> QED
    BY <1>1, <2>2
<1>5. \A n \in S : PlaceIn(S, R, n) = Cardinality(Below(n))
  BY DEF PlaceIn
<1> HIDE DEF Below
<1>6. \A n \in S : PlaceIn(S, R, n) \in 1 .. Cardinality(S)
  <2> TAKE n \in S
  <2>1. Cardinality(Below(n)) # 0
    BY <1>1, FS_EmptySet
  <2> QED
    BY <1>1, <1>2, <1>5, <2>1
<1>7. \A m, n \in S : PlaceIn(S, R, m) <= PlaceIn(S, R, n) <=> <<m, n>> \in R
  <2> TAKE m \in S, n \in S
  <2>1. /\ PlaceIn(S, R, m) = Cardinality(Below(m))
        /\ PlaceIn(S, R, n) = Cardinality(Below(n))
    BY <1>5
  <2>2. Cardinality(Below(m)) <= Cardinality(Below(n)) <=> <<m, n>> \in R
    BY <1>3, <1>4
  <2> QED
    BY <2>1, <2>2
<1>8. \A k \in 1 .. Cardinality(S) : \E n \in S : PlaceIn(S, R, n) = k
  <2> DEFINE f == [n \in S |-> PlaceIn(S, R, n)]
             T == 1 .. Cardinality(S)
  <2>1. f \in [S -> T]
    BY <1>6
  <2>2. \A m, n \in S : f[m] = f[n] => m = n
    <3> TAKE m \in S, n \in S
    <3>1. f[m] = f[n] => <<m, n>> \in R /\ <<n, m>> \in R
      BY <1>6, <1>7
    <3> QED
      BY <3>1
  <2>3. IsFiniteSet(T) /\ Cardinality(T) = Cardinality(S)
    BY <1>2, FS_Interval
  <2>4. \A n \in S : f[n] = PlaceIn(S, R, n)
    OBVIOUS
  <2> HIDE DEF f, T
  <2>5. f \in Injection(S, T)
    BY <2>1, <2>2, Fun_IsInj
  <2>6. f \in Surjection(S, T)
    BY <2>3, <2>5, FS_Injection
  <2>7. \A k \in T : \E n \in S : f[n] = k
    BY <2>6, Fun_SurjectionProperties
  <2> QED
    BY <2>4, <2>7 DEF T
<1> QED
  BY <1>6, <1>7, <1>8

-----------------------------------------------------------------------------
(* readdir *)

\* Names can be counted.
LEMMA NamesFinite == \A S \in SUBSET Names : IsFiniteSet(S) /\ Cardinality(S) \in Nat
BY ListDirAssumption, FS_Subset, FS_CardinalityType

\* Slots can be counted.
LEMMA SlotsFinite ==
  ASSUME NEW a \in Nat, NEW b \in Nat
  PROVE  \A S \in SUBSET (a .. b) : IsFiniteSet(S) /\ Cardinality(S) \in Nat
<1>1. IsFiniteSet(a .. b)
  BY FS_Interval
<1> QED
  BY <1>1, FS_Subset, FS_CardinalityType

\* The ranks of the names to come are their places in the order of the directory.
LEMMA LaterRanks ==
  ASSUME TypeOK
  PROVE  /\ IsFiniteSet(Later) /\ Cardinality(Later) \in Nat
         /\ \A n \in Later : n \in Names /\ n \in Nat \ {0}
         /\ \A n \in Later : Rank(n) \in 1 .. Cardinality(Later)
         /\ \A m, n \in Later : Rank(m) <= Rank(n) <=> m <= n
         /\ \A k \in 1 .. Cardinality(Later) : \E n \in Later : Rank(n) = k
<1> DEFINE S == Later
           R == {p \in S \X S : p[1] <= p[2]}
<1>1. S \in SUBSET Names
  BY DEF TypeOK, Later
<1>2. IsFiniteSet(S) /\ Cardinality(S) \in Nat /\ \A n \in S : n \in Nat \ {0} /\ n \in Names
  BY <1>1, NamesFinite, ListDirAssumption
<1>3. \A m, n \in S : <<m, n>> \in R <=> m <= n
  OBVIOUS
<1>4. \A n \in S : Rank(n) = PlaceIn(S, R, n)
  <2> TAKE n \in S
  <2>1. {m \in Later : m <= n} = {m \in S : <<m, n>> \in R}
    BY <1>3
  <2> QED
    BY <2>1 DEF Rank, PlaceIn
<1> HIDE DEF S, R
<1>5. /\ \A x, y \in S : <<x, y>> \in R \/ <<y, x>> \in R
      /\ \A x, y \in S : <<x, y>> \in R /\ <<y, x>> \in R => x = y
      /\ \A x, y, z \in S : <<x, y>> \in R /\ <<y, z>> \in R => <<x, z>> \in R
  BY <1>2, <1>3
<1>6. /\ \A n \in S : PlaceIn(S, R, n) \in 1 .. Cardinality(S)
      /\ \A m, n \in S : PlaceIn(S, R, m) <= PlaceIn(S, R, n) <=> <<m, n>> \in R
      /\ \A k \in 1 .. Cardinality(S) : \E n \in S : PlaceIn(S, R, n) = k
  BY <1>2, <1>5, Places
<1>7. \A n \in S : Rank(n) \in 1 .. Cardinality(S)
  BY <1>4, <1>6
<1>8. \A m, n \in S : Rank(m) <= Rank(n) <=> m <= n
  <2> TAKE m \in S, n \in S
  <2>1. Rank(m) = PlaceIn(S, R, m) /\ Rank(n) = PlaceIn(S, R, n)
    BY <1>4
  <2>2. PlaceIn(S, R, m) <= PlaceIn(S, R, n) <=> <<m, n>> \in R
    BY <1>6
  <2> QED
    BY <1>3, <2>1, <2>2
<1>9. \A k \in 1 .. Cardinality(S) : \E n \in S : Rank(n) = k
  BY <1>4, <1>6
<1> QED
  BY <1>2, <1>7, <1>8, <1>9 DEF S

\* A getdents fills the slots with the names that come next, in order, and what
\* is later then are the names after those.
LEMMA GetdentsFacts ==
  ASSUME TypeOK, ReadDir, ~(at < filled)
  PROVE  /\ filled' \in 1 .. BatchSize /\ filled' <= Cardinality(Later) /\ at' = 1
         /\ Cardinality(Later) <= BatchSize => filled' = Cardinality(Later)
         /\ \A s \in 1 .. filled' : buffer'[s] \in Later /\ Rank(buffer'[s]) = s
         /\ \A s \in Slot : s > filled' => buffer'[s] = buffer[s]
         /\ buffer' \in [Slot -> Names \cup {NoName}]
         /\ pos' = buffer'[filled']
<1>1. /\ Later # {} /\ pos' = buffer'[filled'] /\ at' = 1
      /\ buffer' = [s \in Slot |->
                      IF InBatch(s) THEN CHOOSE n \in Later : Rank(n) = s ELSE buffer[s]]
      /\ filled' = Cardinality({s \in Slot : InBatch(s)})
  BY DEF ReadDir
<1>2. BatchSize \in Nat \ {0} /\ buffer \in [Slot -> Names \cup {NoName}]
  BY ListDirAssumption DEF TypeOK
<1>3. /\ IsFiniteSet(Later) /\ Cardinality(Later) \in Nat /\ Later \subseteq Names
      /\ \A n \in Later : Rank(n) \in 1 .. Cardinality(Later)
      /\ \A k \in 1 .. Cardinality(Later) : \E n \in Later : Rank(n) = k
  BY LaterRanks
<1>4. Cardinality(Later) # 0
  BY <1>1, <1>3, FS_EmptySet
<1> DEFINE f == IF Cardinality(Later) <= BatchSize THEN Cardinality(Later) ELSE BatchSize
<1>5. f \in 1 .. BatchSize /\ f <= Cardinality(Later) /\ f \in Nat
  BY <1>2, <1>3, <1>4
<1>6. \A s \in Slot : InBatch(s) <=> s \in 1 .. f
  <2> TAKE s \in Slot
  <2>1. InBatch(s) <=> s \in 1 .. Cardinality(Later)
    BY <1>3 DEF InBatch
  <2> QED
    BY <1>2, <1>3, <2>1 DEF Slot
<1>7. {s \in Slot : InBatch(s)} = 1 .. f
  <2>1. \A s \in 1 .. f : s \in Slot
    BY <1>2, <1>5 DEF Slot
  <2> HIDE DEF f
  <2> QED
    BY <1>6, <2>1
<1>8. filled' = f
  <2> HIDE DEF f
  <2>1. Cardinality(1 .. f) = f
    BY <1>5, FS_Interval
  <2> QED
    BY <1>1, <1>7, <2>1
<1>9. \A s \in 1 .. f : buffer'[s] \in Later /\ Rank(buffer'[s]) = s
  <2> TAKE s \in 1 .. f
  <2>1. s \in Slot /\ InBatch(s)
    BY <1>7
  <2>2. \E n \in Later : Rank(n) = s
    BY <2>1 DEF InBatch
  <2>3. buffer'[s] = CHOOSE n \in Later : Rank(n) = s
    BY <1>1, <2>1
  <2> QED
    BY <2>2, <2>3
<1> HIDE DEF f
<1>10. \A s \in Slot : s > f => buffer'[s] = buffer[s]
  <2> SUFFICES ASSUME NEW s \in Slot, s > f PROVE buffer'[s] = buffer[s]
    OBVIOUS
  <2>1. s \notin 1 .. f
    BY <1>2, <1>5 DEF Slot
  <2>2. ~InBatch(s)
    BY <1>6, <2>1
  <2> QED
    BY <1>1, <2>2
<1>11. buffer' \in [Slot -> Names \cup {NoName}]
  <2>1. \A s \in Slot : buffer'[s] \in Names \cup {NoName}
    <3> TAKE s \in Slot
    <3>1. CASE s \in 1 .. f
      BY <1>3, <1>9, <3>1
    <3>2. CASE s \notin 1 .. f
      BY <1>1, <1>2, <1>6, <3>2
    <3> QED
      BY <3>1, <3>2
  <2> QED
    BY <1>1, <2>1
<1> QED
  BY <1>1, <1>5, <1>8, <1>9, <1>10, <1>11 DEF f

\* What is still later after a readdir.
LEMMA LaterAfter ==
  ASSUME TypeOK, ReadDir, present' = present
  PROVE  Later' = IF at < filled THEN Later ELSE {n \in Later : Rank(n) > filled'}
<1>1. CASE at < filled
  <2>1. pos' = pos
    <3>1. at # filled
      BY <1>1 DEF TypeOK
    <3> QED
      BY <3>1 DEF ReadDir
  <2> QED
    BY <1>1, <2>1 DEF Later
<1>2. CASE ~(at < filled)
  <2>1. /\ filled' \in 1 .. BatchSize /\ BatchSize \in Nat
        /\ pos' \in Later /\ Rank(pos') = filled'
    <3>1. filled' \in 1 .. filled'
      BY <1>2, GetdentsFacts, ListDirAssumption
    <3> QED
      BY <1>2, <3>1, GetdentsFacts, ListDirAssumption
  <2>2. \A n \in Later : Rank(n) \in Nat /\ n \in Nat
    BY LaterRanks
  <2>3. \A n \in Later : Rank(n) <= filled' <=> n <= pos'
    BY <2>1, LaterRanks
  <2>4. pos \in Nat /\ present \subseteq Nat
    BY ListDirAssumption DEF TypeOK
  <2>5. Later' = {n \in Later : n > pos'}
    <3>1. Later' = {n \in present : n > pos'}
      BY DEF Later
    <3>2. pos' > pos /\ pos' \in Nat
      BY <2>1, <2>2 DEF Later
    <3>3. \A n \in present : n > pos' => n > pos
      BY <2>4, <3>2
    <3> QED
      BY <3>1, <3>3 DEF Later
  <2>6. \A n \in Later : n > pos' <=> Rank(n) > filled'
    <3> TAKE n \in Later
    <3>1. Rank(n) <= filled' <=> n <= pos'
      BY <2>3
    <3>2. Rank(n) \in Nat /\ n \in Nat /\ pos' \in Nat /\ filled' \in Nat
      BY <2>1, <2>2
    <3> QED
      BY <3>1, <3>2
  <2> QED
    BY <1>2, <2>5, <2>6
<1> QED
  BY <1>1, <1>2

\* What readdir returns is a name, and the slots filled hold names.
LEMMA ReadDirFacts ==
  ASSUME TypeOK, StreamPart, Changed, ReadDir
  PROVE  /\ filled' \in 0 .. BatchSize /\ at' \in 1 .. filled' /\ at' \in Slot
         /\ buffer' \in [Slot -> Names \cup {NoName}]
         /\ pos' \in Names \cup {0} /\ filled' # 0
         /\ \A s \in 1 .. filled' : buffer'[s] \in Names
         /\ \A s \in Slot : buffer'[s] \in atOpen \cup created \cup {NoName}
         /\ \A s \in Slot : buffer[s] \in Names => buffer'[s] \in Names
<1>1. BatchSize \in Nat \ {0} /\ filled \in 0 .. BatchSize /\ at \in 0 .. filled
      /\ buffer \in [Slot -> Names \cup {NoName}] /\ pos \in Names \cup {0}
  BY ListDirAssumption DEF TypeOK
<1>2. CASE at < filled
  <2>1. at' = at + 1 /\ UNCHANGED <<pos, buffer, filled>>
    BY <1>1, <1>2 DEF ReadDir
  <2> QED
    BY <1>1, <1>2, <2>1 DEF StreamPart, Slot
<1>3. CASE ~(at < filled)
  <2>1. /\ filled' \in 1 .. BatchSize /\ at' = 1
        /\ \A s \in 1 .. filled' : buffer'[s] \in Later
        /\ \A s \in Slot : s > filled' => buffer'[s] = buffer[s]
        /\ buffer' \in [Slot -> Names \cup {NoName}]
        /\ pos' = buffer'[filled']
    BY <1>3, GetdentsFacts
  <2>2. Later \subseteq Names /\ Later \subseteq atOpen \cup created
    BY DEF Later, Changed, TypeOK
  <2>3. filled' \in 1 .. filled' /\ 1 \in 1 .. filled' /\ 1 \in Slot
    BY <1>1, <2>1 DEF Slot
  <2>4. \A s \in Slot : s \in 1 .. filled' \/ s > filled'
    BY <1>1, <2>1 DEF Slot
  <2>5. \A s \in Slot : buffer'[s] \in atOpen \cup created \cup {NoName}
    BY <2>1, <2>2, <2>4 DEF StreamPart
  <2>6. \A s \in Slot : buffer[s] \in Names => buffer'[s] \in Names
    BY <2>1, <2>2, <2>4
  <2>7. \A s \in 1 .. filled' : buffer'[s] \in Names
    BY <2>1, <2>2
  <2>8. pos' \in Names
    BY <2>1, <2>2, <2>3
  <2> QED
    BY <1>1, <2>1, <2>3, <2>5, <2>6, <2>7, <2>8
<1> QED
  BY <1>2, <1>3

\* What is still to come can be counted.
LEMMA ComingTypes ==
  ASSUME TypeOK
  PROVE  /\ IsFiniteSet(Unread) /\ Cardinality(Unread) \in Nat
         /\ IsFiniteSet(ToCome) /\ Cardinality(ToCome) \in Nat
         /\ IsFiniteSet(Wanted) /\ Cardinality(Wanted) \in Nat
         /\ Coming \in Nat
<1>1. Unread \in SUBSET (at + 1 .. filled) /\ at + 1 \in Nat /\ filled \in Nat
  BY ListDirAssumption DEF TypeOK, Unread
<1>2. ToCome \in SUBSET Names /\ Wanted \in SUBSET Names
  BY DEF TypeOK, ToCome, Wanted, Later
<1>3. IsFiniteSet(Unread) /\ Cardinality(Unread) \in Nat
  BY <1>1, SlotsFinite
<1>4. /\ IsFiniteSet(ToCome) /\ Cardinality(ToCome) \in Nat
      /\ IsFiniteSet(Wanted) /\ Cardinality(Wanted) \in Nat
  BY <1>2, NamesFinite
<1> QED
  BY <1>3, <1>4 DEF Coming

\* Of some slots, the first counts for one if it is among those looked for.
LEMMA FirstSlot ==
  ASSUME NEW a \in Nat, NEW f \in Nat, a <= f, NEW L
  PROVE  /\ IsFiniteSet({s \in a + 1 .. f : s \in L})
         /\ Cardinality({s \in a + 1 .. f : s \in L}) \in Nat
         /\ Cardinality({s \in a .. f : s \in L})
              = Cardinality({s \in a + 1 .. f : s \in L}) + IF a \in L THEN 1 ELSE 0
<1> DEFINE rest == {s \in a + 1 .. f : s \in L}
<1>1. rest \in SUBSET (a + 1 .. f) /\ a + 1 \in Nat
  OBVIOUS
<1>2. a \notin rest
  OBVIOUS
<1>3. {s \in a .. f : s \in L} = IF a \in L THEN rest \cup {a} ELSE rest
  OBVIOUS
<1> HIDE DEF rest
<1>4. IsFiniteSet(rest) /\ Cardinality(rest) \in Nat
  BY <1>1, SlotsFinite
<1>5. Cardinality({s \in a .. f : s \in L}) = Cardinality(rest) + IF a \in L THEN 1 ELSE 0
  <2>1. CASE a \in L
    <3>1. Cardinality(rest \cup {a}) = Cardinality(rest) + 1
      BY <1>2, <1>4, FS_AddElement
    <3> QED
      BY <1>3, <2>1, <3>1
  <2>2. CASE a \notin L
    BY <1>3, <1>4, <2>2
  <2> QED
    BY <2>1, <2>2
<1> QED
  BY <1>4, <1>5 DEF rest

\* One readdir takes what it returns from what is to come.
LEMMA ComingStep ==
  ASSUME TypeOK, StreamPart, Changed, ReadDir, present' = present, modifiers' = modifiers
  PROVE  /\ Coming' \in Nat
         /\ Coming = Coming' + IF Listed(buffer'[at']) THEN 1 ELSE 0
<1>1. BatchSize \in Nat \ {0} /\ filled \in 0 .. BatchSize /\ at \in 0 .. filled
  BY ListDirAssumption DEF TypeOK
<1>2. \A n : Listed(n)' <=> Listed(n)
  BY DEF Listed
<1>3. /\ filled' \in 0 .. BatchSize /\ at' \in 1 .. filled' /\ filled' # 0
  BY ReadDirFacts
<1> DEFINE rest == {s \in at' + 1 .. filled' : Listed(buffer'[s])}
           read == {s \in at' .. filled' : Listed(buffer'[s])}
<1>4. Unread' = rest
  BY <1>2 DEF Unread
<1>5. /\ IsFiniteSet(rest) /\ Cardinality(rest) \in Nat
      /\ Cardinality(read) = Cardinality(rest) + IF Listed(buffer'[at']) THEN 1 ELSE 0
  <2> DEFINE L == {s \in 1 .. filled' : Listed(buffer'[s])}
  <2>1. at' \in Nat /\ filled' \in Nat /\ at' <= filled'
    BY <1>1, <1>3
  <2>2. rest = {s \in at' + 1 .. filled' : s \in L}
    BY <1>1, <1>3
  <2>3. read = {s \in at' .. filled' : s \in L}
    BY <1>1, <1>3
  <2>4. at' \in L <=> Listed(buffer'[at'])
    BY <1>3
  <2> HIDE DEF L, rest, read
  <2> QED
    BY <2>1, <2>2, <2>3, <2>4, FirstSlot, SMTT(30)
<1>6. ToCome' = {n \in Later' : Listed(n)}
  BY <1>2 DEF ToCome
<1>7. CASE at < filled
  <2>1. Later' = Later
    BY <1>7, LaterAfter
  <2>2. at' = at + 1 /\ UNCHANGED <<buffer, filled>>
    BY <1>1, <1>7 DEF ReadDir
  <2>3. Unread = read
    BY <2>2 DEF Unread
  <2>4. ToCome' = ToCome
    BY <1>6, <2>1 DEF ToCome
  <2> HIDE DEF rest, read
  <2>5. Coming' = Cardinality(rest) + Cardinality(ToCome)
    BY <1>4, <2>4 DEF Coming
  <2> QED
    BY <1>5, <2>3, <2>5, ComingTypes DEF Coming
<1>8. CASE ~(at < filled)
  <2>1. /\ filled' \in 1 .. BatchSize /\ filled' <= Cardinality(Later) /\ at' = 1
        /\ \A s \in 1 .. filled' : buffer'[s] \in Later /\ Rank(buffer'[s]) = s
    BY <1>8, GetdentsFacts
  <2>2. Later' = {n \in Later : Rank(n) > filled'}
    BY <1>8, LaterAfter
  <2> DEFINE next == {n \in ToCome : Rank(n) <= filled'}
  <2>3. ToCome' = ToCome \ next
    <3>1. \A n \in Later : Rank(n) \in Nat
      BY LaterRanks
    <3>2. \A n \in Later : Rank(n) > filled' <=> ~(Rank(n) <= filled')
      BY <2>1, <3>1
    <3> QED
      BY <1>6, <2>2, <3>2 DEF ToCome
  <2>4. Cardinality(next) = Cardinality(read)
    <3> DEFINE f == [s \in read |-> buffer'[s]]
    <3>1. f \in [read -> next]
      BY <2>1, <1>1 DEF ToCome
    <3>2. \A s, t \in read : f[s] = f[t] => s = t
      BY <2>1
    <3>3. \A n \in next : \E s \in read : f[s] = n
      <4> TAKE n \in next
      <4>1. n \in Later /\ Listed(n) /\ Rank(n) \in 1 .. filled'
        BY <1>1, <2>1, LaterRanks DEF ToCome
      <4>2. buffer'[Rank(n)] \in Later /\ Rank(buffer'[Rank(n)]) = Rank(n)
        BY <2>1, <4>1
      <4>3. buffer'[Rank(n)] = n
        <5>1. Rank(n) <= Rank(n)
          BY <4>1
        <5>2. n <= buffer'[Rank(n)] /\ buffer'[Rank(n)] <= n
          BY <4>1, <4>2, <5>1, LaterRanks
        <5> QED
          BY <4>1, <4>2, <5>2, LaterRanks
      <4>4. Rank(n) \in read
        BY <2>1, <4>1, <4>3
      <4> QED
        BY <4>3, <4>4
    <3>4. IsFiniteSet(read)
      <4>1. read \in SUBSET (1 .. filled') /\ filled' \in Nat
        BY <1>1, <2>1
      <4> HIDE DEF read
      <4> QED
        BY <4>1, SlotsFinite
    <3> HIDE DEF f, read, next
    <3>5. f \in Bijection(read, next)
      BY <3>1, <3>2, <3>3, Fun_IsBij
    <3>6. ExistsBijection(read, next)
      BY <3>5, Fun_ExistsBij
    <3> QED
      BY <3>4, <3>6, FS_Bijection
  <2>5. next \in SUBSET ToCome
    OBVIOUS
  <2>6. Unread = {}
    BY <1>1, <1>8 DEF Unread
  <2> HIDE DEF next, rest, read
  <2>7. /\ Cardinality(ToCome \ next) = Cardinality(ToCome) - Cardinality(next)
        /\ Cardinality(next) <= Cardinality(ToCome) /\ Cardinality(next) \in Nat
    <3>1. ToCome \cap next = next
      BY <2>5
    <3>2. Cardinality(ToCome \ next) = Cardinality(ToCome) - Cardinality(ToCome \cap next)
      BY ComingTypes, FS_Difference
    <3>3. IsFiniteSet(next) /\ Cardinality(next) <= Cardinality(ToCome)
      BY <2>5, ComingTypes, FS_Subset
    <3>4. Cardinality(next) \in Nat
      BY <3>3, FS_CardinalityType
    <3> QED
      BY <3>1, <3>2, <3>3, <3>4
  <2>8. Coming = Cardinality(ToCome)
    BY <2>6, ComingTypes, FS_EmptySet DEF Coming
  <2>9. Coming' = Cardinality(rest) + Cardinality(ToCome \ next)
    BY <1>4, <2>3 DEF Coming
  <2> QED
    BY <1>5, <2>4, <2>7, <2>8, <2>9, ComingTypes
<1> QED
  BY <1>7, <1>8

-----------------------------------------------------------------------------
(* Sorting *)

\* f puts the elements of the array in another order.
Permutes(f) ==
  /\ f \in [1 .. total -> 1 .. total]
  /\ \A p, q \in 1 .. total : f[p] = f[q] => p = q
  /\ \A k \in 1 .. total : \E p \in 1 .. total : f[p] = k
  /\ entries' = [p \in 1 .. total |-> entries[f[p]]]

\* Sorting puts the elements in the order of their sizes and, of one size, leaves
\* them in the order they had.
LEMMA SortFacts ==
  ASSUME TypeOK, Sort
  PROVE  \E key, f :
           /\ key \in [1 .. total -> Nat] /\ Permutes(f)
           /\ \A k \in 1 .. total : NameOf(k) \in present => key[k] = Size[NameOf(k)]
           /\ \A p, q \in 1 .. total : p < q =>
                \/ key[f[p]] > key[f[q]]
                \/ key[f[p]] = key[f[q]] /\ f[p] < f[q]
<1>1. PICK key \in [1 .. total -> {Size[n] : n \in Names}] :
        /\ \A k \in 1 .. total : NameOf(k) \in present => key[k] = Size[NameOf(k)]
        /\ entries' = [p \in 1 .. total |->
             entries[CHOOSE k \in 1 .. total :
               Cardinality({m \in 1 .. total : key[m] > key[k] \/ (key[m] = key[k] /\ m <= k)}) = p]]
  BY DEF Sort
<1>2. total \in Nat
  BY DEF TypeOK
<1>3. key \in [1 .. total -> Nat]
  <2>1. \A n \in Names : Size[n] \in Nat
    BY ListDirAssumption
  <2>2. \A k \in 1 .. total : key[k] \in Nat
    BY <1>1, <2>1
  <2> QED
    BY <1>1, <2>2
<1> DEFINE S == 1 .. total
           Before(m, k) == key[m] > key[k] \/ (key[m] = key[k] /\ m <= k)
           R == {p \in S \X S : Before(p[1], p[2])}
           place(k) == Cardinality({m \in S : Before(m, k)})
           f == [p \in S |-> CHOOSE k \in S : place(k) = p]
<1>4. IsFiniteSet(S) /\ Cardinality(S) = total
  BY <1>2, FS_Interval
<1>5. /\ \A x, y \in S : Before(x, y) \/ Before(y, x)
      /\ \A x, y \in S : Before(x, y) /\ Before(y, x) => x = y
      /\ \A x, y, z \in S : Before(x, y) /\ Before(y, z) => Before(x, z)
  BY <1>3
<1>6. \A x, y \in S : <<x, y>> \in R <=> Before(x, y)
  OBVIOUS
<1>7. \A k \in S : place(k) = PlaceIn(S, R, k)
  <2> TAKE k \in S
  <2>1. {m \in S : Before(m, k)} = {m \in S : <<m, k>> \in R}
    BY <1>6
  <2> QED
    BY <2>1 DEF PlaceIn
<1>8. \A m, k \in S : Before(m, k) => key[m] > key[k] \/ (key[m] = key[k] /\ m <= k)
  OBVIOUS
<1>9. entries' = [p \in S |-> entries[f[p]]]
  BY <1>1
<1>10. \A p \in S : f[p] = CHOOSE k \in S : place(k) = p
  OBVIOUS
<1>11. \A T : (\A p \in S : (CHOOSE k \in S : place(k) = p) \in T) => f \in [S -> T]
  OBVIOUS
<1> HIDE DEF S, Before, R, place, f
<1>12. /\ \A n \in S : PlaceIn(S, R, n) \in 1 .. Cardinality(S)
       /\ \A m, n \in S : PlaceIn(S, R, m) <= PlaceIn(S, R, n) <=> <<m, n>> \in R
       /\ \A k \in 1 .. Cardinality(S) : \E n \in S : PlaceIn(S, R, n) = k
  BY <1>4, <1>5, <1>6, Places
<1>13. S = 1 .. total
  BY DEF S
<1>14. \A p \in S : f[p] \in S /\ place(f[p]) = p
  <2> TAKE p \in S
  <2>1. \E k \in S : place(k) = p
    BY <1>4, <1>7, <1>12, <1>13
  <2> QED
    BY <1>10, <2>1
<1>15. f \in [S -> S]
  BY <1>10, <1>11, <1>14
<1>16. \A p, q \in S : f[p] = f[q] => p = q
  BY <1>14
<1>17. \A k \in S : \E p \in S : f[p] = k
  <2> TAKE k \in S
  <2>1. place(k) \in S
    BY <1>4, <1>7, <1>12, <1>13
  <2>2. f[place(k)] \in S /\ place(f[place(k)]) = place(k)
    BY <1>14, <2>1
  <2>3. PlaceIn(S, R, f[place(k)]) = PlaceIn(S, R, k) /\ PlaceIn(S, R, k) \in Nat
    BY <1>4, <1>7, <1>12, <2>2, <1>2
  <2>4. /\ PlaceIn(S, R, f[place(k)]) <= PlaceIn(S, R, k)
        /\ PlaceIn(S, R, k) <= PlaceIn(S, R, f[place(k)])
    BY <2>3
  <2>5. f[place(k)] = k
    BY <1>5, <1>6, <1>12, <2>2, <2>4
  <2> QED
    BY <2>1, <2>5
<1>18. Permutes(f)
  BY <1>9, <1>13, <1>15, <1>16, <1>17 DEF Permutes
<1>19. ASSUME NEW p \in S, NEW q \in S, p < q
       PROVE  key[f[p]] > key[f[q]] \/ (key[f[p]] = key[f[q]] /\ f[p] < f[q])
  <2>1. f[p] \in S /\ f[q] \in S /\ place(f[p]) = p /\ place(f[q]) = q /\ f[p] # f[q]
    BY <1>2, <1>13, <1>14, <1>16, <1>19
  <2>2. p \in Nat /\ q \in Nat /\ p <= q
    BY <1>2, <1>13, <1>19
  <2>3. PlaceIn(S, R, f[p]) <= PlaceIn(S, R, f[q])
    BY <1>7, <2>1, <2>2
  <2>4. Before(f[p], f[q])
    BY <1>6, <1>12, <2>1, <2>3
  <2>5. key[f[p]] > key[f[q]] \/ (key[f[p]] = key[f[q]] /\ f[p] <= f[q])
    BY <1>8, <2>1, <2>4
  <2> QED
    BY <1>13, <2>1, <2>5
<1> QED
  BY <1>1, <1>3, <1>13, <1>18, <1>19

\* So does whatever the program makes of a pointer that was never stored.
LEMMA StrayFacts ==
  ASSUME TypeOK, SortStrayPointer, pc' # "crashed"
  PROVE  \E f : Permutes(f)
<1>1. PICK f \in [1 .. total -> 1 .. total] :
        /\ \A k, m \in 1 .. total : f[k] = f[m] => k = m
        /\ entries' = [k \in 1 .. total |-> entries[f[k]]]
  BY DEF SortStrayPointer
<1> DEFINE S == 1 .. total
<1>2. IsFiniteSet(S)
  <2>1. total \in Nat
    BY DEF TypeOK
  <2> QED
    BY <2>1, FS_Interval
<1>3. f \in [S -> S] /\ \A k, m \in S : f[k] = f[m] => k = m
  BY <1>1
<1> HIDE DEF S
<1>4. f \in Injection(S, S)
  BY <1>3, Fun_IsInj
<1>5. f \in Surjection(S, S)
  BY <1>2, <1>4, FS_Injection
<1>6. \A k \in S : \E p \in S : f[p] = k
  BY <1>5, Fun_SurjectionProperties
<1> QED
  BY <1>1, <1>6 DEF Permutes, S

\* An array in another order is of the same length and holds the same pointers.
LEMMA PermutedArray ==
  ASSUME TypeOK, pc = "sort", NEW f, Permutes(f)
  PROVE  /\ entries' \in Seq(Slot \cup {Unset}) /\ Len(entries') = total
         /\ \A p \in 1 .. total : f[p] \in 1 .. total /\ entries'[p] = entries[f[p]]
         /\ {entries'[k] : k \in 1 .. total} = {entries[k] : k \in 1 .. total}
<1>1. entries \in Seq(Slot \cup {Unset}) /\ Len(entries) = total /\ total \in Nat
  BY DEF TypeOK
<1>2. \A p \in 1 .. total : f[p] \in 1 .. total /\ entries'[p] = entries[f[p]]
  BY DEF Permutes
<1>3. \A k \in 1 .. total : entries[k] \in Slot \cup {Unset}
  BY <1>1
<1>4. entries' = [p \in 1 .. total |-> entries[f[p]]]
  BY DEF Permutes
<1>5. \A p \in 1 .. total : entries[f[p]] \in Slot \cup {Unset}
  BY <1>2, <1>3
<1>6. entries' \in Seq(Slot \cup {Unset}) /\ Len(entries') = total
  BY <1>1, <1>4, <1>5
<1>7. \A k \in 1 .. total : \E p \in 1 .. total : f[p] = k
  BY DEF Permutes
<1>8. {entries'[k] : k \in 1 .. total} = {entries[k] : k \in 1 .. total}
  BY <1>2, <1>7
<1> QED
  BY <1>2, <1>6, <1>8

-----------------------------------------------------------------------------
(* Types *)

\* Every step keeps the types.
LEMMA TypeStep == IInv /\ [Next]_vars => TypeOK'
<1> SUFFICES ASSUME IInv, [Next]_vars PROVE TypeOK'
  OBVIOUS
<1>1. TypeOK /\ StreamPart /\ Changed /\ Stored /\ Printed /\ BatchSize \in Nat \ {0}
  BY ListDirAssumption DEF IInv
<1>2. /\ total \in Nat /\ index \in Nat /\ i \in 0 .. total /\ entries \in Seq(Slot \cup {Unset})
      /\ buffer \in [Slot -> Names \cup {NoName}]
      /\ out \in Seq([name : Names \cup {NoName}, details : Names \cup {NoName}])
  BY <1>1 DEF TypeOK
<1>3. CASE Count
  <2>1. /\ filled' \in 0 .. BatchSize /\ at' \in 1 .. filled'
        /\ buffer' \in [Slot -> Names \cup {NoName}] /\ pos' \in Names \cup {0}
    BY <1>1, <1>3, ReadDirFacts DEF Count
  <2>2. at' \in 0 .. filled'
    BY <2>1
  <2>3. total' \in Nat /\ i' = 0 /\ i' \in 0 .. total'
    <3>1. total' = total \/ total' = total + 1
      BY <1>3 DEF Count
    <3>2. i' = 0
      BY <1>1, <1>3 DEF Count, Stored
    <3>3. \A n \in Nat : 0 \in 0 .. n
      OBVIOUS
    <3> QED
      BY <1>2, <3>1, <3>2, <3>3
  <2> QED
    BY <1>1, <1>3, <2>1, <2>2, <2>3 DEF Count, TypeOK, history
<1>4. CASE CountEnd
  <2>1. entries' \in Seq(Slot \cup {Unset}) /\ Len(entries') = total
    BY <1>2, <1>4 DEF CountEnd
  <2>2. filled' \in 0 .. BatchSize /\ at' \in 0 .. filled' /\ pos' \in Names \cup {0}
    <3>1. filled' = 0 /\ at' = 0 /\ pos' = 0
      BY <1>4 DEF CountEnd, Rewind
    <3> QED
      BY <1>1, <3>1
  <2> QED
    BY <1>1, <1>4, <2>1, <2>2 DEF CountEnd, TypeOK, history
<1>5. CASE Fill
  <2>1. /\ filled' \in 0 .. BatchSize /\ at' \in 1 .. filled' /\ at' \in Slot
        /\ buffer' \in [Slot -> Names \cup {NoName}] /\ pos' \in Names \cup {0}
    BY <1>1, <1>5, ReadDirFacts DEF Fill
  <2>2. at' \in 0 .. filled'
    BY <2>1
  <2>3. entries' = entries \/ entries' = [entries EXCEPT ![index + 1] = at']
    BY <1>5 DEF Fill, Pointer
  <2>4. entries' \in Seq(Slot \cup {Unset}) /\ Len(entries') = Len(entries)
    BY <1>2, <2>1, <2>3, SMTT(30)
  <2>5. index' \in Nat
    BY <1>2, <1>5 DEF Fill
  <2> QED
    BY <1>1, <1>5, <2>1, <2>2, <2>4, <2>5 DEF Fill, TypeOK, history
<1>6. CASE FillEnd
  BY <1>1, <1>6 DEF FillEnd, TypeOK, stream, history
<1>7. CASE Sort
  <2>1. pc = "sort" /\ \E f : Permutes(f)
    BY <1>1, <1>7, SortFacts DEF Sort
  <2>2. entries' \in Seq(Slot \cup {Unset}) /\ Len(entries') = total
    BY <1>1, <2>1, PermutedArray
  <2> QED
    BY <1>1, <1>7, <2>2 DEF Sort, TypeOK, stream, history
<1>8. CASE PrintEntry
  <2>1. i < total /\ i' = i + 1 /\ pc = "print" /\ entries[i + 1] # Unset
    BY <1>8 DEF PrintEntry, Prints
  <2>2. i' \in 0 .. total
    BY <1>2, <2>1
  <2>3. NameOf(i + 1) \in Names \cup {NoName}
    <3>1. Len(entries) = total /\ i + 1 \in 1 .. Len(entries)
      BY <1>1, <1>2, <2>1 DEF TypeOK
    <3>2. entries[i + 1] \in Slot
      BY <1>2, <2>1, <3>1
    <3> QED
      BY <1>2, <3>2 DEF NameOf
  <2>4. \E d \in Names \cup {NoName} : out' = Append(out, [name |-> NameOf(i + 1), details |-> d])
    BY <1>8, <2>3 DEF PrintEntry, Prints, Details
  <2>5. out' \in Seq([name : Names \cup {NoName}, details : Names \cup {NoName}])
    BY <1>2, <2>3, <2>4
  <2> QED
    BY <1>1, <1>8, <2>2, <2>5 DEF PrintEntry, TypeOK, stream, history
<1>9. CASE PrintEnd
  BY <1>1, <1>9 DEF PrintEnd, TypeOK, stream, history
<1>10. CASE NoOwner
  BY <1>1, <1>10 DEF NoOwner, TypeOK, stream, history
<1>11. CASE SortStrayPointer
  <2>1. CASE entries' = entries
    BY <1>1, <1>11, <2>1 DEF SortStrayPointer, TypeOK, stream, history
  <2>2. CASE pc' # "crashed"
    <3>1. pc = "sort" /\ \E f : Permutes(f)
      BY <1>1, <1>11, <2>2, StrayFacts DEF SortStrayPointer
    <3>2. entries' \in Seq(Slot \cup {Unset}) /\ Len(entries') = total
      BY <1>1, <3>1, PermutedArray
    <3> QED
      BY <1>1, <1>11, <3>2 DEF SortStrayPointer, TypeOK, stream, history
  <2> QED
    BY <1>11, <2>1, <2>2 DEF SortStrayPointer
<1>12. CASE PrintStrayPointer
  <2>1. i' \in 0 .. total
    BY <1>2, <1>12 DEF PrintStrayPointer, Prints
  <2>2. PICK n \in Names \cup {NoName}, d \in Names \cup {NoName} :
          out' = out \/ out' = Append(out, [name |-> n, details |-> d])
    <3>1. CASE UNCHANGED out
      BY <3>1
    <3>2. ASSUME NEW n \in Names \cup {NoName}, Prints(n)
          PROVE  \E d \in Names \cup {NoName} : out' = Append(out, [name |-> n, details |-> d])
      BY <3>2 DEF Prints, Details
    <3> QED
      BY <1>12, <3>1, <3>2 DEF PrintStrayPointer
  <2>3. out' \in Seq([name : Names \cup {NoName}, details : Names \cup {NoName}])
    <3> DEFINE Line == [name : Names \cup {NoName}, details : Names \cup {NoName}]
               e == [name |-> n, details |-> d]
    <3>1. e \in Line
      OBVIOUS
    <3>2. out \in Seq(Line) /\ e \in Line /\ (out' = out \/ out' = Append(out, e))
      BY <1>2, <2>2, <3>1
    <3> HIDE DEF Line, e
    <3>3. out' \in Seq(Line)
      BY <3>2
    <3> QED
      BY <3>3 DEF Line
  <2> QED
    BY <1>1, <1>12, <2>1, <2>3 DEF PrintStrayPointer, TypeOK, stream, history
<1>13. CASE HeapDamage
  BY <1>1, <1>13 DEF HeapDamage, TypeOK, stream, history
<1>14. CASE Create
  BY <1>1, <1>14 DEF Create, TypeOK, stream
<1>15. CASE Remove
  BY <1>1, <1>15 DEF Remove, TypeOK, stream
<1>16. CASE UNCHANGED vars
  BY <1>1, <1>16 DEF vars, TypeOK, stream, history
<1> QED
  BY <1>3, <1>4, <1>5, <1>6, <1>7, <1>8, <1>9, <1>10, <1>11, <1>12, <1>13, <1>14, <1>15,
     <1>16 DEF Next, Ls, Finished

-----------------------------------------------------------------------------
(* The directory and the stream *)

\* What other programs do is in the histories.
LEMMA ChangedStep == Changed /\ [Next]_vars => Changed'
BY DEF Changed, Next, Ls, Count, CountEnd, Fill, FillEnd, Sort, PrintEntry, PrintEnd, NoOwner,
       SortStrayPointer, PrintStrayPointer, HeapDamage, Create, Remove, Finished, history, vars

\* The slots hold names that were once in the directory.
LEMMA StreamStep == TypeOK /\ StreamPart /\ Changed /\ [Next]_vars => StreamPart'
<1> SUFFICES ASSUME TypeOK, StreamPart, Changed, [Next]_vars PROVE StreamPart'
  OBVIOUS
<1>1. CASE Count \/ Fill
  <2>1. ReadDir /\ UNCHANGED <<atOpen, created>>
    BY <1>1 DEF Count, Fill, history
  <2> QED
    BY <2>1, ReadDirFacts DEF StreamPart
<1>2. CASE CountEnd
  BY <1>2 DEF CountEnd, Rewind, history, StreamPart
<1>3. CASE Create
  BY <1>3 DEF Create, stream, StreamPart
<1>4. CASE Remove
  BY <1>4 DEF Remove, stream, StreamPart
<1>5. CASE UNCHANGED <<stream, history>>
  BY <1>5 DEF stream, history, StreamPart
<1> QED
  BY <1>1, <1>2, <1>3, <1>4, <1>5
  DEF Next, Ls, FillEnd, Sort, PrintEntry, PrintEnd, NoOwner, SortStrayPointer,
      PrintStrayPointer, HeapDamage, Finished, vars

-----------------------------------------------------------------------------
(* The two readings *)

\* A file created is one more to come at most, and wanted if it is.
LEMMA CreateCounts ==
  ASSUME TypeOK, Create
  PROVE  \E c, w \in Nat : /\ Coming' = c /\ Cardinality(Wanted') = w /\ Coming <= c
                           /\ c + Cardinality(Wanted) <= Coming + w
<1>1. PICK n \in Names : n \notin present /\ present' = present \cup {n}
  BY DEF Create
<1>2. UNCHANGED <<modifiers, pos, buffer, filled, at>>
  BY <1>1 DEF Create, stream
<1>3. n \notin ToCome /\ n \notin Wanted
  BY <1>1 DEF ToCome, Wanted, Later
<1>4. Wanted' = IF Listed(n) THEN Wanted \cup {n} ELSE Wanted
  BY <1>1, <1>2 DEF Wanted, Listed
<1>5. ToCome' = IF n > pos /\ Listed(n) THEN ToCome \cup {n} ELSE ToCome
  BY <1>1, <1>2 DEF ToCome, Later, Listed
<1>6. Unread' = Unread
  BY <1>2 DEF Unread, Listed
<1>7. /\ Cardinality(ToCome \cup {n}) = Cardinality(ToCome) + 1
      /\ Cardinality(Wanted \cup {n}) = Cardinality(Wanted) + 1
  BY <1>3, ComingTypes, FS_AddElement
<1>8. Coming' = Cardinality(Unread) + Cardinality(ToCome')
  BY <1>6 DEF Coming
<1> QED
  BY <1>4, <1>5, <1>7, <1>8, ComingTypes DEF Coming

\* A file removed is one less wanted, and to come if it was.
LEMMA RemoveCounts ==
  ASSUME TypeOK, Remove
  PROVE  \E c, w \in Nat : /\ Coming' = c /\ Cardinality(Wanted') = w /\ c <= Coming
                           /\ Coming + w <= c + Cardinality(Wanted)
<1>1. PICK n \in present : present' = present \ {n}
  BY DEF Remove
<1>2. UNCHANGED <<modifiers, pos, buffer, filled, at>>
  BY <1>1 DEF Remove, stream
<1>3. (n \in ToCome <=> n > pos /\ Listed(n)) /\ (n \in Wanted <=> Listed(n))
  BY <1>1 DEF ToCome, Wanted, Later
<1>4. Wanted' = Wanted \ {n} /\ ToCome' = ToCome \ {n}
  BY <1>1, <1>2 DEF Wanted, ToCome, Later, Listed
<1>5. Unread' = Unread
  BY <1>2 DEF Unread, Listed
<1>6. /\ Cardinality(ToCome \ {n}) = Cardinality(ToCome) - (IF n \in ToCome THEN 1 ELSE 0)
      /\ Cardinality(Wanted \ {n}) = Cardinality(Wanted) - (IF n \in Wanted THEN 1 ELSE 0)
      /\ Cardinality(ToCome \ {n}) \in Nat /\ Cardinality(Wanted \ {n}) \in Nat
  <2>1. /\ IsFiniteSet(ToCome \ {n})
        /\ Cardinality(ToCome \ {n}) = IF n \in ToCome THEN Cardinality(ToCome) - 1
                                                        ELSE Cardinality(ToCome)
    BY ComingTypes, FS_RemoveElement
  <2>2. /\ IsFiniteSet(Wanted \ {n})
        /\ Cardinality(Wanted \ {n}) = IF n \in Wanted THEN Cardinality(Wanted) - 1
                                                        ELSE Cardinality(Wanted)
    BY ComingTypes, FS_RemoveElement
  <2> QED
    BY <2>1, <2>2, ComingTypes, FS_CardinalityType
<1>7. Coming' = Cardinality(Unread) + Cardinality(ToCome \ {n})
  BY <1>4, <1>5 DEF Coming
<1> QED
  BY <1>3, <1>4, <1>6, <1>7, ComingTypes DEF Coming

\* At the end of the directory nothing is to come; rewound, all of it is.
LEMMA EndCounts ==
  ASSUME TypeOK, EndOfDirectory
  PROVE  /\ Coming = 0
         /\ Rewind /\ UNCHANGED <<present, modifiers>> =>
              Coming' = Cardinality(Wanted) /\ Wanted' = Wanted
<1>1. at = filled /\ filled \in Nat /\ Later = {}
  BY ListDirAssumption DEF EndOfDirectory, TypeOK
<1>2. Unread = {} /\ ToCome = {}
  BY <1>1 DEF Unread, ToCome
<1>3. Coming = 0
  BY <1>2, FS_EmptySet DEF Coming
<1>4. ASSUME Rewind, UNCHANGED <<present, modifiers>>
      PROVE  Coming' = Cardinality(Wanted) /\ Wanted' = Wanted
  <2>1. Wanted' = Wanted
    BY <1>4 DEF Wanted, Listed
  <2>2. Unread' = {}
    BY <1>4 DEF Rewind, Unread
  <2>3. ToCome' = Wanted
    <3>1. \A n \in present : n > 0
      BY ListDirAssumption DEF TypeOK
    <3>2. Later' = present
      BY <1>4, <3>1 DEF Rewind, Later
    <3> QED
      BY <1>4, <3>2 DEF ToCome, Wanted, Listed
  <2>4. Coming' = Cardinality({}) + Cardinality(Wanted)
    BY <2>2, <2>3 DEF Coming
  <2> QED
    BY <2>1, <2>4, FS_EmptySet, ComingTypes
<1> QED
  BY <1>3, <1>4

\* The second reading does not pass the first, as long as nothing is created.
LEMMA AtMostStep == IInv /\ [Next]_vars => AtMost'
<1> SUFFICES ASSUME IInv, [Next]_vars PROVE AtMost'
  OBVIOUS
<1>1. TypeOK /\ StreamPart /\ Changed /\ Stored /\ AtMost
  BY DEF IInv
<1>2. total \in Nat /\ index \in Nat /\ Coming \in Nat /\ Cardinality(Wanted) \in Nat
  BY <1>1, ComingTypes DEF TypeOK
<1>3. UNCHANGED <<present, modifiers>> => Wanted' = Wanted
  BY DEF Wanted, Listed
<1>4. UNCHANGED <<present, modifiers, stream>> => Coming' = Coming
  BY DEF Coming, Unread, ToCome, Later, Listed, stream
<1>5. CASE Count
  <2>1. /\ pc = "count" /\ ReadDir /\ UNCHANGED <<present, modifiers, pc, index, created>>
        /\ total' = IF Listed(buffer'[at']) THEN total + 1 ELSE total
    BY <1>5 DEF Count, Counts, Listed, history
  <2>2. PICK c \in Nat : /\ Coming' = c
                         /\ Coming = c + IF Listed(buffer'[at']) THEN 1 ELSE 0
    BY <1>1, <2>1, ComingStep
  <2>3. PICK t \in Nat : t = total' /\ t = total + IF Listed(buffer'[at']) THEN 1 ELSE 0
    BY <1>2, <2>1
  <2>4. created = {} => t + c >= Cardinality(Wanted)
    BY <1>1, <1>2, <2>1, <2>2, <2>3 DEF AtMost
  <2>5. index = 0 /\ 0 <= t
    BY <1>1, <2>1 DEF Stored
  <2> QED
    BY <1>3, <2>1, <2>2, <2>3, <2>4, <2>5 DEF AtMost
<1>6. CASE CountEnd
  <2>1. /\ pc = "count" /\ EndOfDirectory /\ Rewind
        /\ UNCHANGED <<present, modifiers, total, index, created>>
        /\ pc' = IF total = 0 THEN "done" ELSE "fill"
    BY <1>6 DEF CountEnd, history
  <2>2. Coming = 0 /\ Coming' = Cardinality(Wanted) /\ Wanted' = Wanted
    BY <1>1, <2>1, EndCounts
  <2>3. created = {} => total >= Cardinality(Wanted)
    BY <1>1, <1>2, <2>1, <2>2 DEF AtMost
  <2>4. index = 0
    BY <1>1, <2>1 DEF Stored
  <2>5. total = 0 /\ created = {} => Wanted = {}
    BY <1>1, <1>2, <2>3, ComingTypes, FS_EmptySet
  <2> QED
    BY <1>2, <2>1, <2>2, <2>3, <2>4, <2>5 DEF AtMost
<1>7. CASE Fill
  <2>1. /\ pc = "fill" /\ ReadDir /\ UNCHANGED <<present, modifiers, pc, total, created>>
        /\ index' = IF Listed(buffer'[at']) THEN index + 1 ELSE index
    BY <1>7 DEF Fill, Stores, Listed, history
  <2>2. PICK c \in Nat : /\ Coming' = c
                         /\ Coming = c + IF Listed(buffer'[at']) THEN 1 ELSE 0
    BY <1>1, <2>1, ComingStep
  <2>3. PICK t \in Nat : t = index' /\ t = index + IF Listed(buffer'[at']) THEN 1 ELSE 0
    BY <1>2, <2>1
  <2>4. created = {} => t + c <= total
    BY <1>1, <1>2, <2>1, <2>2, <2>3 DEF AtMost
  <2>5. created = {} => t <= total
    BY <1>2, <2>2, <2>3, <2>4
  <2> QED
    BY <2>1, <2>2, <2>3, <2>4, <2>5 DEF AtMost
<1>8. CASE Create
  BY <1>8 DEF Create, AtMost
<1>9. CASE Remove
  <2>1. /\ UNCHANGED <<pc, total, index, created>> /\ pc # "done"
    BY <1>9 DEF Remove, MayChange, Running
  <2>2. PICK c, w \in Nat : /\ Coming' = c /\ Cardinality(Wanted') = w /\ c <= Coming
                            /\ Coming + w <= c + Cardinality(Wanted)
    BY <1>1, <1>9, RemoveCounts
  <2>3. created = {} /\ pc = "count" => total + c >= w
    BY <1>1, <1>2, <2>2 DEF AtMost
  <2>4. created = {} /\ pc = "fill" => index + c <= total
    BY <1>1, <1>2, <2>2 DEF AtMost
  <2> QED
    BY <1>1, <2>1, <2>2, <2>3, <2>4 DEF AtMost
<1>10. ASSUME UNCHANGED <<present, modifiers, total, index, created>>,
              pc \in {"fill", "sort", "print"}, pc' \in {"sort", "print", "done", "crashed"}
       PROVE  AtMost'
  BY <1>1, <1>10 DEF AtMost, Stored
<1>11. CASE UNCHANGED vars
  BY <1>1, <1>3, <1>4, <1>11 DEF AtMost, vars, history
<1>12. CASE FillEnd \/ Sort \/ PrintEntry \/ PrintEnd \/ NoOwner \/ SortStrayPointer
            \/ PrintStrayPointer \/ HeapDamage
  BY <1>10, <1>12 DEF FillEnd, Sort, PrintEntry, PrintEnd, NoOwner, SortStrayPointer,
                      PrintStrayPointer, HeapDamage, history
<1> QED
  BY <1>5, <1>6, <1>7, <1>8, <1>9, <1>11, <1>12 DEF Next, Ls, Finished

\* Nor does it fall short of it, as long as nothing is removed.
LEMMA AtLeastStep == IInv /\ [Next]_vars => AtLeast'
<1> SUFFICES ASSUME IInv, [Next]_vars PROVE AtLeast'
  OBVIOUS
<1>1. TypeOK /\ StreamPart /\ Changed /\ Stored /\ AtLeast
  BY DEF IInv
<1>2. total \in Nat /\ index \in Nat /\ Coming \in Nat /\ Cardinality(Wanted) \in Nat
  BY <1>1, ComingTypes DEF TypeOK
<1>3. UNCHANGED <<present, modifiers>> => Wanted' = Wanted
  BY DEF Wanted, Listed
<1>4. UNCHANGED <<present, modifiers, stream>> => Coming' = Coming
  BY DEF Coming, Unread, ToCome, Later, Listed, stream
<1>5. CASE Count
  <2>1. /\ pc = "count" /\ ReadDir /\ UNCHANGED <<present, modifiers, pc, removed>>
        /\ total' = IF Listed(buffer'[at']) THEN total + 1 ELSE total
    BY <1>5 DEF Count, Counts, Listed, history
  <2>2. PICK c \in Nat : /\ Coming' = c
                         /\ Coming = c + IF Listed(buffer'[at']) THEN 1 ELSE 0
    BY <1>1, <2>1, ComingStep
  <2>3. PICK t \in Nat : t = total' /\ t = total + IF Listed(buffer'[at']) THEN 1 ELSE 0
    BY <1>2, <2>1
  <2>4. removed = {} => t + c <= Cardinality(Wanted)
    BY <1>1, <1>2, <2>1, <2>2, <2>3 DEF AtLeast
  <2> QED
    BY <1>3, <2>1, <2>2, <2>3, <2>4 DEF AtLeast
<1>6. CASE CountEnd
  <2>1. /\ pc = "count" /\ EndOfDirectory /\ Rewind
        /\ UNCHANGED <<present, modifiers, total, index, removed>>
        /\ pc' = IF total = 0 THEN "done" ELSE "fill"
    BY <1>6 DEF CountEnd, history
  <2>2. Coming = 0 /\ Coming' = Cardinality(Wanted) /\ Wanted' = Wanted
    BY <1>1, <2>1, EndCounts
  <2>3. removed = {} => total <= Cardinality(Wanted)
    BY <1>1, <1>2, <2>1, <2>2 DEF AtLeast
  <2>4. index = 0
    BY <1>1, <2>1 DEF Stored
  <2>5. total = 0 => \A k \in 1 .. total : entries'[k] # Unset
    OBVIOUS
  <2> QED
    BY <1>2, <2>1, <2>2, <2>3, <2>4, <2>5 DEF AtLeast
<1>7. CASE Fill
  <2>1. /\ pc = "fill" /\ ReadDir /\ UNCHANGED <<present, modifiers, pc, total, removed>>
        /\ index' = IF Listed(buffer'[at']) THEN index + 1 ELSE index
    BY <1>7 DEF Fill, Stores, Listed, history
  <2>2. PICK c \in Nat : /\ Coming' = c
                         /\ Coming = c + IF Listed(buffer'[at']) THEN 1 ELSE 0
    BY <1>1, <2>1, ComingStep
  <2>3. PICK t \in Nat : t = index' /\ t = index + IF Listed(buffer'[at']) THEN 1 ELSE 0
    BY <1>2, <2>1
  <2>4. removed = {} => t + c >= total
    BY <1>1, <1>2, <2>1, <2>2, <2>3 DEF AtLeast
  <2> QED
    BY <2>1, <2>2, <2>3, <2>4 DEF AtLeast
<1>8. CASE Create
  <2>1. UNCHANGED <<pc, total, index, removed, entries>>
    BY <1>8 DEF Create
  <2>2. PICK c, w \in Nat : /\ Coming' = c /\ Cardinality(Wanted') = w /\ Coming <= c
                            /\ c + Cardinality(Wanted) <= Coming + w
    BY <1>1, <1>8, CreateCounts
  <2>3. removed = {} /\ pc = "count" => total + c <= w
    BY <1>1, <1>2, <2>2 DEF AtLeast
  <2>4. removed = {} /\ pc = "fill" => index + c >= total
    BY <1>1, <1>2, <2>2 DEF AtLeast
  <2> QED
    BY <1>1, <2>1, <2>2, <2>3, <2>4 DEF AtLeast
<1>9. CASE Remove
  BY <1>9 DEF Remove, AtLeast
<1>10. CASE FillEnd
  <2>1. /\ pc = "fill" /\ EndOfDirectory /\ pc' \in {"sort", "print"}
        /\ UNCHANGED <<total, index, entries, removed>>
    BY <1>10 DEF FillEnd, history
  <2>2. Coming = 0
    BY <1>1, <2>1, EndCounts
  <2>3. removed = {} => index >= total
    BY <1>1, <1>2, <2>1, <2>2 DEF AtLeast
  <2>4. removed = {} => \A k \in 1 .. total : entries[k] # Unset
    BY <1>1, <1>2, <2>1, <2>3 DEF Stored
  <2> QED
    BY <2>1, <2>4 DEF AtLeast
<1>11. CASE Sort
  <2>1. /\ pc = "sort" /\ pc' = "print" /\ UNCHANGED <<total, removed>>
        /\ \A k \in 1 .. total : entries[k] # Unset
    BY <1>11 DEF Sort, history
  <2>2. PICK f : Permutes(f)
    BY <1>1, <1>11, SortFacts
  <2>3. \A p \in 1 .. total : entries'[p] # Unset
    BY <1>1, <2>1, <2>2, PermutedArray
  <2> QED
    BY <2>1, <2>3 DEF AtLeast
<1>12. CASE SortStrayPointer
  <2>1. pc = "sort" /\ pc' \in {"print", "crashed"} /\ removed' = removed
        /\ \E k \in 1 .. total : entries[k] = Unset
    BY <1>12 DEF SortStrayPointer, history
  <2>2. removed # {}
    BY <1>1, <2>1 DEF AtLeast
  <2> QED
    BY <2>1, <2>2 DEF AtLeast
<1>13. ASSUME UNCHANGED <<total, removed, entries>>,
              pc \in {"fill", "sort", "print"},
              (pc' = pc /\ pc = "print") \/ (pc = "print" /\ pc' = "done") \/ pc' = "crashed"
       PROVE  AtLeast'
  BY <1>1, <1>13 DEF AtLeast
<1>14. CASE UNCHANGED vars
  BY <1>1, <1>3, <1>4, <1>14 DEF AtLeast, vars, history
<1>15. CASE PrintEntry \/ PrintEnd \/ NoOwner \/ PrintStrayPointer \/ HeapDamage
  BY <1>13, <1>15 DEF PrintEntry, PrintEnd, NoOwner, PrintStrayPointer, HeapDamage, history
<1> QED
  BY <1>5, <1>6, <1>7, <1>8, <1>9, <1>10, <1>11, <1>12, <1>14, <1>15 DEF Next, Ls, Finished


-----------------------------------------------------------------------------
(* The array *)

\* Pointers are stored one after the other, and point to slots that hold names.
LEMMA StoredStep == IInv /\ [Next]_vars => Stored'
<1> SUFFICES ASSUME IInv, [Next]_vars PROVE Stored'
  OBVIOUS
<1>1. TypeOK /\ StreamPart /\ Changed /\ Stored
  BY DEF IInv
<1>2. /\ total \in Nat /\ index \in Nat /\ entries \in Seq(Slot \cup {Unset})
      /\ \A k \in 1 .. Len(entries) : entries[k] \in Slot \cup {Unset}
  BY <1>1 DEF TypeOK
<1>3. CASE Count
  <2>1. /\ pc = "count" /\ ReadDir /\ UNCHANGED <<pc, index, entries, i, out>>
    BY <1>3 DEF Count, history
  <2>2. \A s \in Slot : buffer[s] \in Names => buffer'[s] \in Names
    BY <1>1, <2>1, ReadDirFacts
  <2> QED
    BY <1>1, <1>2, <2>1, <2>2 DEF Stored
<1>4. CASE CountEnd
  <2>1. /\ pc = "count" /\ UNCHANGED <<total, index, buffer, i, out>>
        /\ entries' = [k \in 1 .. total |-> Unset]
        /\ pc' = IF total = 0 THEN "done" ELSE "fill"
    BY <1>4 DEF CountEnd, history
  <2>2. Len(entries') = total /\ \A k \in 1 .. total : entries'[k] = Unset
    BY <1>2, <2>1
  <2>3. index = 0 /\ i = 0 /\ out = <<>>
    BY <1>1, <2>1 DEF Stored
  <2>4. \A k \in 1 .. total : ~(k <= 0)
    BY <1>2
  <2> QED
    BY <2>1, <2>2, <2>3, <2>4 DEF Stored
<1>5. CASE Fill
  <2>1. /\ pc = "fill" /\ ReadDir /\ UNCHANGED <<pc, total, i, out>>
        /\ Len(entries) = total /\ total # 0 /\ i = 0 /\ out = <<>>
        /\ \A k \in 1 .. total : entries[k] # Unset <=> k <= index
    BY <1>1, <1>5 DEF Fill, history, TypeOK, Stored
  <2>2. /\ at' \in Slot /\ at' \in 1 .. filled'
        /\ \A s \in Slot : buffer[s] \in Names => buffer'[s] \in Names
        /\ \A s \in 1 .. filled' : buffer'[s] \in Names
    BY <1>1, <2>1, ReadDirFacts
  <2>3. at' # Unset /\ buffer'[at'] \in Names
    BY <2>2, ListDirAssumption DEF Slot, Unset
  <2>4. \A k \in 1 .. Len(entries) : entries[k] # Unset => buffer'[entries[k]] \in Names
    BY <1>1, <1>2, <2>2 DEF Stored
  <2>5. CASE UNCHANGED <<entries, index>>
    BY <2>1, <2>4, <2>5 DEF Stored
  <2>6. CASE index < total /\ entries' = [entries EXCEPT ![index + 1] = at'] /\ index' = index + 1
    <3>1. index + 1 \in 1 .. total
      BY <1>2, <2>6
    <3>2. /\ Len(entries') = total
          /\ \A k \in 1 .. total : entries'[k] = IF k = index + 1 THEN at' ELSE entries[k]
      BY <1>2, <2>1, <2>6, <3>1
    <3>3. \A k \in 1 .. total : entries'[k] # Unset <=> k <= index + 1
      BY <1>2, <2>1, <2>3, <3>2
    <3>4. \A k \in 1 .. total : entries'[k] # Unset => buffer'[entries'[k]] \in Names
      BY <2>1, <2>3, <2>4, <3>2
    <3> QED
      BY <2>1, <2>6, <3>2, <3>3, <3>4 DEF Stored
  <2>7. CASE ~(index < total) /\ entries' = entries /\ index' = index + 1
    <3>1. \A k \in 1 .. total : entries[k] # Unset <=> k <= index + 1
      BY <1>2, <2>1, <2>7
    <3> QED
      BY <2>1, <2>4, <2>7, <3>1 DEF Stored
  <2> QED
    BY <1>5, <2>5, <2>6, <2>7 DEF Fill, Pointer
<1>6. CASE Sort
  <2>1. pc = "sort" /\ pc' = "print" /\ UNCHANGED <<total, index, buffer, i, out>>
    BY <1>6 DEF Sort, stream, history
  <2>2. PICK f : Permutes(f)
    BY <1>1, <1>6, SortFacts
  <2>3. /\ Len(entries') = total /\ Len(entries) = total
        /\ \A p \in 1 .. total : f[p] \in 1 .. total /\ entries'[p] = entries[f[p]]
    BY <1>1, <2>1, <2>2, PermutedArray DEF TypeOK
  <2> QED
    BY <1>1, <2>1, <2>3 DEF Stored
<1>7. CASE SortStrayPointer
  <2>1. /\ pc = "sort" /\ pc' \in {"print", "crashed"}
        /\ UNCHANGED <<total, index, buffer, i, out>>
    BY <1>7 DEF SortStrayPointer, stream, history
  <2>2. CASE entries' = entries
    BY <1>1, <2>1, <2>2 DEF Stored
  <2>3. CASE pc' # "crashed"
    <3>1. PICK f : Permutes(f)
      BY <1>1, <1>7, <2>3, StrayFacts
    <3>2. /\ Len(entries') = total /\ Len(entries) = total
          /\ \A p \in 1 .. total : f[p] \in 1 .. total /\ entries'[p] = entries[f[p]]
      BY <1>1, <2>1, <3>1, PermutedArray DEF TypeOK
    <3> QED
      BY <1>1, <2>1, <3>2 DEF Stored
  <2> QED
    BY <1>7, <2>2, <2>3 DEF SortStrayPointer
<1>8. CASE Create \/ Remove
  BY <1>1, <1>8 DEF Create, Remove, stream, Stored
<1>9. CASE UNCHANGED vars
  BY <1>1, <1>9 DEF Stored, vars, stream, history
<1>10. CASE FillEnd \/ PrintEntry \/ PrintEnd \/ NoOwner \/ PrintStrayPointer \/ HeapDamage
  BY <1>1, <1>10 DEF FillEnd, PrintEntry, PrintEnd, NoOwner, PrintStrayPointer, HeapDamage,
                     stream, history, Stored
<1> QED
  BY <1>3, <1>4, <1>5, <1>6, <1>7, <1>8, <1>9, <1>10 DEF Next, Ls, Finished

\* ls crashes only when its two readings differ or a file has no owner.
LEMMA CrashStep == IInv /\ [Next]_vars => CrashNeedsCause'
<1> SUFFICES ASSUME IInv, [Next]_vars PROVE CrashNeedsCause'
  OBVIOUS
<1>1. /\ TypeOK /\ StreamPart /\ Changed /\ Stored /\ AtMost /\ AtLeast
      /\ CrashNeedsCause
  BY DEF IInv
<1>2. total \in Nat /\ index \in Nat /\ i \in 0 .. total
  BY <1>1 DEF TypeOK
<1>3. ASSUME i < total PROVE i + 1 \in 1 .. total
  BY <1>2, <1>3
<1>4. CASE NoOwner
  <2>1. /\ pc = "print" /\ i < total /\ "l" \in modifiers /\ entries[i + 1] # Unset
        /\ NameOf(i + 1) \in present => NameOf(i + 1) \in Unowned
        /\ UNCHANGED <<modifiers, created, removed>>
    BY <1>4 DEF NoOwner, history
  <2>2. Len(entries) = total /\ i + 1 \in 1 .. total
    BY <1>1, <1>3, <2>1 DEF TypeOK
  <2>3. entries[i + 1] \in Slot /\ NameOf(i + 1) \in Names
    BY <1>1, <2>1, <2>2 DEF Stored, NameOf, TypeOK
  <2>4. NameOf(i + 1) \in atOpen \cup created
    <3>1. NameOf(i + 1) # NoName
      BY <2>3, ListDirAssumption DEF NoName
    <3> QED
      BY <1>1, <2>1, <2>3, <3>1 DEF NameOf, StreamPart
  <2>5. created = {} /\ removed = {} => Unowned # {}
    BY <1>1, <2>1, <2>4 DEF Changed
  <2> QED
    BY <2>1, <2>5 DEF CrashNeedsCause
<1>5. CASE SortStrayPointer
  <2>1. removed # {} /\ removed' = removed
    BY <1>1, <1>5 DEF SortStrayPointer, history, AtLeast
  <2> QED
    BY <2>1 DEF CrashNeedsCause
<1>6. CASE PrintStrayPointer
  <2>1. removed # {} /\ removed' = removed
    BY <1>1, <1>3, <1>6 DEF PrintStrayPointer, history, AtLeast
  <2> QED
    BY <2>1 DEF CrashNeedsCause
<1>7. CASE HeapDamage
  <2>1. index > total /\ created' = created
    BY <1>7 DEF HeapDamage, history
  <2>2. created # {}
    BY <1>1, <1>2, <2>1 DEF AtMost
  <2> QED
    BY <2>1, <2>2 DEF CrashNeedsCause
<1>8. CASE UNCHANGED vars
  BY <1>1, <1>8 DEF CrashNeedsCause, vars, history
<1>9. CASE Create \/ Remove
  BY <1>1, <1>9 DEF Create, Remove, MayChange, Running, CrashNeedsCause
<1>10. CASE Count \/ CountEnd \/ Fill \/ FillEnd \/ Sort \/ PrintEntry \/ PrintEnd
  <2>1. pc' # "crashed"
    BY <1>10 DEF Count, CountEnd, Fill, FillEnd, Sort, PrintEntry, PrintEnd
  <2> QED
    BY <2>1 DEF CrashNeedsCause
<1> QED
  BY <1>4, <1>5, <1>6, <1>7, <1>8, <1>9, <1>10 DEF Next, Ls, Finished


-----------------------------------------------------------------------------
(* The directory in the buffer *)

\* A directory of which nothing was added fits the buffer if it did.
LEMMA PresentFits ==
  ASSUME TypeOK, Changed, Quiet
  PROVE  Cardinality(present) \in Nat /\ Cardinality(present) <= BatchSize
<1>1. present \in SUBSET atOpen /\ atOpen \in SUBSET Names
  BY DEF Changed, Quiet, TypeOK
<1>2. /\ IsFiniteSet(atOpen) /\ Cardinality(atOpen) \in Nat
      /\ Cardinality(present) \in Nat /\ Cardinality(present) <= Cardinality(atOpen)
  BY <1>1, NamesFinite, FS_Subset
<1>3. Cardinality(atOpen) <= BatchSize /\ BatchSize \in Nat
  BY ListDirAssumption DEF Quiet, Fits
<1> QED
  BY <1>2, <1>3

\* So the first getdents of the second reading takes all of it, and every readdir
\* advances by one slot.
LEMMA FillWhole ==
  ASSUME IInv, Fill, Quiet
  PROVE  /\ at' = at + 1 /\ at' \in 1 .. filled' /\ filled' \in Nat /\ at \in Nat
         /\ \A s \in 1 .. at : buffer'[s] = buffer[s]
         /\ Later' = {} /\ present \subseteq {buffer'[s] : s \in 1 .. filled'}
         /\ \A s, t \in 1 .. filled' : s < t => buffer'[s] < buffer'[t]
<1>1. TypeOK /\ StreamPart /\ Changed /\ Whole
  BY DEF IInv
<1>2. ReadDir /\ present' = present /\ pc = "fill" /\ Gathering
  BY DEF Fill, Gathering
<1>3. at \in Nat /\ filled \in Nat /\ at \in 0 .. filled
  BY <1>1, ListDirAssumption DEF TypeOK
<1>4. at' \in 1 .. filled' /\ filled' \in 0 .. BatchSize /\ BatchSize \in Nat
  BY <1>1, <1>2, ReadDirFacts, ListDirAssumption
<1>5. CASE at < filled
  <2>1. at' = at + 1 /\ UNCHANGED <<pos, buffer, filled>>
    BY <1>2, <1>3, <1>5 DEF ReadDir
  <2>2. filled # 0
    BY <1>3, <1>5
  <2>3. Later' = Later
    BY <1>1, <1>2, <1>5, LaterAfter
  <2> QED
    BY <1>1, <1>2, <1>3, <1>4, <2>1, <2>2, <2>3 DEF Whole, InBuffer
<1>6. CASE ~(at < filled)
  <2>1. at = filled /\ Later # {}
    BY <1>2, <1>3, <1>6 DEF ReadDir
  <2>2. filled = 0 /\ pos = 0 /\ at = 0
    BY <1>1, <1>2, <2>1 DEF Whole, StreamPart
  <2>3. Later = present
    <3>1. \A n \in present : n > 0
      BY <1>1, ListDirAssumption DEF TypeOK
    <3> QED
      BY <2>2, <3>1 DEF Later
  <2>4. /\ filled' = Cardinality(Later) /\ at' = 1
        /\ \A s \in 1 .. filled' : buffer'[s] \in Later /\ Rank(buffer'[s]) = s
    <3>1. Cardinality(Later) <= BatchSize
      BY <1>1, <2>3, PresentFits
    <3> QED
      BY <1>1, <1>2, <1>6, <3>1, GetdentsFacts
  <2>5. \A n \in Later : Rank(n) \in 1 .. filled' /\ n \in Nat
    BY <1>1, <2>4, LaterRanks
  <2>6. Later' = {}
    <3>1. Later' = {n \in Later : Rank(n) > filled'}
      BY <1>1, <1>2, <1>6, LaterAfter
    <3>2. \A n \in Later : ~(Rank(n) > filled')
      BY <1>4, <2>5
    <3> QED
      BY <3>1, <3>2
  <2>7. \A n \in Later : buffer'[Rank(n)] = n
    <3> TAKE n \in Later
    <3>1. buffer'[Rank(n)] \in Later /\ Rank(buffer'[Rank(n)]) = Rank(n) /\ Rank(n) <= Rank(n)
      BY <1>4, <2>4, <2>5
    <3>2. n <= buffer'[Rank(n)] /\ buffer'[Rank(n)] <= n
      BY <1>1, <3>1, LaterRanks
    <3> QED
      BY <2>5, <3>1, <3>2
  <2>8. present \subseteq {buffer'[s] : s \in 1 .. filled'}
    BY <2>3, <2>5, <2>7
  <2>9. \A s, t \in 1 .. filled' : s < t => buffer'[s] < buffer'[t]
    <3> SUFFICES ASSUME NEW s \in 1 .. filled', NEW t \in 1 .. filled', s < t
                 PROVE  buffer'[s] < buffer'[t]
      OBVIOUS
    <3>1. /\ buffer'[s] \in Later /\ Rank(buffer'[s]) = s
          /\ buffer'[t] \in Later /\ Rank(buffer'[t]) = t
      BY <2>4
    <3>2. ~(Rank(buffer'[t]) <= Rank(buffer'[s]))
      BY <1>4, <3>1
    <3>3. ~(buffer'[t] <= buffer'[s])
      BY <1>1, <3>1, <3>2, LaterRanks
    <3> QED
      BY <2>5, <3>1, <3>3
  <2>10. at' = at + 1 /\ filled' \in Nat
    BY <1>4, <2>2, <2>4
  <2> QED
    BY <1>3, <1>4, <2>2, <2>6, <2>8, <2>9, <2>10
<1> QED
  BY <1>5, <1>6

\* No step but a readdir changes the stream once it was rewound.
LEMMA WholeStep == IInv /\ [Next]_vars => Whole'
<1> SUFFICES ASSUME IInv, [Next]_vars, Gathering'
             PROVE  /\ filled' # 0 => Later' = {} /\ present' \subseteq InBuffer'
                    /\ \A s, t \in 1 .. filled' : s < t => buffer'[s] < buffer'[t]
  BY DEF Whole
<1>1. TypeOK /\ Stored /\ Whole
  BY DEF IInv
<1>2. created' = {} /\ pc' # "crashed" /\ (pc' = "done" => total' # 0) /\ pc' # "count"
  BY DEF Gathering, Quiet
<1>3. Fits' => Fits
  BY DEF Next, Ls, Count, CountEnd, Fill, FillEnd, Sort, PrintEntry, PrintEnd, NoOwner,
         SortStrayPointer, PrintStrayPointer, HeapDamage, Create, Remove, Finished, history,
         vars, Fits
<1>4. Fits /\ Fits'
  BY <1>3 DEF Gathering, Quiet
<1>5. CASE Fill
  <2>1. Quiet /\ present' = present
    BY <1>2, <1>4, <1>5 DEF Fill, history, Quiet
  <2> QED
    BY <1>5, <2>1, FillWhole DEF InBuffer
<1>6. CASE CountEnd
  <2>1. filled' = 0
    BY <1>6 DEF CountEnd, Rewind
  <2> QED
    BY <2>1
<1>7. CASE Count \/ NoOwner \/ HeapDamage \/ Create
  BY <1>2, <1>7 DEF Count, NoOwner, HeapDamage, Create
<1>8. ASSUME UNCHANGED stream, present' \subseteq present, created' = created,
             pc \in {"fill", "sort", "print"} \/ (pc = "done" /\ total # 0)
      PROVE  /\ filled' # 0 => Later' = {} /\ present' \subseteq InBuffer'
             /\ \A s, t \in 1 .. filled' : s < t => buffer'[s] < buffer'[t]
  <2>1. Gathering
    BY <1>2, <1>4, <1>8 DEF Gathering, Quiet
  <2>2. Later' \subseteq Later
    BY <1>8 DEF Later, stream
  <2>3. InBuffer' = InBuffer
    BY <1>8 DEF InBuffer, stream
  <2> QED
    BY <1>1, <1>8, <2>1, <2>2, <2>3 DEF Whole, stream
<1>9. CASE FillEnd \/ Sort \/ PrintEntry \/ PrintEnd \/ SortStrayPointer \/ PrintStrayPointer
  BY <1>8, <1>9 DEF FillEnd, Sort, PrintEntry, PrintEnd, SortStrayPointer, PrintStrayPointer,
                    history
<1>10. CASE Remove
  <2>1. /\ UNCHANGED <<stream, created, pc, total>> /\ present' \subseteq present
        /\ pc # "done"
    BY <1>10 DEF Remove, MayChange, Running
  <2> QED
    BY <1>8, <2>1 DEF Gathering
<1>11. CASE UNCHANGED vars
  BY <1>8, <1>11 DEF Gathering, vars, history
<1> QED
  BY <1>5, <1>6, <1>7, <1>9, <1>10, <1>11 DEF Next, Ls, Finished


-----------------------------------------------------------------------------
(* The pointers *)

\* The pointers stored are those of the slots returned, in order.
LEMMA GatheredStep == IInv /\ [Next]_vars => Gathered'
<1> SUFFICES ASSUME IInv, [Next]_vars, Gathering', pc' = "fill"
             PROVE  /\ {entries'[k] : k \in 1 .. index'} = {s \in 1 .. at' : Listed(buffer[s])'}
                    /\ \A k, m \in 1 .. index' : k < m => entries'[k] < entries'[m]
  BY DEF Gathered
<1>1. TypeOK /\ Stored /\ Gathered /\ StreamPart /\ Changed
  BY DEF IInv
<1>2. created' = {} /\ Fits'
  BY DEF Gathering, Quiet
<1>3. UNCHANGED modifiers =>
        {s \in 1 .. at' : Listed(buffer[s])'} = {s \in 1 .. at' : Listed(buffer'[s])}
  BY DEF Listed
<1>4. total \in Nat /\ index \in Nat /\ entries \in Seq(Slot \cup {Unset})
  BY <1>1 DEF TypeOK
<1>5. CASE Fill
  <2>1. Quiet /\ pc = "fill" /\ Gathering /\ Len(entries) = total /\ UNCHANGED <<total, modifiers>>
    BY <1>1, <1>2, <1>5 DEF Fill, history, Quiet, Fits, Gathering, TypeOK
  <2>2. /\ at' = at + 1 /\ at \in Nat /\ \A s \in 1 .. at : buffer'[s] = buffer[s]
    BY <1>5, <2>1, FillWhole
  <2>3. /\ {entries[k] : k \in 1 .. index} = {s \in 1 .. at : Listed(buffer[s])}
        /\ \A k, m \in 1 .. index : k < m => entries[k] < entries[m]
    BY <1>1, <2>1 DEF Gathered
  <2>4. {s \in 1 .. at' : Listed(buffer'[s])}
          = {entries[k] : k \in 1 .. index}
              \cup (IF Listed(buffer'[at']) THEN {at'} ELSE {})
    <3>1. \A s : s \in 1 .. at' <=> s \in 1 .. at \/ s = at'
      BY <2>2
    <3>2. at' \notin 1 .. at
      BY <2>2
    <3> QED
      BY <2>2, <2>3, <3>1, <3>2
  <2>5. CASE ~Listed(buffer'[at'])
    <3>1. UNCHANGED <<entries, index>>
      BY <1>5, <2>5 DEF Fill, Stores, Listed
    <3> QED
      BY <1>3, <2>1, <2>3, <2>4, <2>5, <3>1
  <2>6. CASE Listed(buffer'[at'])
    <3>1. /\ index' = index + 1
          /\ entries' = IF index < total THEN [entries EXCEPT ![index + 1] = at'] ELSE entries
      BY <1>5, <2>6 DEF Fill, Stores, Listed, Pointer
    <3>2. index < total
      <4>1. AtMost'
        BY AtMostStep
      <4>2. index' <= total'
        BY <1>2, <4>1 DEF AtMost
      <4> QED
        BY <1>4, <2>1, <3>1, <4>2
    <3>3. /\ index + 1 \in 1 .. Len(entries)
          /\ \A k \in 1 .. index : k \in 1 .. Len(entries) /\ k # index + 1
      BY <1>4, <2>1, <3>2
    <3>4. entries'[index + 1] = at' /\ \A k \in 1 .. index : entries'[k] = entries[k]
      BY <1>4, <3>1, <3>2, <3>3
    <3>5. \A k : k \in 1 .. index' <=> k \in 1 .. index \/ k = index + 1
      BY <1>4, <3>1
    <3>6. {entries'[k] : k \in 1 .. index'} = {entries[k] : k \in 1 .. index} \cup {at'}
      BY <3>4, <3>5
    <3>7. \A k, m \in 1 .. index' : k < m => entries'[k] < entries'[m]
      <4>1. \A k \in 1 .. index : entries[k] \in 1 .. at
        BY <2>3
      <4>2. \A k \in 1 .. index : entries[k] < at'
        BY <2>2, <4>1
      <4>3. \A k, m \in 1 .. index' : k < m => k \in 1 .. index /\ (m \in 1 .. index \/ m = index + 1)
        BY <1>4, <3>1
      <4> QED
        BY <2>3, <3>4, <4>2, <4>3
    <3> QED
      BY <1>3, <2>1, <2>4, <2>6, <3>6, <3>7
  <2> QED
    BY <2>5, <2>6
<1>6. CASE CountEnd
  <2>1. at' = 0 /\ index' = 0
    BY <1>1, <1>6 DEF CountEnd, Rewind, Stored
  <2> QED
    BY <2>1
<1>7. CASE Remove
  <2>1. UNCHANGED <<modifiers, entries, index, at, buffer, total, pc, atOpen, created>>
    BY <1>7 DEF Remove, stream
  <2>2. Gathering
    BY <1>2, <2>1 DEF Gathering, Quiet, Fits
  <2> QED
    BY <1>1, <1>3, <2>1, <2>2 DEF Gathered
<1>8. CASE UNCHANGED vars
  <2>1. UNCHANGED <<modifiers, entries, index, at, buffer, total, pc, atOpen, created>>
    BY <1>8 DEF vars, stream, history
  <2>2. Gathering
    BY <1>2, <2>1 DEF Gathering, Quiet, Fits
  <2> QED
    BY <1>1, <1>3, <2>1, <2>2 DEF Gathered
<1>9. CASE Count \/ Create
  BY <1>2, <1>9 DEF Count, Create
<1> QED
  BY <1>5, <1>6, <1>7, <1>8, <1>9
  DEF Next, Ls, FillEnd, Sort, PrintEntry, PrintEnd, NoOwner, SortStrayPointer,
      PrintStrayPointer, HeapDamage, Finished

\* At its end, ls_fillEntries has stored a pointer to everything.
LEMMA FillEndGathers ==
  ASSUME IInv, FillEnd, Quiet
  PROVE  /\ present \subseteq InBuffer
         /\ {entries[k] : k \in 1 .. total} \ {Unset} = {s \in 1 .. filled : Listed(buffer[s])}
         /\ \A k, m \in 1 .. total : entries[k] = entries[m] /\ entries[k] # Unset => k = m
         /\ removed = {} => \A k, m \in 1 .. total : k < m => entries[k] < entries[m]
<1>1. TypeOK /\ Stored /\ Whole /\ Gathered /\ AtMost /\ AtLeast /\ StreamPart /\ Changed
  BY DEF IInv
<1>2. pc = "fill" /\ Gathering /\ at = filled /\ Later = {} /\ created = {}
  BY DEF FillEnd, EndOfDirectory, Gathering, Quiet
<1>3. total \in Nat /\ index \in Nat /\ index <= total
  BY <1>1, <1>2 DEF TypeOK, AtMost
<1>4. present \subseteq InBuffer
  <2>1. CASE filled = 0
    <3>1. \A n \in present : n > 0
      BY <1>1, ListDirAssumption DEF TypeOK
    <3>2. present = {}
      BY <1>1, <1>2, <2>1, <3>1 DEF StreamPart, Later
    <3> QED
      BY <3>2
  <2>2. CASE filled # 0
    BY <1>1, <1>2, <2>2 DEF Whole
  <2> QED
    BY <2>1, <2>2
<1>5. /\ {entries[k] : k \in 1 .. index} = {s \in 1 .. filled : Listed(buffer[s])}
      /\ \A k, m \in 1 .. index : k < m => entries[k] < entries[m]
  BY <1>1, <1>2 DEF Gathered
<1>6. \A k \in 1 .. total : entries[k] # Unset <=> k \in 1 .. index
  BY <1>1, <1>2, <1>3 DEF Stored
<1>7. \A k \in 1 .. index : k \in 1 .. total /\ entries[k] \in Nat
  <2>1. filled \in Nat /\ \A k \in 1 .. index : entries[k] \in 1 .. filled
    BY <1>1, <1>5, ListDirAssumption DEF TypeOK
  <2> QED
    BY <1>3, <2>1
<1>8. {entries[k] : k \in 1 .. total} \ {Unset} = {entries[k] : k \in 1 .. index}
  BY <1>6, <1>7
<1>9. ASSUME NEW k \in 1 .. total, NEW m \in 1 .. total, entries[k] = entries[m], entries[k] # Unset
      PROVE  k = m
  <2>1. k \in 1 .. index /\ m \in 1 .. index
    BY <1>6, <1>9
  <2>2. ~(k < m) /\ ~(m < k)
    BY <1>5, <1>7, <1>9, <2>1
  <2> QED
    BY <1>3, <2>1, <2>2
<1>10. ASSUME removed = {}
       PROVE  \A k, m \in 1 .. total : k < m => entries[k] < entries[m]
  <2>1. Coming = 0
    BY <1>1, EndCounts DEF FillEnd
  <2>2. index >= total
    BY <1>1, <1>2, <1>3, <1>10, <2>1 DEF AtLeast
  <2>3. index = total
    BY <1>3, <2>2
  <2> QED
    BY <1>5, <2>3
<1> QED
  BY <1>4, <1>5, <1>8, <1>9, <1>10

\* Sorting loses none of them.
LEMMA PointsToAllStep == IInv /\ [Next]_vars => PointsToAll'
<1> SUFFICES ASSUME IInv, [Next]_vars, Gathering', pc' # "fill" PROVE PointsToAll'
  BY DEF PointsToAll
<1>1. TypeOK /\ PointsToAll
  BY DEF IInv
<1>2. created' = {} /\ Fits' /\ pc' \in {"sort", "print", "done"} /\ (pc' = "done" => total' # 0)
  BY DEF Gathering, Quiet
<1>3. UNCHANGED modifiers => \A n : Listed(n)' <=> Listed(n)
  BY DEF Listed
<1>4. CASE FillEnd
  <2>1. UNCHANGED <<present, modifiers, stream, total, entries, created, atOpen>>
    BY <1>4 DEF FillEnd, history
  <2>2. Quiet
    BY <1>2, <2>1 DEF Quiet, Fits
  <2> QED
    BY <1>3, <1>4, <2>1, <2>2, FillEndGathers DEF PointsToAll, InBuffer, stream
<1>5. ASSUME UNCHANGED <<modifiers, stream, total, created, atOpen>>, present' \subseteq present,
             pc \in {"sort", "print"} \/ (pc = "done" /\ total # 0),
             \/ entries' = entries
             \/ pc = "sort" /\ \E f : Permutes(f)
      PROVE  PointsToAll'
  <2>1. Gathering /\ pc # "fill"
    BY <1>2, <1>5 DEF Gathering, Quiet, Fits
  <2>2. /\ present \subseteq InBuffer
        /\ {entries[k] : k \in 1 .. total} \ {Unset} = {s \in 1 .. filled : Listed(buffer[s])}
        /\ \A k, m \in 1 .. total : entries[k] = entries[m] /\ entries[k] # Unset => k = m
    BY <1>1, <2>1 DEF PointsToAll
  <2>3. /\ {entries'[k] : k \in 1 .. total} = {entries[k] : k \in 1 .. total}
        /\ \A k, m \in 1 .. total : entries'[k] = entries'[m] /\ entries'[k] # Unset => k = m
    <3>1. CASE entries' = entries
      BY <2>2, <3>1
    <3>2. CASE pc = "sort" /\ \E f : Permutes(f)
      <4>1. PICK f : Permutes(f)
        BY <3>2
      <4>2. /\ \A p \in 1 .. total : f[p] \in 1 .. total /\ entries'[p] = entries[f[p]]
            /\ {entries'[k] : k \in 1 .. total} = {entries[k] : k \in 1 .. total}
        BY <1>1, <3>2, <4>1, PermutedArray
      <4>3. ASSUME NEW p \in 1 .. total, NEW q \in 1 .. total,
                   entries'[p] = entries'[q], entries'[p] # Unset
            PROVE  p = q
        <5>1. f[p] = f[q]
          BY <2>2, <4>2, <4>3
        <5> QED
          BY <4>1, <5>1 DEF Permutes
      <4> QED
        BY <4>2, <4>3
    <3> QED
      BY <1>5, <3>1, <3>2
  <2>4. InBuffer' = InBuffer
    BY <1>5 DEF InBuffer, stream
  <2> QED
    BY <1>3, <1>5, <2>2, <2>3, <2>4 DEF PointsToAll, stream
<1>6. CASE Sort
  <2>1. \E f : Permutes(f)
    BY <1>1, <1>6, SortFacts
  <2> QED
    BY <1>5, <1>6, <2>1 DEF Sort, history
<1>7. CASE SortStrayPointer
  <2>1. \E f : Permutes(f)
    BY <1>1, <1>2, <1>7, StrayFacts
  <2> QED
    BY <1>5, <1>7, <2>1 DEF SortStrayPointer, history
<1>8. CASE PrintEntry \/ PrintEnd \/ PrintStrayPointer
  BY <1>5, <1>8 DEF PrintEntry, PrintEnd, PrintStrayPointer, history
<1>9. CASE Remove
  <2>1. /\ UNCHANGED <<modifiers, stream, total, created, atOpen, pc, entries>>
        /\ present' \subseteq present
    BY <1>9 DEF Remove
  <2> QED
    BY <1>2, <1>5, <2>1
<1>10. CASE UNCHANGED vars
  BY <1>2, <1>5, <1>10 DEF vars, history
<1>11. CASE Count \/ CountEnd \/ Fill \/ NoOwner \/ HeapDamage \/ Create
  BY <1>2, <1>11 DEF Count, CountEnd, Fill, NoOwner, HeapDamage, Create
<1> QED
  BY <1>4, <1>6, <1>7, <1>8, <1>9, <1>10, <1>11 DEF Next, Ls, Finished


\* A pointer that was stored points to a name that is still there, unless files
\* come and go.
LEMMA PointsToPresent ==
  ASSUME TypeOK, StreamPart, Changed, Stored, created = {}, removed = {},
         pc \in {"sort", "print"}, NEW k \in 1 .. total, entries[k] # Unset
  PROVE  NameOf(k) = buffer[entries[k]] /\ NameOf(k) \in present /\ entries[k] \in Slot
<1>1. Len(entries) = total /\ k \in 1 .. Len(entries)
  BY DEF TypeOK
<1>2. entries[k] \in Slot /\ buffer[entries[k]] \in Names
  BY <1>1 DEF Stored, TypeOK
<1>3. buffer[entries[k]] # NoName
  BY <1>2, ListDirAssumption DEF NoName
<1>4. buffer[entries[k]] \in atOpen
  BY <1>2, <1>3 DEF StreamPart
<1> QED
  BY <1>2, <1>4 DEF NameOf, Changed

\* The order of the pointers is the one asked for.
LEMMA PointsInOrderStep == IInv /\ [Next]_vars => PointsInOrder'
<1> SUFFICES ASSUME IInv, [Next]_vars, Gathering', removed' = {}, pc' # "fill"
             PROVE  PointsInOrder'
  BY DEF PointsInOrder
<1>1. /\ TypeOK /\ StreamPart /\ Changed /\ Stored /\ Whole /\ AtLeast
      /\ PointsToAll /\ PointsInOrder
  BY DEF IInv
<1>2. created' = {} /\ Fits' /\ pc' \in {"sort", "print", "done"} /\ (pc' = "done" => total' # 0)
  BY DEF Gathering, Quiet
<1>4. CASE FillEnd
  <2>1. /\ UNCHANGED <<modifiers, stream, total, entries, created, atOpen, removed>>
        /\ pc = "fill" /\ pc' = IF "S" \in modifiers THEN "sort" ELSE "print"
    BY <1>4 DEF FillEnd, history
  <2>2. Quiet /\ Gathering
    BY <1>2, <2>1 DEF Quiet, Fits, Gathering
  <2>3. /\ \A k, m \in 1 .. total : k < m => entries[k] < entries[m]
        /\ {entries[k] : k \in 1 .. total} \ {Unset} = {s \in 1 .. filled : Listed(buffer[s])}
    BY <1>4, <2>1, <2>2, FillEndGathers
  <2>4. \A k \in 1 .. total : entries[k] \in 1 .. filled
    <3>1. AtLeast'
      BY AtLeastStep
    <3>2. \A k \in 1 .. total : entries[k] # Unset
      BY <1>2, <2>1, <3>1 DEF AtLeast
    <3> QED
      BY <2>3, <3>2
  <2>5. \A s, t \in 1 .. filled : s < t => buffer[s] < buffer[t]
    BY <1>1, <2>2 DEF Whole
  <2>6. \A k, m \in 1 .. total : k < m => buffer[entries[k]] < buffer[entries[m]]
    BY <2>3, <2>4, <2>5
  <2> QED
    BY <2>1, <2>3, <2>6 DEF PointsInOrder, InOrder, stream
<1>5. CASE Sort
  <2>1. /\ pc = "sort" /\ pc' = "print" /\ "S" \in modifiers
        /\ UNCHANGED <<modifiers, stream, total, created, removed, atOpen>>
        /\ \A k \in 1 .. total : entries[k] # Unset
    BY <1>1, <1>5 DEF Sort, history, Stored
  <2>2. Gathering /\ created = {} /\ removed = {}
    BY <1>2, <2>1 DEF Gathering, Quiet, Fits
  <2>3. PICK key, f :
           /\ key \in [1 .. total -> Nat] /\ Permutes(f)
           /\ \A k \in 1 .. total : NameOf(k) \in present => key[k] = Size[NameOf(k)]
           /\ \A p, q \in 1 .. total : p < q =>
                \/ key[f[p]] > key[f[q]]
                \/ key[f[p]] = key[f[q]] /\ f[p] < f[q]
    BY <1>1, <1>5, SortFacts
  <2>4. \A p \in 1 .. total : f[p] \in 1 .. total /\ entries'[p] = entries[f[p]]
    BY <1>1, <2>1, <2>3, PermutedArray
  <2>5. \A k \in 1 .. total : /\ entries[k] \in 1 .. filled
                              /\ key[k] = Size[buffer[entries[k]]]
    <3> TAKE k \in 1 .. total
    <3>1. entries[k] \in 1 .. filled
      BY <1>1, <2>1, <2>2 DEF PointsToAll
    <3>2. NameOf(k) = buffer[entries[k]] /\ NameOf(k) \in present
      BY <1>1, <2>1, <2>2, PointsToPresent
    <3> QED
      BY <2>3, <3>1, <3>2
  <2>6. \A k, m \in 1 .. total : k < m => buffer[entries[k]] < buffer[entries[m]]
    <3>1. \A k, m \in 1 .. total : k < m => entries[k] < entries[m]
      BY <1>1, <2>1, <2>2 DEF PointsInOrder
    <3>2. \A s, t \in 1 .. filled : s < t => buffer[s] < buffer[t]
      BY <1>1, <2>2 DEF Whole
    <3> QED
      BY <2>5, <3>1, <3>2
  <2>7. ASSUME NEW p \in 1 .. total, NEW q \in 1 .. total, p < q
        PROVE  InOrder(buffer[entries'[p]], buffer[entries'[q]])
    <3>1. f[p] \in 1 .. total /\ f[q] \in 1 .. total
      BY <2>4
    <3>2. \/ key[f[p]] > key[f[q]]
          \/ key[f[p]] = key[f[q]] /\ f[p] < f[q]
      BY <2>3, <2>7
    <3>3. \/ Size[buffer[entries[f[p]]]] > Size[buffer[entries[f[q]]]]
          \/ /\ Size[buffer[entries[f[p]]]] = Size[buffer[entries[f[q]]]]
             /\ buffer[entries[f[p]]] < buffer[entries[f[q]]]
      BY <2>5, <2>6, <3>1, <3>2
    <3> QED
      BY <2>1, <2>4, <3>3 DEF InOrder
  <2> QED
    BY <2>1, <2>7 DEF PointsInOrder, InOrder, stream
<1>6. CASE SortStrayPointer
  <2>1. removed # {} /\ removed' = removed
    BY <1>1, <1>6 DEF SortStrayPointer, history, AtLeast
  <2> QED
    BY <2>1
<1>7. ASSUME UNCHANGED <<modifiers, stream, total, created, removed, atOpen, entries>>,
             pc' = pc \/ (pc = "print" /\ pc' = "done")
      PROVE  PointsInOrder'
  <2>1. Gathering /\ removed = {}
    BY <1>2, <1>7 DEF Gathering, Quiet, Fits
  <2>2. /\ pc = "sort" => \A k, m \in 1 .. total : k < m => entries[k] < entries[m]
        /\ pc \in {"print", "done"} =>
             \A k, m \in 1 .. total : k < m => InOrder(buffer[entries[k]], buffer[entries[m]])
    BY <1>1, <2>1 DEF PointsInOrder
  <2>3. \A m, n : InOrder(m, n)' <=> InOrder(m, n)
    BY <1>7 DEF InOrder
  <2>4. CASE pc' = pc
    BY <1>7, <2>2, <2>3, <2>4 DEF PointsInOrder, InOrder, stream
  <2>5. CASE pc = "print" /\ pc' = "done"
    BY <1>7, <2>2, <2>3, <2>5 DEF PointsInOrder, InOrder, stream
  <2> QED
    BY <1>7, <2>4, <2>5
<1>8. CASE PrintEntry \/ PrintEnd \/ PrintStrayPointer
  <2>1. /\ UNCHANGED <<modifiers, stream, total, created, removed, atOpen, entries>>
        /\ pc = "print" /\ pc' \in {"print", "done", "crashed"}
    BY <1>8 DEF PrintEntry, PrintEnd, PrintStrayPointer, history
  <2> QED
    BY <1>2, <1>7, <2>1
<1>9. CASE UNCHANGED vars
  BY <1>7, <1>9 DEF vars, history
<1>10. CASE Count \/ CountEnd \/ Fill \/ NoOwner \/ HeapDamage \/ Create \/ Remove
  BY <1>2, <1>10 DEF Count, CountEnd, Fill, NoOwner, HeapDamage, Create, Remove
<1> QED
  BY <1>4, <1>5, <1>6, <1>7, <1>8, <1>9, <1>10 DEF Next, Ls, Finished

-----------------------------------------------------------------------------
(* The output *)

\* A line printed is what a pointer points to.
LEMMA PrintedStep == IInv /\ [Next]_vars => Printed'
<1> SUFFICES ASSUME IInv, [Next]_vars PROVE Printed'
  OBVIOUS
<1>1. TypeOK /\ StreamPart /\ Changed /\ Stored /\ AtLeast /\ Printed
  BY DEF IInv
<1>2. /\ total \in Nat /\ i \in 0 .. total
      /\ out \in Seq([name : Names \cup {NoName}, details : Names \cup {NoName}])
  BY <1>1 DEF TypeOK
<1>3. UNCHANGED <<buffer, entries>> => \A k : NameOf(k)' = NameOf(k)
  BY DEF NameOf
<1>4. ASSUME pc = "print", pc' = "print", i < total, i' = i + 1,
             UNCHANGED <<buffer, entries, created, removed>>,
             NEW n, NEW d, out' = Append(out, [name |-> n, details |-> d]),
             entries[i + 1] # Unset => n = NameOf(i + 1),
             created = {} /\ removed = {} => d = n
      PROVE  Printed'
  <2>1. /\ Len(out) = i /\ \A k \in 1 .. i : entries[k] # Unset => out[k].name = NameOf(k)
        /\ created = {} /\ removed = {} => \A k \in 1 .. i : out[k].details = out[k].name
    BY <1>1, <1>4 DEF Printed
  <2>2. i \in Nat
    BY <1>2
  <2>3. /\ Len(out') = i + 1 /\ out'[i + 1] = [name |-> n, details |-> d]
        /\ \A k \in 1 .. i : out'[k] = out[k]
    <3> DEFINE Line == [name : Names \cup {NoName}, details : Names \cup {NoName}]
               e == [name |-> n, details |-> d]
    <3>1. out \in Seq(Line) /\ out' = Append(out, e)
      BY <1>2, <1>4
    <3> HIDE DEF Line, e
    <3>2. Len(out') = i + 1 /\ out'[i + 1] = e /\ \A k \in 1 .. i : out'[k] = out[k]
      BY <2>1, <2>2, <3>1
    <3> QED
      BY <3>2 DEF e
  <2>4. \A k \in 1 .. i + 1 : k \in 1 .. i \/ k = i + 1
    BY <2>2
  <2>5. \A k \in 1 .. i + 1 : entries[k] # Unset => out'[k].name = NameOf(k)
    BY <1>4, <2>1, <2>3, <2>4
  <2>6. created = {} /\ removed = {} => \A k \in 1 .. i + 1 : out'[k].details = out'[k].name
    BY <1>4, <2>1, <2>3, <2>4
  <2> QED
    BY <1>3, <1>4, <2>3, <2>5, <2>6 DEF Printed
<1>5. CASE PrintEntry
  <2>1. /\ pc = "print" /\ pc' = "print" /\ i < total /\ i' = i + 1 /\ entries[i + 1] # Unset
        /\ UNCHANGED <<buffer, entries, created, removed>>
    BY <1>5 DEF PrintEntry, Prints, stream, history
  <2>2. i + 1 \in 1 .. total
    BY <1>2, <2>1
  <2>3. created = {} /\ removed = {} => NameOf(i + 1) \in present
    BY <1>1, <2>1, <2>2, PointsToPresent
  <2>4. \E d : /\ NameOf(i + 1) \in present => d = NameOf(i + 1)
               /\ out' = Append(out, [name |-> NameOf(i + 1), details |-> d])
    BY <1>5 DEF PrintEntry, Prints, Details
  <2> QED
    BY <1>4, <2>1, <2>3, <2>4
<1>6. CASE PrintStrayPointer
  <2>1. /\ pc = "print" /\ i < total /\ entries[i + 1] = Unset
        /\ UNCHANGED <<buffer, entries, created, removed>>
    BY <1>6 DEF PrintStrayPointer, stream, history
  <2>2. removed # {}
    <3>1. i + 1 \in 1 .. total
      BY <1>2, <2>1
    <3> QED
      BY <1>1, <2>1, <3>1 DEF AtLeast
  <2>3. CASE pc' = "crashed"
    BY <2>3 DEF Printed
  <2>4. CASE pc' = pc /\ \E n : Prints(n)
    <3>1. PICK n, d : out' = Append(out, [name |-> n, details |-> d]) /\ i' = i + 1
      BY <2>4 DEF Prints
    <3> QED
      BY <1>4, <2>1, <2>2, <2>4, <3>1
  <2> QED
    BY <1>6, <2>3, <2>4 DEF PrintStrayPointer
<1>7. ASSUME UNCHANGED <<total, i, out>>, pc' \in {"print", "done"}, pc' = "done" => i = total,
             pc \in {"count", "fill", "sort"}
      PROVE  Printed'
  <2>1. i = 0 /\ out = <<>>
    BY <1>1, <1>7 DEF Stored, TypeOK
  <2> QED
    BY <1>7, <2>1 DEF Printed
<1>8. CASE CountEnd
  <2>1. UNCHANGED <<total, i, out>> /\ pc = "count" /\ pc' = IF total = 0 THEN "done" ELSE "fill"
    BY <1>8 DEF CountEnd
  <2>2. i = 0
    BY <1>1, <2>1 DEF Stored
  <2>3. CASE total = 0
    BY <1>7, <2>1, <2>2, <2>3
  <2>4. CASE total # 0
    BY <2>1, <2>4 DEF Printed
  <2> QED
    BY <2>3, <2>4
<1>9. CASE FillEnd \/ Sort \/ SortStrayPointer
  <2>1. UNCHANGED <<total, i, out>> /\ pc \in {"fill", "sort"} /\ pc' # "done"
    BY <1>9 DEF FillEnd, Sort, SortStrayPointer
  <2>2. CASE pc' = "print"
    BY <1>7, <2>1, <2>2
  <2>3. CASE pc' # "print"
    BY <2>1, <2>3 DEF Printed
  <2> QED
    BY <2>2, <2>3
<1>10. CASE PrintEnd
  <2>1. /\ pc = "print" /\ i = total /\ pc' = "done"
        /\ UNCHANGED <<buffer, entries, total, i, out, created, removed>>
    BY <1>10 DEF PrintEnd, stream, history
  <2> QED
    BY <1>1, <1>3, <2>1 DEF Printed
<1>11. CASE Create \/ Remove
  <2>1. /\ UNCHANGED <<pc, buffer, entries, total, i, out>>
        /\ created' # {} \/ removed' # {}
    BY <1>11 DEF Create, Remove, stream
  <2> QED
    BY <1>1, <1>3, <2>1 DEF Printed
<1>12. CASE UNCHANGED vars
  BY <1>1, <1>3, <1>12 DEF Printed, vars, stream, history
<1>13. CASE Count \/ Fill \/ NoOwner \/ HeapDamage
  <2>1. pc' \notin {"print", "done"}
    BY <1>13 DEF Count, Fill, NoOwner, HeapDamage
  <2> QED
    BY <2>1 DEF Printed
<1> QED
  BY <1>5, <1>6, <1>8, <1>9, <1>10, <1>11, <1>12, <1>13 DEF Next, Ls, Finished


-----------------------------------------------------------------------------
(* The theorems *)

\* It holds when ls has opened the directory,
LEMMA InitIInv == Init => IInv
<1> SUFFICES ASSUME Init PROVE IInv
  OBVIOUS
<1>1. BatchSize \in Nat \ {0} /\ Names \subseteq Nat \ {0} /\ present \in SUBSET Names
  BY ListDirAssumption DEF Init
<1>2. TypeOK
  <2>1. <<>> \in Seq([name : Names \cup {NoName}, details : Names \cup {NoName}])
    OBVIOUS
  <2> QED
    BY <1>1, <2>1 DEF Init, TypeOK
<1>3. Changed /\ StreamPart /\ CrashNeedsCause /\ Printed
  BY DEF Init, Changed, StreamPart, CrashNeedsCause, Printed
<1>4. Whole /\ Gathered /\ PointsToAll /\ PointsInOrder
  BY DEF Init, Whole, Gathered, PointsToAll, PointsInOrder, Gathering
<1>5. Stored
  BY DEF Init, Stored
<1>6. Coming = Cardinality(Wanted) /\ Cardinality(Wanted) \in Nat
  <2>1. Unread = {}
    BY DEF Init, Unread
  <2>2. ToCome = Wanted
    <3>1. \A n \in present : n > pos
      BY <1>1 DEF Init
    <3> QED
      BY <3>1 DEF ToCome, Later, Wanted
  <2> QED
    BY <1>2, <2>1, <2>2, ComingTypes, FS_EmptySet DEF Coming
<1>7. AtMost /\ AtLeast
  BY <1>6 DEF Init, AtMost, AtLeast
<1> QED
  BY <1>2, <1>3, <1>4, <1>5, <1>7 DEF IInv

\* every step keeps it,
LEMMA StepIInv == IInv /\ [Next]_vars => IInv'
BY TypeStep, ChangedStep, StreamStep, AtMostStep, AtLeastStep, StoredStep, CrashStep, WholeStep,
   GatheredStep, PointsToAllStep, PointsInOrderStep, PrintedStep DEF IInv

\* and it implies that the array was neither overrun nor left unset,
LEMMA IInvMemory == IInv => ListDirInvariant
<1> SUFFICES ASSUME IInv PROVE ListDirInvariant
  OBVIOUS
<1>1. NoOverrun
  BY DEF IInv, AtMost, NoOverrun
<1>2. NoStrayPointer
  BY DEF IInv, AtLeast, NoStrayPointer
<1> QED
  BY <1>1, <1>2 DEF IInv, ListDirInvariant

\* and that what was printed is the directory.
LEMMA IInvListing == IInv => ListingComplete
<1> SUFFICES ASSUME IInv, pc = "done", Fits, created = {} PROVE ListsDirectory /\ SurvivorsListed
  BY DEF ListingComplete, ListsDirectory, SurvivorsListed
<1>1. /\ TypeOK /\ Changed /\ StreamPart /\ AtMost /\ AtLeast /\ Stored
      /\ Whole /\ PointsToAll /\ PointsInOrder /\ Printed
  BY DEF IInv
<1>2. /\ Len(out) = total /\ \A k \in 1 .. total : entries[k] # Unset => out[k].name = NameOf(k)
      /\ created = {} /\ removed = {} => \A k \in 1 .. total : out[k].details = out[k].name
      /\ DOMAIN out = 1 .. total /\ total \in Nat
  <2>1. Len(out) = total /\ i = total
    BY <1>1 DEF Printed
  <2>2. DOMAIN out = 1 .. Len(out)
    BY <1>1 DEF TypeOK
  <2> QED
    BY <1>1, <2>1, <2>2 DEF Printed, TypeOK
<1>3. removed = {} => atOpen = present
  BY <1>1 DEF Changed
<1>4. CASE total = 0
  <2>1. \A n \in present : ~Listed(n)
    BY <1>1, <1>4 DEF AtMost, Wanted
  <2>2. DOMAIN out = {}
    BY <1>2, <1>4
  <2>3. ListsDirectory
    BY <1>3, <2>1, <2>2 DEF ListsDirectory
  <2>4. SurvivorsListed
    BY <1>1, <2>1 DEF SurvivorsListed, Changed
  <2> QED
    BY <2>3, <2>4
<1>5. CASE total # 0
  <2>1. Gathering
    BY <1>5 DEF Gathering, Quiet
  <2>2. /\ present \subseteq InBuffer
        /\ {entries[k] : k \in 1 .. total} \ {Unset} = {s \in 1 .. filled : Listed(buffer[s])}
        /\ \A k, m \in 1 .. total : entries[k] = entries[m] /\ entries[k] # Unset => k = m
    BY <1>1, <2>1 DEF PointsToAll
  <2>3. \A s, t \in 1 .. filled : s < t => buffer[s] < buffer[t]
    BY <1>1, <2>1 DEF Whole
  <2>4. \A s \in 1 .. filled : buffer[s] \in atOpen /\ buffer[s] \in Nat \ {0} /\ s \in Nat
    <3> TAKE s \in 1 .. filled
    <3>1. s \in Slot /\ s \in Nat
      BY <1>1, ListDirAssumption DEF TypeOK, Slot
    <3>2. buffer[s] \in Names
      BY <1>1 DEF StreamPart
    <3> QED
      BY <1>1, <3>1, <3>2, ListDirAssumption DEF StreamPart, NoName
  <2>5. \A k \in 1 .. total : entries[k] # Unset =>
          /\ entries[k] \in 1 .. filled /\ Listed(buffer[entries[k]])
          /\ NameOf(k) = buffer[entries[k]]
    BY <2>2 DEF NameOf
  <2>6. \A n \in present : Listed(n) =>
          \E k \in 1 .. total : entries[k] # Unset /\ NameOf(k) = n
    <3> SUFFICES ASSUME NEW n \in present, Listed(n)
                 PROVE  \E k \in 1 .. total : entries[k] # Unset /\ NameOf(k) = n
      OBVIOUS
    <3>1. PICK s \in 1 .. filled : buffer[s] = n
      BY <2>2 DEF InBuffer
    <3>2. s \in {entries[k] : k \in 1 .. total} \ {Unset}
      BY <2>2, <3>1
    <3>3. PICK k \in 1 .. total : entries[k] = s /\ s # Unset
      BY <3>2
    <3> QED
      BY <2>5, <3>1, <3>3
  <2>7. ListsDirectory
    <3> SUFFICES ASSUME removed = {}
                 PROVE  /\ {out[k].name : k \in DOMAIN out} = {n \in atOpen : Listed(n)}
                        /\ \A k, m \in DOMAIN out : k < m => InOrder(out[k].name, out[m].name)
                        /\ \A k \in DOMAIN out : out[k].details = out[k].name
      BY DEF ListsDirectory
    <3>1. \A k \in 1 .. total : entries[k] # Unset
      BY <1>1 DEF AtLeast
    <3>2. {out[k].name : k \in DOMAIN out} = {NameOf(k) : k \in 1 .. total}
      BY <1>2, <3>1
    <3>3. {NameOf(k) : k \in 1 .. total} = {n \in atOpen : Listed(n)}
      <4>1. \A k \in 1 .. total : NameOf(k) \in atOpen /\ Listed(NameOf(k))
        BY <2>4, <2>5, <3>1
      <4>2. \A n \in atOpen : Listed(n) => \E k \in 1 .. total : NameOf(k) = n
        BY <1>3, <2>6
      <4> QED
        BY <4>1, <4>2
    <3>4. \A k, m \in 1 .. total : k < m => InOrder(NameOf(k), NameOf(m))
      <4>1. \A k, m \in 1 .. total : k < m => InOrder(buffer[entries[k]], buffer[entries[m]])
        BY <1>1, <2>1 DEF PointsInOrder
      <4> QED
        BY <2>5, <3>1, <4>1
    <3> QED
      BY <1>2, <3>1, <3>2, <3>3, <3>4
  <2>8. ASSUME NEW n \in atOpen \ removed, Listed(n)
        PROVE  Cardinality({k \in DOMAIN out : out[k].name = n}) \in 1 .. 1 + Cardinality(LeftUnset)
    <3>1. n \in present
      BY <1>1 DEF Changed
    <3>2. PICK k \in 1 .. total : entries[k] # Unset /\ NameOf(k) = n
      BY <2>6, <2>8, <3>1
    <3>3. n # NoName
      BY <2>4, <2>5, <3>2 DEF NoName
    <3>4. ASSUME NEW m \in 1 .. total, out[m].name = n, m \notin LeftUnset
          PROVE  m = k
      <4>1. entries[m] # Unset /\ NameOf(m) = n
        BY <1>2, <3>4 DEF LeftUnset
      <4>2. /\ entries[m] \in 1 .. filled /\ entries[k] \in 1 .. filled
            /\ buffer[entries[m]] = buffer[entries[k]]
        BY <2>5, <3>2, <4>1
      <4>3. ~(entries[m] < entries[k]) /\ ~(entries[k] < entries[m])
        BY <2>3, <2>4, <4>2
      <4>4. entries[m] = entries[k]
        BY <2>4, <4>2, <4>3
      <4> QED
        BY <2>2, <4>1, <4>4
    <3> DEFINE Lines == {m \in DOMAIN out : out[m].name = n}
    <3>5. {k} \subseteq Lines /\ Lines \subseteq LeftUnset \cup {k} /\ k \notin LeftUnset
      BY <1>2, <3>2, <3>4 DEF LeftUnset
    <3>6. IsFiniteSet(LeftUnset) /\ Cardinality(LeftUnset) \in Nat
      <4>1. LeftUnset \in SUBSET (1 .. total)
        BY DEF LeftUnset
      <4> QED
        BY <1>2, <4>1, SlotsFinite
    <3>7. /\ IsFiniteSet(LeftUnset \cup {k})
          /\ Cardinality(LeftUnset \cup {k}) = Cardinality(LeftUnset) + 1
      BY <3>5, <3>6, FS_AddElement
    <3> HIDE DEF Lines
    <3>8. /\ IsFiniteSet(Lines) /\ Cardinality(Lines) \in Nat
          /\ Cardinality(Lines) <= Cardinality(LeftUnset \cup {k})
      BY <3>5, <3>7, FS_Subset, FS_CardinalityType
    <3>9. Cardinality({k}) = 1 /\ Cardinality({k}) <= Cardinality(Lines)
      BY <3>5, <3>8, FS_Singleton, FS_Subset
    <3> QED
      BY <3>6, <3>7, <3>8, <3>9 DEF Lines
  <2> QED
    BY <2>7, <2>8 DEF SurvivorsListed
<1> QED
  BY <1>4, <1>5

\* In every run the two readings of the directory agree when nobody changes it: the
\* array of ls is not overrun unless a file was created, holds no stray pointer
\* unless one was removed, and ls crashes for no other reason but a file without
\* owner.
THEOREM ListDirInvariantHolds == Spec => []ListDirInvariant
<1>1. Init => IInv
  BY InitIInv
<1>2. IInv /\ [Next]_vars => IInv'
  BY StepIInv
<1>3. IInv => ListDirInvariant
  BY IInvMemory
<1> QED
  BY <1>1, <1>2, <1>3, PTL DEF Spec

\* In every run a directory that fits the buffer of the stream and is left alone is
\* listed whole, once and in order; if files are removed, the others are listed,
\* twice only if an element of the array was left unset.
THEOREM ListingCompleteHolds == Spec => []ListingComplete
<1>1. Init => IInv
  BY InitIInv
<1>2. IInv /\ [Next]_vars => IInv'
  BY StepIInv
<1>3. IInv => ListingComplete
  BY IInvListing
<1> QED
  BY <1>1, <1>2, <1>3, PTL DEF Spec

=============================================================================
