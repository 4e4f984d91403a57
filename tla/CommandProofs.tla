---------------------------- MODULE CommandProofs ----------------------------
(***************************************************************************)
(* What is proved of three commands of the console: the sort of ls -S, for *)
(* every number of entries, every set of sizes and every width of int;     *)
(* tac, for every file, every stack and every growth of the file; dirname, *)
(* for every set of paths.  And of the laboratory programs: LabResults,    *)
(* for any length of the file and of the pipe, any number of threads, any  *)
(* answers and any contents of the file moved.                             *)
(***************************************************************************)
EXTENDS MCCommands, SequenceTheorems, TLAPS

-----------------------------------------------------------------------------
(* ls -S *)

\* Storing an off_t in an int yields an integer.
LEMMA ToIntType ==
  ASSUME NEW size \in Sizes
  PROVE  ToInt(size) \in Int
BY SortAssumption DEF ToInt

\* A size below half the range of int is stored unchanged.
LEMMA ToIntFits ==
  ASSUME NEW size \in Sizes, 2 * size < IntMod
  PROVE  ToInt(size) = size
<1>1. size \in Nat /\ IntMod \in Nat \ {0} /\ size < IntMod
  BY SortAssumption
<1>2. size % IntMod = size
  BY <1>1
<1> QED BY <1>1, <1>2 DEF ToInt

\* A swap of neighbours permutes the array.
LEMMA SwappedPermutes ==
  ASSUME NEW a \in [Entry -> Entry], NEW p \in Entry, p + 1 \in Entry,
         \A m, k \in Entry : a[m] = a[k] => m = k,
         \A e \in Entry : \E k \in Entry : a[k] = e
  PROVE  /\ \A m, k \in Entry : Swapped(a, p)[m] = Swapped(a, p)[k] => m = k
         /\ \A e \in Entry : \E k \in Entry : Swapped(a, p)[k] = e
<1> DEFINE b == Swapped(a, p)
<1>1. /\ b[p] = a[p + 1]
      /\ b[p + 1] = a[p]
      /\ \A k \in Entry : k # p /\ k # p + 1 => b[k] = a[k]
  BY DEF Swapped, Entry
<1> HIDE DEF b
<1>2. \A m, k \in Entry : b[m] = b[k] => m = k
  BY <1>1
<1>3. ASSUME NEW e \in Entry
      PROVE  \E k \in Entry : b[k] = e
  <2>1. PICK k \in Entry : a[k] = e
    OBVIOUS
  <2>2. CASE k = p
    BY <1>1, <2>1, <2>2
  <2>3. CASE k = p + 1
    BY <1>1, <2>1, <2>3
  <2>4. CASE k # p /\ k # p + 1
    BY <1>1, <2>1, <2>4
  <2> QED BY <2>2, <2>3, <2>4
<1> QED BY <1>2, <1>3 DEF b

\* The initial state satisfies the invariant.
LEMMA SortInitInvariant == SortInit => SortInvariant
BY SortAssumption
DEF SortInit, SortInvariant, SortTypeOK, IsPermutation, InStep, StatPart, LoopBounds,
    PassPart, Stable, DonePart, Entry

\* One round of the stat loop preserves the invariant.
LEMMA StatEntryInvariant == SortInvariant /\ StatEntry => SortInvariant'
<1> SUFFICES ASSUME SortInvariant, StatEntry
             PROVE  SortInvariant'
  OBVIOUS
<1>1. i + 1 \in Entry /\ i \in 0 .. N /\ N \in Nat /\ entries[i + 1] = i + 1
  BY SortAssumption DEF StatEntry, Entry, SortInvariant, SortTypeOK, StatPart
<1>2. PICK size \in Sizes :
        /\ i + 1 \notin gone => size = fileSize[i + 1]
        /\ entriesSize' = [entriesSize EXCEPT ![i + 1] = ToInt(size)]
        /\ key' = [key EXCEPT ![i + 1] = ToInt(size)]
  BY <1>1 DEF StatEntry
<1>3. ToInt(size) \in Int
  BY ToIntType
<1>4. SortTypeOK'
  BY <1>1, <1>2, <1>3 DEF SortInvariant, SortTypeOK, StatEntry
<1>5. IsPermutation'
  BY DEF SortInvariant, IsPermutation, StatEntry
<1>6. InStep'
  BY <1>1, <1>2, <1>3 DEF SortInvariant, SortTypeOK, InStep, StatPart, StatEntry, Entry
<1>7. StatPart'
  <2>1. sortPc' = "stat" /\ j' = 0 /\ \A k \in Entry : entries'[k] = k
    BY DEF SortInvariant, StatPart, StatEntry
  <2>2. ASSUME NEW e \in Entry \ gone, e <= i + 1
        PROVE  key'[e] = ToInt(fileSize[e])
    <3>1. CASE e = i + 1
      BY <1>1, <1>2, <3>1 DEF SortInvariant, SortTypeOK
    <3>2. CASE e <= i
      BY <1>1, <1>2, <3>2 DEF SortInvariant, SortTypeOK, StatPart, StatEntry
    <3> QED BY <1>1, <2>2, <3>1, <3>2 DEF Entry
  <2> QED BY <2>1, <2>2 DEF StatPart, StatEntry
<1> QED BY <1>4, <1>5, <1>6, <1>7
        DEF SortInvariant, StatEntry, LoopBounds, PassPart, Stable, DonePart

\* One comparison of the inner loop preserves the invariant.
LEMMA CompareInvariant == SortInvariant /\ Compare => SortInvariant'
<1> SUFFICES ASSUME SortInvariant, Compare
             PROVE  SortInvariant'
  OBVIOUS
<1> DEFINE p == j + 1
<1>1. /\ N \in Nat /\ i \in 0 .. N /\ j \in 0 .. N
      /\ i < N /\ j < N - i - 1
      /\ p \in Entry /\ p + 1 \in Entry /\ p < N - i /\ p \in Nat
      /\ j + 2 = p + 1 /\ p # p + 1
  BY SortAssumption DEF Compare, InnerLoop, OutOfOrder, SizesSwapped, Entry,
                        SortInvariant, SortTypeOK
<1>2. /\ entries \in [Entry -> Entry] /\ entriesSize \in [Entry -> Int]
      /\ key \in [Entry -> Int] /\ gone \subseteq Entry
      /\ fileSize \in [Entry -> Sizes]
  BY DEF SortInvariant, SortTypeOK
<1>3. sortPc = "sort" /\ sortPc' = "sort" /\ i' = i /\ j' = p /\ key' = key
      /\ fileSize' = fileSize /\ gone' = gone
  BY DEF Compare, InnerLoop, OutOfOrder, SizesSwapped
<1>4. /\ \A k \in Entry : entriesSize[k] = key[entries[k]]
      /\ \A k, m \in Entry :
           k > N - i /\ m < k => entriesSize[m] >= entriesSize[k]
      /\ \A m \in Entry : m <= j => entriesSize[m] >= entriesSize[p]
      /\ \A m, k \in Entry :
           m < k /\ entriesSize[m] = entriesSize[k] => entries[m] < entries[k]
  BY <1>1, <1>3 DEF SortInvariant, InStep, PassPart, Stable
<1>5. StatPart' /\ LoopBounds' /\ DonePart'
  BY <1>1, <1>3 DEF SortInvariant, StatPart, LoopBounds, DonePart
<1>6. CASE entriesSize[p] < entriesSize[p + 1]
  <2>1. /\ entries' = Swapped(entries, p)
        /\ entriesSize' = Swapped(entriesSize, p)
    BY <1>1, <1>6 DEF Compare, InnerLoop, OutOfOrder, SizesSwapped
  <2>2. /\ entries' \in [Entry -> Entry]
        /\ entries'[p] = entries[p + 1] /\ entries'[p + 1] = entries[p]
        /\ \A k \in Entry : k # p /\ k # p + 1 => entries'[k] = entries[k]
    BY <1>1, <1>2, <2>1 DEF Swapped
  <2>3. /\ entriesSize' \in [Entry -> Int]
        /\ entriesSize'[p] = entriesSize[p + 1]
        /\ entriesSize'[p + 1] = entriesSize[p]
        /\ \A k \in Entry : k # p /\ k # p + 1 => entriesSize'[k] = entriesSize[k]
    BY <1>1, <1>2, <2>1 DEF Swapped
  <2>4. IsPermutation'
    <3>1. /\ \A m, k \in Entry : entries[m] = entries[k] => m = k
          /\ \A e \in Entry : \E k \in Entry : entries[k] = e
      BY DEF SortInvariant, IsPermutation
    <3> HIDE DEF p
    <3>3. entries \in [Entry -> Entry] /\ p \in Entry /\ p + 1 \in Entry
      BY <1>1, <1>2
    <3>2. /\ \A m, k \in Entry :
               Swapped(entries, p)[m] = Swapped(entries, p)[k] => m = k
          /\ \A e \in Entry : \E k \in Entry : Swapped(entries, p)[k] = e
      BY <3>3, <3>1, SwappedPermutes
    <3> QED BY <2>1, <3>2 DEF IsPermutation
  <2> HIDE DEF p
  <2>5. InStep'
    BY <1>1, <1>2, <1>3, <1>4, <2>2, <2>3 DEF InStep
  <2>6. PassPart'
    <3>1. ASSUME NEW k \in Entry, NEW m \in Entry, k > N - i, m < k
          PROVE  entriesSize'[m] >= entriesSize'[k]
      <4>1. m \in Nat /\ k \in Nat /\ k # p /\ k # p + 1
        BY <1>1, <3>1 DEF Entry
      <4>2. p < k /\ p + 1 < k
        BY <1>1, <3>1, <4>1
      <4>3. CASE m = p \/ m = p + 1
        BY <1>1, <1>4, <2>3, <3>1, <4>1, <4>2, <4>3
      <4>4. CASE m # p /\ m # p + 1
        BY <1>1, <1>4, <2>3, <3>1, <4>1, <4>4
      <4> QED BY <4>3, <4>4
    <3>2. ASSUME NEW m \in Entry, m <= p
          PROVE  entriesSize'[m] >= entriesSize'[p + 1]
      <4>1. CASE m = p
        BY <1>1, <1>2, <1>6, <2>3, <4>1
      <4>2. CASE m # p
        <5>1. m \in Nat /\ m <= j /\ m # p + 1
          BY <1>1, <3>2, <4>2 DEF Entry, p
        <5> QED BY <1>4, <2>3, <4>2, <5>1
      <4> QED BY <4>1, <4>2
    <3> QED BY <1>3, <3>1, <3>2 DEF PassPart
  <2>7. Stable'
    <3> SUFFICES ASSUME NEW m \in Entry, NEW k \in Entry, m < k,
                        entriesSize'[m] = entriesSize'[k]
                 PROVE  entries'[m] < entries'[k]
      BY DEF Stable
    <3>1. m \in Nat /\ k \in Nat /\ p \in Nat
      BY <1>1 DEF Entry
    <3>2. CASE m = p \/ m = p + 1 \/ k = p \/ k = p + 1
      <4>1. ~(m = p /\ k = p + 1)
        BY <1>2, <1>6, <1>1, <2>3
      <4>2. CASE m = p
        <5>1. k # p /\ k # p + 1 /\ p + 1 < k
          BY <3>1, <4>1, <4>2
        <5> QED BY <1>1, <1>4, <2>2, <2>3, <4>2, <5>1
      <4>3. CASE m = p + 1
        BY <1>1, <1>2, <1>4, <2>2, <2>3, <3>1, <4>3
      <4>4. CASE k = p
        BY <1>1, <1>2, <1>4, <2>2, <2>3, <3>1, <4>4
      <4>5. CASE k = p + 1 /\ m # p
        BY <1>1, <1>2, <1>4, <2>2, <2>3, <3>1, <4>5
      <4> QED BY <3>2, <4>1, <4>2, <4>3, <4>4, <4>5
    <3>3. CASE m # p /\ m # p + 1 /\ k # p /\ k # p + 1
      BY <1>2, <1>4, <2>2, <2>3, <3>3
    <3> QED BY <3>2, <3>3
  <2>8. SortTypeOK'
    BY <1>1, <1>2, <1>3, <2>2, <2>3 DEF SortTypeOK, p
  <2> QED BY <1>5, <2>4, <2>5, <2>6, <2>7, <2>8 DEF SortInvariant
<1>7. CASE ~(entriesSize[p] < entriesSize[p + 1])
  <2>1. entries' = entries /\ entriesSize' = entriesSize
    BY <1>1, <1>7 DEF Compare, InnerLoop, OutOfOrder, SizesSwapped
  <2>2. PassPart'
    <3>1. ASSUME NEW m \in Entry, m <= p
          PROVE  entriesSize[m] >= entriesSize[p + 1]
      <4>1. entriesSize[p] \in Int /\ entriesSize[p + 1] \in Int
            /\ entriesSize[m] \in Int /\ entriesSize[p] >= entriesSize[p + 1]
        BY <1>1, <1>2, <1>7
      <4>2. m <= j \/ m = p
        BY <1>1, <3>1 DEF Entry
      <4> QED BY <1>4, <4>1, <4>2
    <3> QED BY <1>1, <1>3, <1>4, <2>1, <3>1 DEF PassPart
  <2> QED BY <1>1, <1>2, <1>3, <1>5, <2>1, <2>2
          DEF SortInvariant, SortTypeOK, IsPermutation, InStep, Stable
<1> QED BY <1>6, <1>7

\* The end of a pass preserves the invariant: one more position is final.
LEMMA NextPassInvariant == SortInvariant /\ NextPass => SortInvariant'
<1> SUFFICES ASSUME SortInvariant, NextPass
             PROVE  SortInvariant'
  OBVIOUS
<1>1. /\ N \in Nat /\ i \in 0 .. N /\ i < N /\ j = N - i - 1
      /\ sortPc = "sort" /\ sortPc' = "sort" /\ i' = i + 1 /\ j' = 0
      /\ entries' = entries /\ entriesSize' = entriesSize
      /\ key' = key /\ fileSize' = fileSize /\ gone' = gone
  BY SortAssumption DEF NextPass, InnerLoop, SortInvariant, SortTypeOK, LoopBounds
<1>2. entriesSize \in [Entry -> Int]
  BY DEF SortInvariant, SortTypeOK
<1>3. PassPart'
  <2>1. ASSUME NEW k \in Entry, NEW m \in Entry, k > N - (i + 1), m < k
        PROVE  entriesSize[m] >= entriesSize[k]
    <3>1. CASE k > N - i
      BY <1>1, <2>1, <3>1 DEF SortInvariant, PassPart
    <3>2. CASE k = j + 1
      BY <1>1, <2>1, <3>2 DEF SortInvariant, PassPart, Entry
    <3> QED BY <1>1, <2>1, <3>1, <3>2 DEF Entry
  <2>2. ASSUME NEW m \in Entry, m <= 0
        PROVE  FALSE
    BY <2>2 DEF Entry
  <2> QED BY <1>1, <2>1, <2>2 DEF PassPart
<1> QED BY <1>1, <1>3
        DEF SortInvariant, SortTypeOK, IsPermutation, InStep, StatPart, LoopBounds,
            Stable, DonePart

\* The steps between the loops preserve the invariant.
LEMMA PhaseInvariant ==
  SortInvariant /\ (StatsDone \/ SortDone \/ UNCHANGED sortVars) => SortInvariant'
<1>1. ASSUME SortInvariant, StatsDone
      PROVE  SortInvariant'
  <2>1. /\ N \in Nat /\ i = N /\ j = 0 /\ sortPc = "stat"
        /\ sortPc' = "sort" /\ i' = 0 /\ j' = j /\ gone' = gone
        /\ entries' = entries /\ entriesSize' = entriesSize
        /\ key' = key /\ fileSize' = fileSize
        /\ \A k \in Entry : entries[k] = k
    BY <1>1, SortAssumption DEF StatsDone, SortInvariant, StatPart
  <2>2. PassPart' /\ LoopBounds'
    BY <2>1 DEF PassPart, LoopBounds, Entry
  <2>3. Stable'
    BY <2>1 DEF Stable
  <2>4. StatPart' /\ InStep'
    BY <1>1, <2>1 DEF SortInvariant, StatPart, InStep, Entry
  <2> QED BY <1>1, <2>1, <2>2, <2>3, <2>4
          DEF SortInvariant, SortTypeOK, IsPermutation, DonePart
<1>2. ASSUME SortInvariant, SortDone
      PROVE  SortInvariant'
  <2>1. /\ N \in Nat /\ i = N /\ sortPc = "sort" /\ sortPc' = "done"
        /\ UNCHANGED <<fileSize, gone, i, j, entries, entriesSize, key>>
    BY <1>2, SortAssumption DEF SortDone
  <2>2. DonePart'
    <3>1. \A k, m \in Entry :
            k > N - i /\ m < k => entriesSize[m] >= entriesSize[k]
      BY <1>2, <2>1 DEF SortInvariant, PassPart
    <3>2. \A k \in Entry : k > N - i
      BY <2>1 DEF Entry
    <3> QED BY <2>1, <3>1, <3>2 DEF DonePart
  <2> QED BY <1>2, <2>1, <2>2
          DEF SortInvariant, SortTypeOK, IsPermutation, InStep, StatPart, LoopBounds,
              PassPart, Stable
<1>3. ASSUME SortInvariant, UNCHANGED sortVars
      PROVE  SortInvariant'
  BY <1>3
  DEF sortVars, SortInvariant, SortTypeOK, IsPermutation, InStep, StatPart, LoopBounds,
      PassPart, Stable, DonePart
<1> QED BY <1>1, <1>2, <1>3

\* The inductive invariant of the bubble sort holds in every reachable state.
THEOREM SortInvariantHolds == SortSpec => []SortInvariant
<1>1. SortInvariant /\ [SortNext]_sortVars => SortInvariant'
  BY StatEntryInvariant, CompareInvariant, NextPassInvariant, PhaseInvariant
  DEF SortNext, SortFinished
<1> QED BY SortInitInvariant, <1>1, PTL DEF SortSpec

\* The output of ls -S is sorted by the sizes read, and entries of one size
\* keep the order of the directory.
THEOREM SortedBySizeHolds == SortSpec => []SortedBySize
<1>1. SortInvariant => SortedBySize
  <2> SUFFICES ASSUME SortInvariant, sortPc = "done",
                      NEW m \in Entry, NEW k \in Entry, m < k
               PROVE  \/ key[entries[m]] > key[entries[k]]
                      \/ /\ key[entries[m]] = key[entries[k]]
                         /\ entries[m] < entries[k]
    BY DEF SortedBySize
  <2>1. /\ entriesSize[m] = key[entries[m]]
        /\ entriesSize[k] = key[entries[k]]
        /\ entriesSize[m] >= entriesSize[k]
        /\ entriesSize[m] = entriesSize[k] => entries[m] < entries[k]
        /\ entriesSize[m] \in Int /\ entriesSize[k] \in Int
    BY DEF SortInvariant, SortTypeOK, InStep, Stable, DonePart
  <2> QED BY <2>1
<1> QED BY SortInvariantHolds, <1>1, PTL

\* When every size fits an int, ls -S lists the files it could stat from the
\* largest to the smallest, as the usage comment promises.
THEOREM LargestFirstHolds ==
  (\A size \in Sizes : 2 * size < IntMod) => (SortSpec => []LargestFirst)
<1> SUFFICES ASSUME \A size \in Sizes : 2 * size < IntMod
             PROVE  SortSpec => []LargestFirst
  OBVIOUS
<1>1. SortInvariant => LargestFirst
  <2> SUFFICES ASSUME SortInvariant, sortPc = "done",
                      NEW m \in Entry, NEW k \in Entry, m < k,
                      entries[m] \notin gone, entries[k] \notin gone
               PROVE  fileSize[entries[m]] >= fileSize[entries[k]]
    BY DEF LargestFirst
  <2>1. /\ entries[m] \in Entry /\ entries[k] \in Entry
        /\ fileSize[entries[m]] \in Sizes /\ fileSize[entries[k]] \in Sizes
    BY DEF SortInvariant, SortTypeOK
  <2>2. /\ key[entries[m]] = fileSize[entries[m]]
        /\ key[entries[k]] = fileSize[entries[k]]
    BY <2>1, ToIntFits DEF SortInvariant, StatPart
  <2> QED BY <2>2 DEF SortInvariant, InStep, DonePart
<1> QED BY SortInvariantHolds, <1>1, PTL

-----------------------------------------------------------------------------
(* tac *)

\* The initial state satisfies the invariant.
LEMMA TacInitInvariant == Init => TacInvariant
<1> SUFFICES ASSUME Init PROVE TacInvariant
  OBVIOUS
<1>1. file \in Seq(Line) /\ atOpen \in Seq(Line) /\ WellFormed(file)
  BY DEF Init, Files
<1>2. TypeOK
  <2>1. modifierB \in BOOLEAN /\ eof \in BOOLEAN
    BY DEF Init
  <2>2. /\ stack \in Seq(Frame) /\ Len(stack) <= StackLimit /\ offset \in Nat
        /\ buffers \subseteq Nat /\ out \in Seq(LinePiece) /\ read \in Seq(Line)
    BY TacAssumption DEF Init
  <2> QED BY <1>1, <2>1, <2>2 DEF Init, TypeOK
<1>3. StackAndOutput /\ BuffersHeld /\ ReadsPrefix
  BY <1>1 DEF Init, StackAndOutput, BuffersHeld, ReadsPrefix
<1>4. GrowthPart /\ CrashNeedsLongFile
  BY <1>1 DEF Init, GrowthPart, CrashNeedsLongFile
<1> QED BY <1>2, <1>3, <1>4 DEF TacInvariant

\* getline returns a line: it goes to the top of the stack.
LEMMA ReadLineInvariant == TacInvariant /\ ReadLine => TacInvariant'
<1> SUFFICES ASSUME TacInvariant, ReadLine PROVE TacInvariant'
  OBVIOUS
<1> USE DEF TacInvariant
<1> DEFINE scanned == file[offset + 1]
           frame == [text |-> scanned.text, nl |-> scanned.nl /\ ~modifierB,
                     hadNL |-> modifierB /\ scanned.nl]
<1>1. /\ stack' = Append(stack, frame) /\ read' = Append(read, scanned)
      /\ eof' = ~scanned.nl /\ offset' = offset + 1
      /\ buffers' = buffers \cup {Len(stack')}
      /\ file' = file /\ modifierB' = modifierB /\ pc' = pc /\ out' = out
      /\ atOpen' = atOpen
      /\ pc = "call" /\ Len(stack) < StackLimit /\ ~eof /\ offset < Len(file)
  BY DEF ReadLine, RoomForCall, AtEnd, TypeOK
<1>2. scanned \in Line /\ offset = Len(read) /\ offset + 1 \in 1 .. Len(file)
  BY <1>1 DEF TypeOK, ReadsPrefix
<1>3. frame \in Frame /\ frame = FrameOf(scanned)
  BY <1>2 DEF Line, Frame, FrameOf, TypeOK
<1>4. /\ Len(stack') = Len(stack) + 1 /\ Len(read') = Len(read) + 1
      /\ stack' \in Seq(Frame) /\ read' \in Seq(Line)
      /\ \A k \in 1 .. Len(stack) : stack'[k] = stack[k]
      /\ \A k \in 1 .. Len(read) : read'[k] = read[k]
      /\ stack'[Len(stack) + 1] = frame /\ read'[Len(read) + 1] = scanned
  <2> HIDE DEF scanned, frame
  <2> QED BY <1>1, <1>2, <1>3 DEF TypeOK
<1> HIDE DEF scanned, frame
<1>5. TypeOK'
  <2>1. eof' \in BOOLEAN /\ modifierB' \in BOOLEAN
    BY <1>1 DEF TypeOK
  <2>2. /\ Len(stack') <= StackLimit /\ offset' \in Nat
        /\ Len(stack') \in Nat
    BY <1>1, <1>4, TacAssumption DEF TypeOK
  <2>3. buffers' \subseteq Nat
    BY <1>1, <2>2 DEF TypeOK
  <2> QED BY <1>1, <1>4, <2>1, <2>2, <2>3 DEF TypeOK
<1>6. StackAndOutput'
  <2>1. Len(stack) \in Nat /\ Len(read) = Len(stack) /\ out = <<>>
    BY <1>1 DEF StackAndOutput, TypeOK
  <2>2. \A k \in 1 .. Len(stack') : stack'[k] = FrameOf(read'[k])
    BY <1>3, <1>4, <2>1 DEF StackAndOutput
  <2>3. (\A k \in 1 .. Len(stack) : stack[k] = FrameOf(read[k]))'
    BY <1>1, <2>2 DEF FrameOf
  <2>4. Len(stack') + Len(out') = Len(read') /\ pc' # "done" /\ out' = <<>>
    BY <1>1, <1>4, <2>1
  <2>5. (\A k \in 1 .. Len(out) : out[k] = PieceOf(read[Len(read) + 1 - k]))'
    BY <2>4
  <2> QED BY <2>3, <2>4, <2>5 DEF StackAndOutput
<1>7. BuffersHeld'
  BY <1>1, <1>4 DEF BuffersHeld, TypeOK
<1>8. ReadsPrefix'
  <2>1. Len(read) \in Nat /\ Len(file) \in Nat
    BY DEF TypeOK
  <2>2. scanned = file[Len(read) + 1]
    BY <1>2 DEF scanned
  <2>3. \A k \in 1 .. Len(read) : read[k].nl
    BY <1>1 DEF ReadsPrefix
  <2>4. ASSUME NEW k \in 1 .. Len(read')
        PROVE  /\ read'[k].text = file[k].text
               /\ read'[k].nl => file[k].nl
               /\ k < Len(read') \/ scanned.nl => read'[k].nl
    <3>1. CASE k \in 1 .. Len(read)
      BY <1>4, <2>1, <2>3, <3>1 DEF ReadsPrefix
    <3>2. CASE k = Len(read) + 1
      BY <1>4, <2>1, <2>2, <3>2
    <3> QED BY <1>4, <2>1, <3>1, <3>2
  <2>5. offset' = Len(read') /\ offset' <= Len(file')
    BY <1>1, <1>2, <1>4, <2>1
  <2> QED BY <1>1, <2>4, <2>5 DEF ReadsPrefix
<1>9. GrowthPart'
  BY <1>1, <1>2, <1>4 DEF GrowthPart, WellFormed, TypeOK, scanned
<1>10. CrashNeedsLongFile'
  BY <1>1 DEF CrashNeedsLongFile
<1> QED BY <1>5, <1>6, <1>7, <1>8, <1>9, <1>10

\* A call returns: its line moves from the top of the stack to the output.
LEMMA ReturnInvariant == TacInvariant /\ Return => TacInvariant'
<1> SUFFICES ASSUME TacInvariant, Return PROVE TacInvariant'
  OBVIOUS
<1> USE DEF TacInvariant
<1> DEFINE n == Len(stack)
           piece == [before |-> Top.hadNL, text |-> Top.text, after |-> Top.nl]
<1>1. /\ out' = Append(out, piece) /\ buffers' = buffers \ {n}
      /\ stack' = SubSeq(stack, 1, n - 1)
      /\ UNCHANGED <<file, modifierB, pc, offset, eof, read, atOpen>>
      /\ pc = "return" /\ stack # <<>>
  BY DEF Return, Printed
<1>2. n \in Nat /\ n >= 1 /\ n + Len(out) = Len(read) /\ Len(out) \in Nat
  BY <1>1 DEF TypeOK, StackAndOutput
<1>3. Top = FrameOf(read[n]) /\ read[n] \in Line
  BY <1>2 DEF StackAndOutput, Top, TypeOK
<1>4. piece = PieceOf(read[n]) /\ piece \in LinePiece
  BY <1>3 DEF FrameOf, PieceOf, LinePiece, Line, TypeOK
<1> HIDE DEF n, piece
<1>5. /\ Len(stack') = n - 1 /\ stack' \in Seq(Frame)
      /\ \A k \in 1 .. n - 1 : stack'[k] = stack[k]
  <2>1. stack \in Seq(Frame) /\ 1 \in 1 .. Len(stack) + 1
        /\ n - 1 \in 1 - 1 .. Len(stack)
    BY <1>2 DEF TypeOK, n
  <2> QED BY <1>1, <1>2, <2>1, SubSeqProperties
<1>6. /\ Len(out') = Len(out) + 1 /\ out' \in Seq(LinePiece)
      /\ \A k \in 1 .. Len(out) : out'[k] = out[k]
      /\ out'[Len(out) + 1] = piece
  BY <1>1, <1>4, AppendProperties DEF TypeOK
<1>7. TypeOK'
  <2>1. Len(stack') <= StackLimit
    BY <1>2, <1>5, TacAssumption DEF TypeOK, n
  <2>2. buffers' \subseteq Nat
    BY <1>1 DEF TypeOK
  <2> QED BY <1>1, <1>5, <1>6, <2>1, <2>2 DEF TypeOK
<1>8. StackAndOutput'
  <2>1. \A k \in 1 .. Len(out') : out'[k] = PieceOf(read[Len(read) + 1 - k])
    BY <1>2, <1>4, <1>6 DEF StackAndOutput
  <2>2. (\A k \in 1 .. Len(out) : out[k] = PieceOf(read[Len(read) + 1 - k]))'
    BY <1>1, <2>1 DEF PieceOf
  <2>3. \A k \in 1 .. Len(stack') : stack'[k] = FrameOf(read[k])
    BY <1>2, <1>5 DEF StackAndOutput, n
  <2>4. (\A k \in 1 .. Len(stack) : stack[k] = FrameOf(read[k]))'
    BY <1>1, <2>3 DEF FrameOf
  <2>5. Len(stack') + Len(out') = Len(read') /\ pc' = "return"
    BY <1>1, <1>2, <1>5, <1>6
  <2> QED BY <2>2, <2>4, <2>5 DEF StackAndOutput
<1>9. BuffersHeld'
  BY <1>1, <1>2, <1>5 DEF BuffersHeld, n
<1>10. ReadsPrefix' /\ GrowthPart' /\ CrashNeedsLongFile'
  BY <1>1 DEF ReadsPrefix, GrowthPart, WellFormed, CrashNeedsLongFile
<1> QED BY <1>7, <1>8, <1>9, <1>10

\* Another program appends to the file: what was read stays its beginning.
LEMMA GrowInvariant == TacInvariant /\ Grow => TacInvariant'
<1> SUFFICES ASSUME TacInvariant, Grow PROVE TacInvariant'
  OBVIOUS
<1> USE DEF TacInvariant
<1>1. /\ UNCHANGED <<modifierB, pc, offset, eof, stack, buffers, out, read, atOpen>>
      /\ pc \in {"call", "return"}
  BY DEF Grow
<1>2. /\ file' \in Seq(Line)
      /\ Len(file') >= Len(file)
      /\ \A k \in 1 .. Len(file) : /\ file'[k].text = file[k].text
                                   /\ file[k].nl => file'[k].nl
      /\ WellFormed(file')
  <2>1. file \in Seq(Line) /\ WellFormed(file)
    BY DEF TypeOK, GrowthPart
  <2>2. CASE /\ file # <<>> => file[Len(file)].nl
             /\ \E l \in Line : file' = Append(file, l)
    BY <2>1, <2>2 DEF WellFormed
  <2>3. CASE /\ file # <<>>
             /\ file' = [file EXCEPT ![Len(file)].nl = TRUE]
    <3> DEFINE n == Len(file)
    <3>1. n \in 1 .. n /\ file[n] \in Line
      BY <2>1, <2>3
    <3>2. /\ [file[n] EXCEPT !.nl = TRUE] \in Line
          /\ [file[n] EXCEPT !.nl = TRUE].text = file[n].text
          /\ [file[n] EXCEPT !.nl = TRUE].nl
      BY <3>1 DEF Line
    <3> DEFINE last == [file[n] EXCEPT !.nl = TRUE]
    <3>3. file' = [file EXCEPT ![n] = last] /\ last \in Line
      BY <2>3, <3>2
    <3> HIDE DEF last
    <3>4. /\ file' \in Seq(Line) /\ Len(file') = n
          /\ \A k \in 1 .. n : file'[k] = IF k = n THEN last ELSE file[k]
      BY <2>1, <3>1, <3>3, ExceptSeq
    <3>5. last.text = file[n].text /\ last.nl
      BY <3>2 DEF last
    <3>6. n \in Nat
      BY <2>1
    <3> HIDE DEF n
    <3>7. \A k \in 1 .. n : /\ file'[k].text = file[k].text
                            /\ file[k].nl => file'[k].nl
      BY <3>1, <3>4, <3>5
    <3>8. \A k \in 1 .. n - 1 : file'[k].nl
      BY <2>1, <3>4, <3>5, <3>6 DEF WellFormed, n
    <3> QED BY <3>4, <3>6, <3>7, <3>8 DEF WellFormed, n
  <2> QED BY <2>2, <2>3 DEF Grow
<1>3. TypeOK'
  BY <1>1, <1>2 DEF TypeOK
<1>4. StackAndOutput' /\ BuffersHeld'
  BY <1>1 DEF StackAndOutput, BuffersHeld, PieceOf, FrameOf
<1>5. ReadsPrefix'
  <2>1. Len(read) \in Nat /\ Len(file) \in Nat /\ Len(file') \in Nat
    BY <1>2 DEF TypeOK
  <2>2. offset = Len(read) /\ offset <= Len(file')
    BY <1>2, <2>1 DEF ReadsPrefix
  <2>3. \A k \in 1 .. Len(read) : k \in 1 .. Len(file)
    BY <2>1 DEF ReadsPrefix
  <2>4. \A k \in 1 .. Len(read) :
          /\ read[k].text = file'[k].text
          /\ read[k].nl => file'[k].nl
          /\ k < Len(read) \/ ~eof => read[k].nl
    BY <1>2, <2>3 DEF ReadsPrefix
  <2> QED BY <1>1, <2>2, <2>4 DEF ReadsPrefix
<1>6. GrowthPart' /\ CrashNeedsLongFile'
  BY <1>1, <1>2 DEF GrowthPart, CrashNeedsLongFile, TypeOK
<1> QED BY <1>3, <1>4, <1>5, <1>6

\* The remaining steps change where the program is.
LEMMA OtherInvariant ==
  TacInvariant /\ (ReadEnd \/ StackOverflow \/ Close \/ UNCHANGED vars) => TacInvariant'
<1> SUFFICES ASSUME TacInvariant,
                    ReadEnd \/ StackOverflow \/ Close \/ UNCHANGED vars
             PROVE  TacInvariant'
  OBVIOUS
<1> USE DEF TacInvariant
<1>1. CASE ReadEnd
  <2>1. /\ UNCHANGED <<file, modifierB, offset, stack, buffers, out, read, atOpen>>
        /\ pc = "call" /\ pc' = "return" /\ eof' = TRUE
        /\ eof \/ offset >= Len(file)
    BY <1>1 DEF ReadEnd, AtEnd, BuffersAtEnd
  <2>2. TypeOK' /\ StackAndOutput' /\ BuffersHeld'
    BY <2>1 DEF TypeOK, StackAndOutput, BuffersHeld, PieceOf, FrameOf
  <2>3. Len(read) >= Len(atOpen)
    BY <2>1 DEF GrowthPart, ReadsPrefix, TypeOK
  <2>4. ReadsPrefix' /\ GrowthPart' /\ CrashNeedsLongFile'
    BY <2>1, <2>3 DEF ReadsPrefix, GrowthPart, WellFormed, CrashNeedsLongFile
  <2> QED BY <2>2, <2>4
<1>2. CASE StackOverflow
  <2>1. /\ UNCHANGED <<file, modifierB, offset, eof, stack, buffers, out, read, atOpen>>
        /\ pc = "call" /\ pc' = "crashed" /\ Len(stack) >= StackLimit
    BY <1>2, TacAssumption DEF StackOverflow, RoomForCall, TypeOK
  <2>2. TypeOK' /\ StackAndOutput' /\ BuffersHeld'
    BY <2>1 DEF TypeOK, StackAndOutput, BuffersHeld, PieceOf, FrameOf
  <2>3. CrashNeedsLongFile'
    BY <2>1, TacAssumption DEF CrashNeedsLongFile, StackAndOutput, ReadsPrefix, TypeOK
  <2>4. ReadsPrefix' /\ GrowthPart'
    BY <2>1 DEF ReadsPrefix, GrowthPart, WellFormed
  <2> QED BY <2>2, <2>3, <2>4
<1>3. CASE Close
  <2>1. /\ UNCHANGED <<file, modifierB, offset, eof, stack, buffers, out, read, atOpen>>
        /\ pc = "return" /\ pc' = "done" /\ stack = <<>>
    BY <1>3 DEF Close
  <2>2. TypeOK' /\ StackAndOutput' /\ BuffersHeld'
    BY <2>1 DEF TypeOK, StackAndOutput, BuffersHeld, PieceOf, FrameOf
  <2>3. ReadsPrefix' /\ GrowthPart' /\ CrashNeedsLongFile'
    BY <2>1 DEF ReadsPrefix, GrowthPart, WellFormed, CrashNeedsLongFile
  <2> QED BY <2>2, <2>3
<1>4. CASE UNCHANGED vars
  BY <1>4 DEF vars, TypeOK, StackAndOutput, BuffersHeld, ReadsPrefix, GrowthPart,
              WellFormed, CrashNeedsLongFile, PieceOf, FrameOf
<1> QED BY <1>1, <1>2, <1>3, <1>4

\* TacInvariant holds in every reachable state.
THEOREM TacInvariantHolds == Spec => []TacInvariant
<1>1. TacInvariant /\ [Next]_vars => TacInvariant'
  <2> SUFFICES ASSUME TacInvariant, [Next]_vars PROVE TacInvariant'
    OBVIOUS
  <2>1. \/ ReadLine \/ Return \/ Grow
        \/ ReadEnd \/ StackOverflow \/ Close \/ UNCHANGED vars
    BY DEF Next, Calls, Finished
  <2> QED BY <2>1, ReadLineInvariant, ReturnInvariant, GrowInvariant, OtherInvariant
<1> QED BY <1>1, TacInitInvariant, PTL DEF Spec

\* When tac is done it has printed every line it read, last line first, and
\* freed every buffer.
THEOREM LastLineFirstHolds == Spec => []LastLineFirst
<1>1. TacInvariant => LastLineFirst
  BY DEF TacInvariant, TypeOK, StackAndOutput, BuffersHeld, LastLineFirst
<1> QED BY <1>1, TacInvariantHolds, PTL

\* tac reads every line that was in the file when it was opened.
THEOREM ReadsWholeFileHolds == Spec => []ReadsWholeFile
<1>1. TacInvariant => ReadsWholeFile
  <2> SUFFICES ASSUME TacInvariant, pc \in {"return", "done"}
               PROVE  /\ Len(read) >= Len(atOpen)
                      /\ \A k \in 1 .. Len(atOpen) : read[k].text = atOpen[k].text
    BY DEF ReadsWholeFile
  <2>1. Len(read) >= Len(atOpen) /\ Len(read) \in Nat /\ Len(atOpen) \in Nat
    BY DEF TacInvariant, TypeOK, GrowthPart
  <2>2. \A k \in 1 .. Len(read) : read[k].text = file[k].text
    BY DEF TacInvariant, ReadsPrefix
  <2>3. \A k \in 1 .. Len(atOpen) : file[k].text = atOpen[k].text
    BY DEF TacInvariant, GrowthPart
  <2> QED BY <2>1, <2>2, <2>3
<1> QED BY <1>1, TacInvariantHolds, PTL

-----------------------------------------------------------------------------
(* dirname *)

\* What the printed buffer shows: the n bytes written, or "." when n = 0.
LEMMA ShownPrefix ==
  ASSUME NEW buf \in [0 .. PATH_MAX - 1 -> Char \cup {NUL, Junk}],
         NEW n \in 0 .. PATH_MAX - 1,
         \A k \in 0 .. n - 1 : buf[k] \in Char
  PROVE  Shown(Terminated(buf, n)) =
           IF n = 0 THEN <<Dot>> ELSE [k \in 1 .. n |-> buf[k - 1]]
<1> DEFINE b == Terminated(buf, n)
           m == IF n = 0 THEN 1 ELSE n
<1> USE PathsAssumption
<1>1. /\ DOMAIN b = 0 .. PATH_MAX - 1
      /\ m \in 0 .. PATH_MAX - 1
      /\ b[m] = NUL
      /\ \A k \in 0 .. m - 1 : b[k] = IF n = 0 THEN Dot ELSE buf[k]
  BY DEF Terminated
<1>2. \A k \in 0 .. m - 1 : b[k] # NUL
  BY <1>1
<1>3. \A k \in DOMAIN b :
        (b[k] = NUL /\ \A h \in 0 .. k - 1 : b[h] # NUL) => k = m
  <2> SUFFICES ASSUME NEW k \in DOMAIN b, b[k] = NUL,
                      \A h \in 0 .. k - 1 : b[h] # NUL
               PROVE  k = m
    OBVIOUS
  <2>1. ~(k < m)
    BY <1>1, <1>2
  <2>2. ~(m < k)
    BY <1>1
  <2> QED
    BY <1>1, <2>1, <2>2
<1>4. (CHOOSE k \in DOMAIN b :
         b[k] = NUL /\ \A h \in 0 .. k - 1 : b[h] # NUL) = m
  <2> HIDE DEF b, m
  <2> QED
    BY <1>1, <1>2, <1>3
<1>5. Shown(b) = [k \in 1 .. m |-> b[k - 1]]
  <2> HIDE DEF b, m
  <2> QED
    BY <1>4 DEF Shown
<1>6. CASE n = 0
  BY <1>1, <1>5, <1>6
<1>7. CASE n # 0
  BY <1>1, <1>5, <1>7
<1> QED
  BY <1>6, <1>7

\* The inductive invariant of the scan loop holds in every reachable state.
THEOREM ScanInvariantHolds == DirnameSpec => []ScanInvariant
<1> USE PathsAssumption
<1>1. DirnameInit => ScanInvariant
  BY DEF DirnameInit, Fresh, ScanInvariant, DirnameTypeOK, PrintsDirectoryParts
<1>2. ScanInvariant /\ [DirnameNext]_dirnameVars => ScanInvariant'
  <2> SUFFICES ASSUME ScanInvariant, [DirnameNext]_dirnameVars
               PROVE  ScanInvariant'
    OBVIOUS
  <2> USE DEF ScanInvariant
  <2>1. CASE MissingOperand
    BY <2>1 DEF MissingOperand, DirnameTypeOK, PrintsDirectoryParts
  <2>2. CASE StartArgs
    BY <2>2 DEF StartArgs, DirnameTypeOK, PrintsDirectoryParts
  <2>3. CASE ScanChar
    <3> DEFINE path == argv[arg]
    <3>1. /\ path \in Paths
          /\ path \in Seq(Char)
          /\ Len(path) \in Nat
          /\ Len(path) < PATH_MAX
          /\ \A k \in 1 .. Len(path) : path[k] \in Char
      BY <2>3, SMTT(30) DEF ScanChar, AtSlash, Piece, DirnameTypeOK
    <3>2. /\ index \in 0 .. PATH_MAX - 1 /\ pathIndex \in Nat
          /\ index = 0 \/ (index < pathIndex /\ path[index + 1] = Slash)
          /\ \A k \in 0 .. index - 1 : pathName[k] = path[k + 1]
          /\ \A h \in 1 .. pathIndex - 1 : path[h + 1] = Slash => h <= index
          /\ pathName \in [0 .. PATH_MAX - 1 -> Char \cup {NUL, Junk}]
      BY <2>3 DEF ScanChar, AtSlash, Piece, DirnameTypeOK
    <3>3. /\ pathIndex' = pathIndex + 1
          /\ pathIndex < Len(path)
          /\ path[pathIndex + 1] = Slash =>
               /\ index' = pathIndex
               /\ pathName' = [k \in 0 .. PATH_MAX - 1 |->
                                 IF k \in index .. pathIndex - 1
                                   THEN path[k + 1] ELSE pathName[k]]
          /\ path[pathIndex + 1] # Slash => index' = index /\ pathName' = pathName
          /\ dirnamePc' = "scan" /\ arg' = arg /\ argv' = argv /\ directories' = directories
      <4>1. DOMAIN pathName = 0 .. PATH_MAX - 1
        BY <3>2
      <4>2. (IF index < pathIndex THEN pathIndex ELSE index) = pathIndex
        BY <3>2
      <4> QED
        BY <2>3, <4>1, <4>2 DEF ScanChar, AtSlash, Piece
    <3> HIDE DEF ScanInvariant, path
    <3>4. /\ pathName' \in [0 .. PATH_MAX - 1 -> Char \cup {NUL, Junk}]
          /\ \A k \in 0 .. index' - 1 : pathName'[k] = path[k + 1]
      <4>1. CASE path[pathIndex + 1] = Slash
        <5>1. \A k \in index .. pathIndex - 1 :
                 path[k + 1] \in Char /\ k \in 0 .. PATH_MAX - 1
          BY <3>1, <3>2, <3>3
        <5>2. pathName' \in [0 .. PATH_MAX - 1 -> Char \cup {NUL, Junk}]
          BY <3>2, <3>3, <4>1, <5>1
        <5>3. ASSUME NEW k \in 0 .. index' - 1
              PROVE  pathName'[k] = path[k + 1]
          <6>1. k \in 0 .. PATH_MAX - 1 /\ k < pathIndex /\ k \in Int
            BY <3>1, <3>2, <3>3, <4>1
          <6>2. CASE k < index
            BY <3>2, <3>3, <4>1, <6>1, <6>2
          <6>3. CASE ~(k < index)
            BY <3>2, <3>3, <4>1, <6>1, <6>3
          <6> QED
            BY <6>2, <6>3
        <5> QED
          BY <5>2, <5>3
      <4>2. CASE path[pathIndex + 1] # Slash
        BY <3>2, <3>3, <4>2
      <4> QED
        BY <4>1, <4>2
    <3>5. DirnameTypeOK'
      <4>1. index' \in 0 .. PATH_MAX - 1 /\ pathIndex' \in 0 .. PATH_MAX - 1
        BY <3>1, <3>2, <3>3
      <4>2. DirnameTypeOK /\ dirnamePc = "scan"
        BY <2>3 DEF ScanInvariant, ScanChar, AtSlash, Piece
      <4> QED
        BY <3>3, <3>4, <4>1, <4>2 DEF DirnameTypeOK
    <3>6. PrintsDirectoryParts'
      BY <2>3 DEF ScanChar, AtSlash, Piece, PrintsDirectoryParts, ScanInvariant
    <3>7. index' = 0 \/ (index' < pathIndex' /\ path[index' + 1] = Slash)
      BY <3>2, <3>3
    <3>8. \A h \in 1 .. pathIndex' - 1 : path[h + 1] = Slash => h <= index'
      <4> SUFFICES ASSUME NEW h \in 1 .. pathIndex, path[h + 1] = Slash
                   PROVE  h <= index'
        BY <3>2, <3>3
      <4>1. CASE h = pathIndex
        BY <3>2, <3>3, <4>1
      <4>2. CASE h # pathIndex
        BY <3>2, <3>3, <4>2
      <4> QED
        BY <4>1, <4>2
    <3>9. pathIndex' <= Len(path)
      BY <3>1, <3>2, <3>3
    <3>10. argv'[arg'] = path
      BY <3>3 DEF path
    <3> QED
      BY <3>3, <3>4, <3>5, <3>6, <3>7, <3>8, <3>9, <3>10 DEF ScanInvariant
  <2>4. CASE PrintDirectory
    <3> DEFINE path == argv[arg]
               shown == Shown(Terminated(pathName, index))
    <3>1. /\ arg \in 1 .. Len(argv)
          /\ path \in Paths
          /\ path \in Seq(Char)
          /\ pathIndex = Len(path)
          /\ Len(path) \in Nat
          /\ \A k \in 1 .. Len(path) : path[k] \in Char
          /\ index \in 0 .. PATH_MAX - 1
          /\ pathName \in [0 .. PATH_MAX - 1 -> Char \cup {NUL, Junk}]
      BY <2>4, SMTT(30) DEF PrintDirectory, NextArgument, MoreArguments, DirnameTypeOK
    <3>2. /\ index = 0 \/ (index < pathIndex /\ path[index + 1] = Slash)
          /\ \A k \in 0 .. index - 1 : pathName[k] = path[k + 1]
          /\ \A h \in 1 .. pathIndex - 1 : path[h + 1] = Slash => h <= index
      BY <2>4 DEF PrintDirectory, NextArgument, MoreArguments
    <3> HIDE DEF ScanInvariant, path
    <3>3. shown = IF index = 0 THEN <<Dot>> ELSE [k \in 1 .. index |-> pathName[k - 1]]
      <4>1. \A k \in 0 .. index - 1 : pathName[k] \in Char
        BY <3>1, <3>2
      <4> QED
        BY <3>1, <4>1, ShownPrefix
    <3> HIDE DEF shown
    <3>4. IsDirectoryPart(path, shown) /\ shown \in Seq(Char)
      <4>1. CASE index = 0
        BY <3>1, <3>2, <3>3, <4>1 DEF IsDirectoryPart
      <4>2. CASE index # 0
        <5>1. LastSlash(path, index)
          BY <3>1, <3>2, <4>2 DEF LastSlash
        <5>2. shown = SubSeq(path, 1, index) /\ shown \in Seq(Char)
          <6>1. index \in 1 .. Len(path)
            BY <3>1, <3>2, <4>2
          <6>2. SubSeq(path, 1, index) = [k \in 1 .. index |-> path[k]]
            BY <3>1, <6>1
          <6>3. shown = [k \in 1 .. index |-> path[k]]
            BY <3>2, <3>3, <4>2, <6>1
          <6>4. [k \in 1 .. index |-> path[k]] \in Seq(Char)
            BY <3>1, <6>1
          <6> QED
            BY <6>2, <6>3, <6>4
        <5> QED
          BY <3>1, <5>1, <5>2, <4>2 DEF IsDirectoryPart, LastSlash
      <4> QED
        BY <4>1, <4>2
    <3>5. /\ directories' = Append(directories, shown)
          /\ arg' = arg + 1 /\ argv' = argv
          /\ index' = 0 /\ pathIndex' = 0 /\ pathName' = Fresh
          /\ dirnamePc' = IF arg < Len(argv) THEN "scan" ELSE "done"
      <4>1. arg + 1 <= Len(argv) <=> arg < Len(argv)
        BY <3>1
      <4> QED
        BY <2>4, <4>1 DEF PrintDirectory, NextArgument, MoreArguments, shown
    <3>6. DirnameTypeOK'
      BY <3>1, <3>4, <3>5 DEF DirnameTypeOK, Fresh, ScanInvariant
    <3>7. PrintsDirectoryParts'
      <4>1. directories \in Seq(Seq(Char)) /\ Len(directories) = arg - 1
        BY DEF DirnameTypeOK, ScanInvariant, PrintsDirectoryParts
      <4>2. /\ Len(directories') = arg
            /\ \A n \in 1 .. Len(directories) : directories'[n] = directories[n]
            /\ directories'[arg] = shown
        BY <3>1, <3>5, <4>1
      <4>3. \A n \in 1 .. arg : IsDirectoryPart(argv[n], directories'[n])
        BY <3>1, <3>4, <4>1, <4>2 DEF path, ScanInvariant, PrintsDirectoryParts
      <4>4. Len(directories') = arg' - 1
        BY <3>1, <3>5, <4>2
      <4>5. \A n \in 1 .. Len(directories') : IsDirectoryPart(argv'[n], directories'[n])
        BY <3>5, <4>2, <4>3
      <4> QED
        BY <4>4, <4>5 DEF PrintsDirectoryParts
    <3>8. argv'[arg'] \in Paths \/ dirnamePc' = "done"
      BY <3>1, <3>5 DEF ScanInvariant, DirnameTypeOK
    <3>9. dirnamePc' = "scan" => 0 <= Len(argv'[arg'])
      BY <3>8
    <3> QED
      BY <3>5, <3>6, <3>7, <3>9 DEF ScanInvariant
  <2>5. CASE DirnameFinished \/ UNCHANGED dirnameVars
    BY <2>5 DEF DirnameFinished, dirnameVars, DirnameTypeOK, PrintsDirectoryParts
  <2> QED
    BY <2>1, <2>2, <2>3, <2>4, <2>5 DEF DirnameNext
<1> QED
  BY <1>1, <1>2, PTL DEF DirnameSpec

\* Every variable keeps its type and range: index and pathIndex stay inside
\* the array pathName for paths shorter than PATH_MAX.
THEOREM TypeCorrect == DirnameSpec => []DirnameTypeOK
<1>1. ScanInvariant => DirnameTypeOK
  BY DEF ScanInvariant
<1> QED
  BY <1>1, ScanInvariantHolds, PTL

\* The lines printed are the directory parts of the arguments, in order.
THEOREM DirectoryPartsCorrect == DirnameSpec => []PrintsDirectoryParts
<1>1. ScanInvariant => PrintsDirectoryParts
  BY DEF ScanInvariant
<1> QED
  BY <1>1, ScanInvariantHolds, PTL

\* The largest number of a set is the one that is chosen for it.
LEMMA Largest ==
  ASSUME NEW S \in SUBSET Nat, NEW n \in S, \A m \in S : m <= n
  PROVE  (CHOOSE k \in S : \A m \in S : m <= k) = n
<1>1. \A k \in S : (\A m \in S : m <= k) => k = n
  OBVIOUS
<1> QED
  BY <1>1

\* What is left of a sequence without its trailing slashes ends at its last other
\* character.
LEMMA StrippedEnds ==
  ASSUME NEW p \in Seq(Char), NEW n \in 1 .. Len(p), p[n] # Slash,
         \A m \in n + 1 .. Len(p) : p[m] = Slash
  PROVE  Stripped(p) = SubSeq(p, 1, n)
<1> DEFINE keep == {m \in 1 .. Len(p) : p[m] # Slash}
<1>1. keep \in SUBSET Nat /\ n \in keep /\ keep # {}
  OBVIOUS
<1>2. \A m \in keep : m <= n
  OBVIOUS
<1>3. Stripped(p) = SubSeq(p, 1, CHOOSE k \in keep : \A m \in keep : m <= k)
  BY <1>1 DEF Stripped
<1> HIDE DEF keep
<1> QED
  BY <1>1, <1>2, <1>3, Largest

\* Of a plain name, the directory part is what the manual page says.
LEMMA PlainDirectoryPart ==
  ASSUME NEW p \in Seq(Char), PlainName(p), NEW r, IsDirectoryPart(p, r)
  PROVE  r = ManPageDirname(p)
<1>1. Len(p) \in Nat /\ \A k \in 1 .. Len(p) : p[k] \in Char
  OBVIOUS
<1>2. \A k \in 1 .. Len(p) : p[k] = Slash => k > 1 /\ k < Len(p) /\ p[k - 1] # Slash
  BY DEF PlainName
<1>3. Stripped(<<>>) = <<>> /\ WithoutLastComponent(<<>>) = <<>>
  BY DEF Stripped, WithoutLastComponent
<1>4. Stripped(p) = p
  <2>1. CASE Len(p) = 0
    BY <1>3, <2>1
  <2>2. CASE Len(p) # 0
    <3>1. Len(p) \in 1 .. Len(p) /\ p[Len(p)] # Slash
      BY <1>1, <1>2, <2>2
    <3>2. Stripped(p) = SubSeq(p, 1, Len(p))
      BY <1>1, <3>1, StrippedEnds
    <3> QED
      BY <3>2
  <2> QED
    BY <2>1, <2>2
<1>5. CASE \A k \in 1 .. Len(p) : p[k] # Slash
  <2>1. r = <<Dot>>
    <3>1. \A k \in 1 .. Len(p) - 1 : p[k + 1] # Slash
      BY <1>1, <1>5
    <3> QED
      BY <3>1 DEF IsDirectoryPart, LastSlash
  <2>2. WithoutLastComponent(p) = <<>>
    BY <1>5 DEF WithoutLastComponent
  <2>3. ~(Len(p) > 0 /\ p[1] = Slash)
    BY <1>1, <1>5
  <2> QED
    BY <1>3, <1>4, <2>1, <2>2, <2>3 DEF ManPageDirname
<1>6. CASE \E k \in 1 .. Len(p) : p[k] = Slash
  <2>1. PICK k \in 1 .. Len(p) - 1 : LastSlash(p, k) /\ r = SubSeq(p, 1, k)
    <3>1. PICK n \in 1 .. Len(p) : p[n] = Slash
      BY <1>6
    <3>2. n - 1 \in 1 .. Len(p) - 1 /\ p[(n - 1) + 1] = Slash
      BY <1>1, <1>2, <3>1
    <3> QED
      BY <3>2 DEF IsDirectoryPart
  <2>2. k + 1 \in 1 .. Len(p) /\ p[k + 1] = Slash /\ k \in Nat /\ k \in 1 .. Len(p)
    BY <1>1, <2>1 DEF LastSlash
  <2>3. p[k] # Slash
    BY <1>2, <2>2
  <2>4. WithoutLastComponent(p) = SubSeq(p, 1, k + 1)
    <3> DEFINE cut == {n \in 1 .. Len(p) : p[n] = Slash}
    <3>1. cut \in SUBSET Nat /\ k + 1 \in cut /\ cut # {}
      BY <2>2
    <3>2. \A n \in cut : n <= k + 1
      <4> SUFFICES ASSUME NEW n \in 1 .. Len(p), p[n] = Slash, ~(n <= k + 1) PROVE FALSE
        OBVIOUS
      <4>1. n - 1 \in k + 1 .. Len(p) - 1 /\ p[(n - 1) + 1] = Slash
        BY <1>1, <2>2
      <4> QED
        BY <2>1, <4>1 DEF LastSlash
    <3>3. WithoutLastComponent(p) = SubSeq(p, 1, CHOOSE n \in cut : \A m \in cut : m <= n)
      BY <3>1 DEF WithoutLastComponent
    <3> HIDE DEF cut
    <3> QED
      BY <3>1, <3>2, <3>3, Largest
  <2> DEFINE q == SubSeq(p, 1, k + 1)
  <2>5. /\ q \in Seq(Char) /\ Len(q) = k + 1
        /\ \A n \in 1 .. k + 1 : q[n] = p[n]
    BY <1>1, <2>2
  <2>6. SubSeq(q, 1, k) = SubSeq(p, 1, k) /\ SubSeq(p, 1, k) # <<>>
    BY <1>1, <2>2
  <2> HIDE DEF q
  <2>7. Stripped(q) = SubSeq(q, 1, k)
    <3>1. k \in 1 .. Len(q) /\ q[k] # Slash
      BY <2>2, <2>3, <2>5
    <3>2. \A m \in k + 1 .. Len(q) : q[m] = Slash
      BY <2>2, <2>5
    <3> QED
      BY <2>5, <3>1, <3>2, StrippedEnds
  <2> QED
    BY <1>4, <2>1, <2>4, <2>6, <2>7 DEF ManPageDirname, q
<1> QED
  BY <1>5, <1>6

\* In every run, dirname prints for a plain name what the console's own manual page
\* says it prints.
THEOREM PlainNamesFollowManPageHolds == DirnameSpec => []PlainNamesFollowManPage
<1>1. ScanInvariant => PlainNamesFollowManPage
  <2> SUFFICES ASSUME ScanInvariant, NEW n \in 1 .. Len(directories), PlainName(argv[n])
               PROVE  directories[n] = ManPageDirname(argv[n])
    BY DEF PlainNamesFollowManPage
  <2>1. IsDirectoryPart(argv[n], directories[n])
    BY DEF ScanInvariant, PrintsDirectoryParts
  <2>2. n \in 1 .. Len(argv)
    <3>1. /\ Len(argv) \in Nat /\ arg \in 1 .. Len(argv) + 1
          /\ Len(directories) = arg - 1
      BY DEF ScanInvariant, DirnameTypeOK, PrintsDirectoryParts
    <3> QED
      BY <3>1
  <2>3. argv[n] \in Seq(Char)
    BY <2>2, PathsAssumption DEF ScanInvariant, DirnameTypeOK
  <2> QED
    BY <2>1, <2>3, PlainDirectoryPart
<1> QED
  BY <1>1, ScanInvariantHolds, PTL


-----------------------------------------------------------------------------
(* mv *)

Datum == Byte \cup {"none", "old"}

MoveStates ==
  [pc : {"open", "exit", "crashed", "copy", "remove", "done"}, source : Seq(Datum), dest : Seq(Datum),
   copied : Nat, original : Seq(Byte), same : BOOLEAN, failed : BOOLEAN]

MoveTypeOK == mv \in MoveStates

\* The file is there until it is removed, and the copy is the beginning of the file
\* until it is the file.
MoveInv ==
  /\ MoveTypeOK
  /\ mv.pc = "open" => mv.copied = 0
  /\ ~mv.same /\ mv.pc # "done" => mv.source = mv.original
  /\ ~HasEOF /\ ~mv.failed /\ ~mv.same =>
       /\ mv.pc = "copy" => /\ mv.copied <= Len(mv.original)
                            /\ mv.dest = SubSeq(mv.original, 1, mv.copied)
       /\ mv.pc \in {"remove", "done"} => mv.dest = mv.original

\* A round of the copy leaves a state of mv.
LEMMA MoveStateWith ==
  ASSUME NEW m \in MoveStates, NEW c \in Nat
  PROVE  /\ \A x : x = [m EXCEPT !.failed = TRUE, !.copied = c] => x \in MoveStates
         /\ \A d \in Seq(Datum) : \A x : x = [m EXCEPT !.dest = d, !.copied = c] => x \in MoveStates
<1> DEFINE P == {"open", "exit", "crashed", "copy", "remove", "done"}
           D == Seq(Datum)
           O == Seq(Byte)
           R == [pc : P, source : D, dest : D, copied : Nat, original : O, same : BOOLEAN, failed : BOOLEAN]
<1>1. R = MoveStates
  BY DEF MoveStates
<1> HIDE DEF P, D, O
<1>2. \A x \in R : [x EXCEPT !.failed = TRUE, !.copied = c] \in R
  OBVIOUS
<1>3. \A x \in R, d \in D : [x EXCEPT !.dest = d, !.copied = c] \in R
  OBVIOUS
<1>4. m \in R /\ D = Seq(Datum)
  BY <1>1 DEF D
<1>5. [m EXCEPT !.failed = TRUE, !.copied = c] \in R
  BY <1>2, <1>4
<1>6. \A d \in D : [m EXCEPT !.dest = d, !.copied = c] \in R
  BY <1>3, <1>4
<1> HIDE DEF R
<1> QED
  BY <1>1, <1>4, <1>5, <1>6

\* A file of bytes is one of data.
LEMMA BytesAreData == \A q \in Seq(Byte) : q \in Seq(Datum)
<1>1. Byte \subseteq Datum
  BY DEF Datum
<1> QED
  BY <1>1, SeqMonotonic, Zenon

\* It holds at the beginning,
LEMMA MoveStarts == MoveInit => MoveInv
<1> SUFFICES ASSUME MoveInit PROVE MoveInv
  OBVIOUS
<1>1. PICK content \in Contents, same \in BOOLEAN, dest \in {NoFile, <<"old">>} :
        mv = [pc |-> "open", source |-> content, dest |-> dest, copied |-> 0,
              original |-> content, same |-> same, failed |-> FALSE]
  BY DEF MoveInit
<1>2. content \in Seq(Byte) /\ content \in Seq(Datum)
  BY MoveAssumption, BytesAreData
<1>3. dest \in Seq(Datum)
  <2>1. "none" \in Datum /\ "old" \in Datum
    BY DEF Datum
  <2>2. CASE dest = NoFile
    BY <2>1, <2>2 DEF NoFile
  <2>3. CASE dest = <<"old">>
    BY <2>1, <2>3
  <2> QED
    BY <1>1, <2>2, <2>3
<1>4. MoveTypeOK
  BY <1>1, <1>2, <1>3 DEF MoveTypeOK, MoveStates
<1>5. mv.pc = "open" /\ mv.source = mv.original /\ mv.copied = 0
  BY <1>1
<1> QED
  BY <1>4, <1>5 DEF MoveInv

\* and every step of mv keeps it.
LEMMA MoveGoesOn == MoveInv /\ [MoveNext]_mv => MoveInv'
<1> SUFFICES ASSUME MoveInv, [MoveNext]_mv PROVE MoveInv'
  OBVIOUS
<1>1. MoveTypeOK
  BY DEF MoveInv
<1>2. mv.source \in Seq(Datum) /\ mv.original \in Seq(Byte) /\ mv.copied \in Nat
  BY <1>1 DEF MoveTypeOK, MoveStates
<1>3. <<>> \in Seq(Datum) /\ NoFile \in Seq(Datum)
  BY DEF NoFile, Datum
<1>4. mv'.original = mv.original => (HasEOF' <=> HasEOF)
  BY DEF HasEOF
<1>5. CASE Open
  <2>1. \/ mv' = [mv EXCEPT !.pc = "exit"]
        \/ /\ mv.same
           /\ \/ mv' = [[mv EXCEPT !.source = <<>>] EXCEPT !.pc = "copy"]
              \/ mv' = [[mv EXCEPT !.source = <<>>] EXCEPT !.pc = "crashed"]
        \/ /\ ~mv.same
           /\ \/ mv' = [[mv EXCEPT !.dest = <<>>] EXCEPT !.pc = "copy"]
              \/ mv' = [[mv EXCEPT !.dest = <<>>] EXCEPT !.pc = "crashed"]
    BY <1>5 DEF Open, Emptied
  <2>2. mv.pc = "open" /\ mv.copied = 0
    BY <1>5 DEF Open, MoveInv
  <2>3. MoveTypeOK'
    BY <1>1, <1>3, <2>1 DEF MoveTypeOK, MoveStates
  <2>4. /\ mv'.original = mv.original /\ mv'.failed = mv.failed /\ mv'.same = mv.same
        /\ mv'.copied = 0 /\ mv'.pc \in {"exit", "crashed", "copy"}
    BY <1>1, <2>1, <2>2 DEF MoveTypeOK, MoveStates
  <2>5. ~mv.same => mv'.source = mv.source /\ (mv'.pc = "copy" => mv'.dest = <<>>)
    BY <1>1, <2>1 DEF MoveTypeOK, MoveStates
  <2>6. SubSeq(mv.original, 1, 0) = <<>> /\ 0 <= Len(mv.original)
    BY <1>2
  <2> QED
    BY <1>4, <2>2, <2>3, <2>4, <2>5, <2>6 DEF MoveInv
<1>6. CASE Copy
  <2> DEFINE byte == mv.source[mv.copied + 1]
  <2>1. /\ mv.pc = "copy" /\ mv.copied < Len(mv.source)
        /\ \/ byte = EOF /\ mv' = [mv EXCEPT !.pc = "remove"]
           \/ byte # EOF /\ mv' = [mv EXCEPT !.dest = Append(@, byte), !.copied = @ + 1]
           \/ byte # EOF /\ mv' = [mv EXCEPT !.failed = TRUE, !.copied = @ + 1]
    BY <1>6 DEF Copy
  <2>2. mv.copied + 1 \in 1 .. Len(mv.source) /\ byte \in Datum
    BY <1>2, <2>1
  <2> HIDE DEF byte
  <2>3. mv.dest \in Seq(Datum) /\ Append(mv.dest, byte) \in Seq(Datum)
    <3>1. ASSUME NEW S, NEW q \in Seq(S), NEW e \in S PROVE Append(q, e) \in Seq(S)
      OBVIOUS
    <3>2. mv.dest \in Seq(Datum)
      BY <1>1 DEF MoveTypeOK, MoveStates
    <3> QED
      BY <2>2, <3>1, <3>2
  <2>4. MoveTypeOK'
    <3>1. CASE mv' = [mv EXCEPT !.pc = "remove"]
      BY <1>1, <3>1 DEF MoveTypeOK, MoveStates
    <3>4. mv.copied + 1 \in Nat
      BY <1>2
    <3>2. CASE mv' = [mv EXCEPT !.dest = Append(@, byte), !.copied = @ + 1]
      <4>1. mv' = [mv EXCEPT !.dest = Append(mv.dest, byte), !.copied = mv.copied + 1]
        BY <3>2
      <4>2. mv' \in MoveStates
        BY ONLY <1>1, <2>3, <3>4, <4>1, MoveStateWith DEF MoveTypeOK
      <4> QED
        BY <4>2 DEF MoveTypeOK
    <3>3. CASE mv' = [mv EXCEPT !.failed = TRUE, !.copied = @ + 1]
      <4>1. mv' = [mv EXCEPT !.failed = TRUE, !.copied = mv.copied + 1]
        BY <3>3
      <4>2. mv' \in MoveStates
        BY ONLY <1>1, <3>4, <4>1, MoveStateWith DEF MoveTypeOK
      <4> QED
        BY <4>2 DEF MoveTypeOK
    <3> QED
      BY <2>1, <3>1, <3>2, <3>3
  <2>5. mv'.original = mv.original /\ mv'.same = mv.same /\ mv'.source = mv.source
        /\ mv'.pc # "open"
    BY <1>1, <2>1 DEF MoveTypeOK, MoveStates
  <2>0. ~mv'.same /\ mv'.pc # "done" => mv'.source = mv'.original
    BY <2>1, <2>5 DEF MoveInv
  <2>6. SUFFICES ASSUME ~HasEOF, ~mv'.failed, ~mv.same
                 PROVE  /\ mv'.pc = "copy" /\ mv'.source = mv.original
                        /\ mv'.copied <= Len(mv.original)
                        /\ mv'.dest = SubSeq(mv.original, 1, mv'.copied)
    BY <1>4, <2>0, <2>4, <2>5 DEF MoveInv
  <2>7. ~mv.failed
    BY <1>1, <2>1, <2>6 DEF MoveTypeOK, MoveStates
  <2>8. mv.source = mv.original /\ mv.dest = SubSeq(mv.original, 1, mv.copied)
    BY <2>1, <2>6, <2>7 DEF MoveInv
  <2>9. byte # EOF
    BY <2>2, <2>6, <2>8, <1>2 DEF HasEOF, byte
  <2>10. mv' = [mv EXCEPT !.dest = Append(@, byte), !.copied = @ + 1]
    BY <1>1, <2>1, <2>6, <2>9 DEF MoveTypeOK, MoveStates
  <2>11. mv'.pc = "copy" /\ mv'.copied = mv.copied + 1 /\ mv'.dest = Append(mv.dest, byte)
    BY <1>1, <2>1, <2>10 DEF MoveTypeOK, MoveStates
  <2>12. Append(SubSeq(mv.original, 1, mv.copied), byte) = SubSeq(mv.original, 1, mv.copied + 1)
    <3>1. ASSUME NEW S, NEW q \in Seq(S), NEW n \in Nat, n + 1 \in 1 .. Len(q)
          PROVE  Append(SubSeq(q, 1, n), q[n + 1]) = SubSeq(q, 1, n + 1)
      OBVIOUS
    <3> QED
      BY <1>2, <2>2, <2>8, <3>1 DEF byte
  <2> QED
    BY <1>2, <2>1, <2>5, <2>8, <2>11, <2>12
<1>7. CASE EndCopy
  <2>1. mv.pc = "copy" /\ mv.copied >= Len(mv.source) /\ mv' = [mv EXCEPT !.pc = "remove"]
    BY <1>7 DEF EndCopy, Copied
  <2>2. /\ mv'.original = mv.original /\ mv'.failed = mv.failed /\ mv'.same = mv.same
        /\ mv'.pc = "remove" /\ mv'.dest = mv.dest /\ MoveTypeOK'
    BY <1>1, <2>1 DEF MoveTypeOK, MoveStates
  <2>3. ~HasEOF /\ ~mv.failed /\ ~mv.same => mv.dest = mv.original
    <3>1. SUFFICES ASSUME ~HasEOF, ~mv.failed, ~mv.same PROVE mv.dest = mv.original
      OBVIOUS
    <3>2. /\ mv.source = mv.original /\ mv.copied <= Len(mv.original)
          /\ mv.dest = SubSeq(mv.original, 1, mv.copied)
      BY <2>1, <3>1 DEF MoveInv
    <3>3. mv.copied = Len(mv.original)
      BY <1>2, <2>1, <3>2
    <3> QED
      BY <1>2, <3>2, <3>3
  <2>4. mv'.source = mv.source
    BY <1>1, <2>1 DEF MoveTypeOK, MoveStates
  <2> QED
    BY <1>4, <2>1, <2>2, <2>3, <2>4 DEF MoveInv
<1>10. CASE ReadFails
  <2>1. mv.pc = "copy" /\ mv' = [mv EXCEPT !.pc = "remove", !.failed = TRUE]
    BY <1>10 DEF ReadFails
  <2>2. /\ mv'.original = mv.original /\ mv'.failed = TRUE /\ mv'.same = mv.same
        /\ mv'.pc = "remove" /\ mv'.source = mv.source /\ MoveTypeOK'
    BY <1>1, <2>1 DEF MoveTypeOK, MoveStates
  <2> QED
    BY <2>1, <2>2 DEF MoveInv
<1>8. CASE Remove
  <2>1. mv.pc = "remove" /\ mv' \in {[mv EXCEPT !.pc = "done", !.source = NoFile], [mv EXCEPT !.pc = "done"]}
    BY <1>8 DEF Remove
  <2>2. /\ mv'.original = mv.original /\ mv'.failed = mv.failed /\ mv'.same = mv.same
        /\ mv'.pc = "done" /\ mv'.dest = mv.dest /\ MoveTypeOK'
    BY <1>1, <1>3, <2>1 DEF MoveTypeOK, MoveStates
  <2> QED
    BY <1>4, <2>1, <2>2 DEF MoveInv
<1>9. CASE UNCHANGED mv
  BY <1>9 DEF MoveInv, MoveTypeOK, HasEOF
<1> QED
  BY <1>5, <1>6, <1>7, <1>8, <1>9, <1>10 DEF MoveNext

\* The file is whole under one of the names.
LEMMA MoveKeeps == MoveInv => FileKept
BY DEF MoveInv, MoveTypeOK, MoveStates, FileKept


-----------------------------------------------------------------------------
(* The threads *)

ThreadState == [pc : {"none", "begin", "hello", "ended"}, id : Int]

ThreadsTypeOK ==
  team \in [main : {"create", "join", "error"}, index : 0 .. NumThreads, status : Seq(Int),
            thread : [Index -> ThreadState]]

\* A thread that has run has its own number, and main joins the threads in the
\* order of their numbers.
ThreadsInv ==
  /\ ThreadsTypeOK
  /\ Len(team.status) <= NumThreads
  /\ \A k \in Index : team.thread[k].pc \in {"hello", "ended"} => team.thread[k].id = k
  /\ OwnStatus

\* It holds at the beginning,
LEMMA ThreadsStart == ThreadsInit => ThreadsInv
<1> SUFFICES ASSUME ThreadsInit PROVE ThreadsInv
  OBVIOUS
<1>1. /\ team.main = "create" /\ team.index = 0 /\ team.status = <<>>
      /\ team.thread = [k \in Index |-> [pc |-> "none", id |-> -1]]
  BY DEF ThreadsInit
<1>2. team.thread \in [Index -> ThreadState] /\ \A k \in Index : team.thread[k].pc = "none"
  BY <1>1 DEF ThreadState
<1>3. NumThreads \in Nat /\ 0 \in 0 .. NumThreads
  BY ThreadsAssumption
<1>4. ThreadsTypeOK
  BY <1>1, <1>2, <1>3 DEF ThreadsInit, ThreadsTypeOK
<1>5. Len(team.status) = 0 /\ OwnStatus
  BY <1>1 DEF OwnStatus
<1> QED
  BY <1>2, <1>3, <1>4, <1>5 DEF ThreadsInv

\* and every step of every thread keeps it.
LEMMA ThreadsGoOn == ThreadsInv /\ [ThreadsNext]_team => ThreadsInv'
<1> SUFFICES ASSUME ThreadsInv, [ThreadsNext]_team PROVE ThreadsInv'
  OBVIOUS
<1>1. /\ team.main \in {"create", "join", "error"} /\ team.index \in 0 .. NumThreads
      /\ team.status \in Seq(Int) /\ team.thread \in [Index -> ThreadState]
      /\ NumThreads \in Nat /\ Len(team.status) \in Nat
  BY ThreadsAssumption DEF ThreadsInv, ThreadsTypeOK
<1>2. /\ Len(team.status) <= NumThreads /\ ThreadsTypeOK /\ OwnStatus
      /\ \A k \in Index : team.thread[k].pc \in {"hello", "ended"} => team.thread[k].id = k
  BY DEF ThreadsInv
<1>3. ASSUME NEW k \in Index, NEW st \in ThreadState,
             team' = [team EXCEPT !.thread = [@ EXCEPT ![k] = st]],
             st.pc \in {"hello", "ended"} => st.id = k
      PROVE  ThreadsInv'
  <2>1. [team.thread EXCEPT ![k] = st] \in [Index -> ThreadState]
    BY <1>1
  <2>2. /\ ThreadsTypeOK' /\ team'.status = team.status
        /\ team'.thread = [team.thread EXCEPT ![k] = st]
    BY <1>2, <1>3, <2>1 DEF ThreadsTypeOK
  <2>3. \A n \in Index : team'.thread[n] = IF n = k THEN st ELSE team.thread[n]
    BY <1>1, <2>2
  <2>4. \A n \in Index : team'.thread[n].pc \in {"hello", "ended"} => team'.thread[n].id = n
    BY <1>2, <1>3, <2>3
  <2> QED
    BY <1>2, <2>2, <2>4 DEF ThreadsInv, OwnStatus
<1>4. CASE Create
  <2>1. CASE team' = [team EXCEPT !.thread[team.index].pc = "begin", !.index = @ + 1]
    <3> DEFINE k == team.index
               st == [team.thread[k] EXCEPT !.pc = "begin"]
               threads == [team.thread EXCEPT ![k] = st]
    <3>1. k \in Index /\ k + 1 \in 0 .. NumThreads
      BY <1>1, <1>4 DEF Create, Index
    <3>2. st \in ThreadState /\ st.pc = "begin"
      BY <1>1, <3>1 DEF ThreadState
    <3>3. threads \in [Index -> ThreadState]
      BY <1>1, <3>2
    <3>4. ThreadsTypeOK' /\ team'.status = team.status /\ team'.thread = threads
      BY <1>2, <2>1, <3>1, <3>3 DEF ThreadsTypeOK
    <3>5. \A n \in Index : threads[n] = IF n = k THEN st ELSE team.thread[n]
      BY <1>1
    <3>6. \A n \in Index : team'.thread[n].pc \in {"hello", "ended"} => team'.thread[n].id = n
      BY <1>2, <3>2, <3>4, <3>5
    <3> QED
      BY <1>2, <3>4, <3>6 DEF ThreadsInv, OwnStatus
  <2>2. CASE team' = [team EXCEPT !.main = "error"]
    <3>1. ThreadsTypeOK' /\ team'.status = team.status /\ team'.thread = team.thread
      BY <1>2, <2>2 DEF ThreadsTypeOK
    <3> QED
      BY <1>2, <3>1 DEF ThreadsInv, OwnStatus
  <2> QED
    BY <1>4, <2>1, <2>2 DEF Create
<1>5. CASE AllCreated
  <2>1. ThreadsTypeOK' /\ team'.status = team.status /\ team'.thread = team.thread
    BY <1>2, <1>5 DEF ThreadsTypeOK, AllCreated
  <2> QED
    BY <1>2, <2>1 DEF ThreadsInv, OwnStatus
<1>6. ASSUME NEW k \in Index, Hello(k) PROVE ThreadsInv'
  <2> DEFINE st == [pc |-> "hello", id |-> k]
  <2>1. st \in ThreadState /\ (st.pc \in {"hello", "ended"} => st.id = k)
    BY DEF ThreadState, Index
  <2>2. team' = [team EXCEPT !.thread = [@ EXCEPT ![k] = st]]
    BY <1>6 DEF Hello, Argument
  <2> QED
    BY <1>3, <2>1, <2>2
<1>7. ASSUME NEW k \in Index, Exit(k) PROVE ThreadsInv'
  <2> DEFINE st == [team.thread[k] EXCEPT !.pc = "ended"]
  <2>1. st \in ThreadState /\ st.id = k
    <3>1. team.thread[k] \in ThreadState /\ team.thread[k].id = k
      BY <1>1, <1>2, <1>7 DEF Exit
    <3> QED
      BY <3>1 DEF ThreadState
  <2>2. team' = [team EXCEPT !.thread = [@ EXCEPT ![k] = st]]
    BY <1>7 DEF Exit
  <2> QED
    BY <1>3, <2>1, <2>2
<1>8. CASE Join
  <2> DEFINE n == Len(team.status)
             joined == Append(team.status, team.thread[n].id + 1)
  <2>1. /\ n \in Index /\ team.thread[n].pc = "ended"
        /\ team' = [team EXCEPT !.status = joined]
    BY <1>1, <1>8 DEF Join, Index
  <2>2. team.thread[n].id = n /\ n + 1 <= NumThreads
    BY <1>1, <1>2, <2>1 DEF Index
  <2>3. ASSUME NEW q \in Seq(Int), NEW x \in Int
        PROVE  /\ Append(q, x) \in Seq(Int) /\ Len(Append(q, x)) = Len(q) + 1
               /\ Append(q, x)[Len(q) + 1] = x
               /\ \A m \in 1 .. Len(q) : Append(q, x)[m] = q[m]
    OBVIOUS
  <2>4. /\ joined \in Seq(Int) /\ Len(joined) = n + 1 /\ joined[n + 1] = n + 1
        /\ \A m \in 1 .. n : joined[m] = team.status[m]
    BY <1>1, <2>2, <2>3
  <2>5. ThreadsTypeOK' /\ team'.status = joined /\ team'.thread = team.thread
    BY <1>2, <2>1, <2>4 DEF ThreadsTypeOK
  <2>6. \A m \in 1 .. n : team.status[m] = m
    BY <1>1, <1>2 DEF OwnStatus
  <2>7. \A m \in 1 .. Len(joined) : joined[m] = m
    <3> TAKE m \in 1 .. Len(joined)
    <3>1. m = n + 1 \/ m \in 1 .. n
      BY <1>1, <2>4
    <3> QED
      BY <2>4, <2>6, <3>1
  <2>8. OwnStatus'
    BY <2>4, <2>5, <2>7 DEF OwnStatus
  <2> QED
    BY <1>2, <2>2, <2>4, <2>5, <2>8 DEF ThreadsInv
<1>9. CASE UNCHANGED team
  BY <1>2, <1>9 DEF ThreadsInv, ThreadsTypeOK, OwnStatus
<1> QED
  BY <1>4, <1>5, <1>6, <1>7, <1>8, <1>9 DEF ThreadsNext

-----------------------------------------------------------------------------
(* The quiz *)

QuizTypeOK ==
  quiz \in [main : {"install", "scan", "judge", "wait", "returned", "killed"},
            child : {"alive", "doomed", "dead", "reaped"}, handler : BOOLEAN, pending : BOOLEAN,
            x : Answer \cup {0}, typed : SUBSET Answer,
            verdict : {"none", "Correct", "Incorrect"}, reminded : BOOLEAN]

\* From the end of scanf on x is what the user typed, and the verdict is about x.
QuizInv ==
  /\ QuizTypeOK
  /\ quiz.main \in {"judge", "wait", "returned"} => quiz.handler /\ quiz.typed = {quiz.x}
  /\ quiz.main = "scan" => quiz.handler
  /\ \A a, b \in quiz.typed : a = b
  /\ quiz.verdict # "none" =>
       /\ quiz.main \in {"wait", "returned"}
       /\ quiz.verdict = IF quiz.x = 10 THEN "Correct" ELSE "Incorrect"

\* It holds at the beginning,
LEMMA QuizStarts == QuizInit => QuizInv
BY DEF QuizInit, QuizInv, QuizTypeOK

\* and every step of the parent and of the child keeps it.
LEMMA QuizGoesOn == QuizInv /\ [QuizNext]_quiz => QuizInv'
<1> SUFFICES ASSUME QuizInv, [QuizNext]_quiz PROVE QuizInv'
  OBVIOUS
<1> USE DEF QuizInv, QuizTypeOK, MainAt, Running
<1>1. CASE Remind
  BY <1>1 DEF Remind
<1>2. CASE Die
  BY <1>2 DEF Die
<1>3. CASE Type
  BY <1>3 DEF Type
<1>4. CASE Deliver
  <2>1. quiz.main = "install" \/ quiz.handler
    BY <1>4 DEF Deliver
  <2>2. CASE quiz' = [quiz EXCEPT !.pending = FALSE, !.main = "killed"] /\ ~quiz.handler
    BY <2>1, <2>2
  <2>3. ASSUME NEW b \in BOOLEAN, quiz' = [quiz EXCEPT !.pending = FALSE, !.reminded = b]
        PROVE  QuizInv'
    BY <2>3
  <2>4. CASE quiz' = [quiz EXCEPT !.pending = FALSE, !.main = @,
                                  !.reminded = @ \/ quiz.x = 0]
    <3>1. quiz' = [quiz EXCEPT !.pending = FALSE, !.reminded = quiz.reminded \/ quiz.x = 0]
      BY <2>4
    <3> QED
      BY <2>3, <3>1
  <2>5. CASE quiz.handler
    BY <1>4, <2>4, <2>5, Zenon DEF Deliver, Restarted
  <2>6. CASE ~quiz.handler
    BY <1>4, <2>2, <2>6, Zenon DEF Deliver
  <2> QED
    BY <2>5, <2>6
<1>5. CASE Install
  BY <1>5 DEF Install
<1>6. CASE Scan
  <2>1. PICK a \in quiz.typed : quiz' = [quiz EXCEPT !.main = "judge", !.x = a]
    BY <1>6 DEF Scan
  <2>2. quiz.main = "scan" /\ a \in Answer /\ quiz.typed = {a}
    BY <1>6 DEF Scan
  <2> QED
    BY <2>1, <2>2
<1>7. CASE Judge
  BY <1>7 DEF Judge, Doomed
<1>8. CASE Reap
  BY <1>8 DEF Reap
<1>9. CASE UNCHANGED quiz
  BY <1>9
<1> QED
  BY <1>1, <1>2, <1>3, <1>4, <1>5, <1>6, <1>7, <1>8, <1>9 DEF QuizNext, QuizMain

\* The verdict is about what was typed.
LEMMA QuizJudges == QuizInv => AnswerJudged
BY DEF QuizInv, QuizTypeOK, AnswerJudged


-----------------------------------------------------------------------------
(* The pipeline *)

ProcState ==
  [pc : {"none", "pipe", "fork1", "fork2", "dup", "close", "exec", "shut", "wait", "run", "ended"},
   fd : [Descriptor -> {"shut", "r", "w"}]]

PipeTypeOK ==
  line \in [proc : [Proc -> ProcState], pipe : Nat, left : Nat, counted : Nat, report : Int,
            failed : BOOLEAN]

\* Who has been forked, and how far main has come.
Forked ==
  /\ line.proc["main"].pc \in {"pipe", "fork1", "fork2", "shut", "wait", "ended"}
  /\ line.proc["cat"].pc \in {"none", "dup", "close", "exec", "run", "ended"}
  /\ line.proc["wc"].pc \in {"none", "dup", "close", "exec", "run", "ended"}
  /\ line.proc["stray"].pc = "none"
  /\ line.proc["cat"].pc = "none" <=> line.proc["main"].pc \in {"pipe", "fork1"}
  /\ line.proc["wc"].pc = "none" <=> line.proc["main"].pc \in {"pipe", "fork1", "fork2"}
  /\ line.proc["main"].pc = "ended" => line.proc["wc"].pc = "ended"

\* Who has which end of the pipe: while a child is to come main has both, cat has
\* the end to write to until it ends, and wc the end to read from.
Ends ==
  /\ line.proc["main"].pc \in {"fork1", "fork2", "shut"} =>
       line.proc["main"].fd["fd0"] = "r" /\ line.proc["main"].fd["fd1"] = "w"
  /\ line.proc["cat"].pc = "dup" => line.proc["cat"].fd["fd1"] = "w"
  /\ line.proc["cat"].pc \in {"close", "exec", "run"} => line.proc["cat"].fd["out"] = "w"
  /\ line.proc["wc"].pc = "dup" => line.proc["wc"].fd["fd0"] = "r"
  /\ line.proc["wc"].pc \in {"close", "exec", "run"} => line.proc["wc"].fd["in"] = "r"

\* What has been written is in the pipe or counted, cat ends when it has written
\* all, and wc when cat has ended and the pipe is empty.
Flow ==
  /\ line.pipe + line.left + line.counted = Blocks
  /\ line.proc["cat"].pc = "ended" => line.left = 0
  /\ line.proc["wc"].pc = "ended" => line.proc["cat"].pc = "ended" /\ line.report = Blocks

PipeInv == PipeTypeOK /\ (~line.failed => Forked /\ Ends /\ Flow)

\* It holds at the beginning.
LEMMA PipelineStarts == PipelineInit => PipeInv
<1> SUFFICES ASSUME PipelineInit PROVE PipeInv
  OBVIOUS
<1>1. Proc0 \in ProcState /\ [Proc0 EXCEPT !.pc = "pipe"] \in ProcState
  BY DEF Proc0, ProcState
<1>2. /\ line.proc \in [Proc -> ProcState] /\ line.proc["main"].pc = "pipe"
      /\ \A p \in {"cat", "wc", "stray"} : line.proc[p].pc = "none"
  BY <1>1 DEF PipelineInit, Proc, Proc0
<1>3. PICK procs : line = [proc |-> procs, pipe |-> 0, left |-> Blocks, counted |-> 0,
                           report |-> -1, failed |-> FALSE]
  BY DEF PipelineInit
<1>4. PipeTypeOK /\ line.pipe = 0 /\ line.left = Blocks /\ line.counted = 0
  BY <1>2, <1>3, PipelineAssumption DEF PipeTypeOK
<1> QED
  BY <1>2, <1>4, PipelineAssumption DEF PipeInv, Forked, Ends, Flow

\* The line after one process has moved.
Moved(p, r) == [line EXCEPT !.proc = [@ EXCEPT ![p] = r]]

\* Two changes of one process are the second one alone.
LEMMA MovedTwice ==
  ASSUME PipeTypeOK, NEW p \in Proc, NEW r \in ProcState, NEW s \in ProcState
  PROVE  /\ Moved(p, r).proc[p] = r
         /\ [Moved(p, r) EXCEPT !.proc = [@ EXCEPT ![p] = s]] = Moved(p, s)
<1>1. /\ line.proc \in [Proc -> ProcState]
      /\ [line.proc EXCEPT ![p] = r] \in [Proc -> ProcState]
      /\ [line.proc EXCEPT ![p] = r][p] = r
  BY DEF PipeTypeOK
<1>2. [[line.proc EXCEPT ![p] = r] EXCEPT ![p] = s] = [line.proc EXCEPT ![p] = s]
  BY <1>1
<1>3. Moved(p, r).proc = [line.proc EXCEPT ![p] = r]
  BY DEF Moved, PipeTypeOK
<1>4. ASSUME NEW P1, NEW P2
      PROVE  [[line EXCEPT !.proc = P1] EXCEPT !.proc = P2] = [line EXCEPT !.proc = P2]
  BY DEF PipeTypeOK
<1> QED
  BY <1>1, <1>2, <1>3, <1>4 DEF Moved

\* A process with another descriptor, and the line with such a process.
Turned(r, d, e) == [r EXCEPT !.fd[d] = e]
TurnedIn(m, p, d, e) == [m EXCEPT !.proc[p].fd[d] = e]

\* A process moves and changes a descriptor.
LEMMA MovedDescriptor ==
  ASSUME PipeTypeOK, NEW p \in Proc, NEW r \in ProcState, NEW d \in Descriptor,
         NEW e \in {"shut", "r", "w"}
  PROVE  /\ Turned(r, d, e) \in ProcState
         /\ TurnedIn(Moved(p, r), p, d, e) = Moved(p, Turned(r, d, e))
<1> DEFINE s == [r EXCEPT !.fd[d] = e]
<1>1. s \in ProcState
  BY DEF ProcState
<1>2. /\ Moved(p, r).proc[p] = r
      /\ [Moved(p, r) EXCEPT !.proc = [@ EXCEPT ![p] = s]] = Moved(p, s)
  <2> HIDE DEF s
  <2> QED
    BY <1>1, MovedTwice
<1>3. ASSUME NEW m, m.proc[p] = r
      PROVE  [m EXCEPT !.proc[p].fd[d] = e] = [m EXCEPT !.proc = [@ EXCEPT ![p] = s]]
  BY <1>3
<1>4. [Moved(p, r) EXCEPT !.proc[p].fd[d] = e]
        = [Moved(p, r) EXCEPT !.proc = [@ EXCEPT ![p] = s]]
  <2> HIDE DEF s
  <2> QED
    BY <1>2, <1>3
<1> QED
  BY <1>1, <1>2, <1>4 DEF Turned, TurnedIn

\* What a step does to the processes when only p moves.
LEMMA OneMoves ==
  ASSUME NEW p \in Proc, NEW r \in ProcState, PipeTypeOK, line' = Moved(p, r)
  PROVE  /\ PipeTypeOK' /\ line'.failed = line.failed
         /\ line'.proc[p] = r /\ \A q \in Proc \ {p} : line'.proc[q] = line.proc[q]
         /\ line'.pipe = line.pipe /\ line'.left = line.left /\ line'.counted = line.counted
         /\ line'.report = line.report
<1>1. [line.proc EXCEPT ![p] = r] \in [Proc -> ProcState]
  BY DEF PipeTypeOK
<1>2. PipeTypeOK' /\ line'.failed = line.failed /\ line'.proc = [line.proc EXCEPT ![p] = r]
      /\ line'.pipe = line.pipe /\ line'.left = line.left /\ line'.counted = line.counted
      /\ line'.report = line.report
  BY <1>1 DEF PipeTypeOK, Moved
<1>3. /\ line'.proc[p] = r /\ \A q \in Proc \ {p} : line'.proc[q] = line.proc[q]
  BY <1>2 DEF PipeTypeOK
<1> QED
  BY <1>2, <1>3

\* A call that fails keeps the types, and there is nothing else to keep.
LEMMA FailureKeeps ==
  ASSUME PipeInv, NEW p \in Proc, NEW r \in ProcState,
         line' = [line EXCEPT !.proc = [@ EXCEPT ![p] = r], !.failed = TRUE]
  PROVE  PipeInv'
<1>1. [line.proc EXCEPT ![p] = r] \in [Proc -> ProcState]
  BY DEF PipeInv, PipeTypeOK
<1>2. PipeTypeOK' /\ line'.failed
  BY <1>1 DEF PipeInv, PipeTypeOK
<1> QED
  BY <1>2 DEF PipeInv

\* A process that fails ends.
LEMMA FailsKeeps ==
  ASSUME PipeInv, NEW p \in Proc, line' = Fails(p) PROVE PipeInv'
<1> DEFINE r == [Proc0 EXCEPT !.pc = "ended"]
<1>1. r \in ProcState
  BY DEF Proc0, ProcState
<1>2. line' = [line EXCEPT !.proc = [@ EXCEPT ![p] = r], !.failed = TRUE]
  BY DEF Fails, EndOf, PipeInv, PipeTypeOK
<1> QED
  BY <1>1, <1>2, FailureKeeps

\* Every step of the processes keeps the invariant.
LEMMA PipelineGoesOn == PipeInv /\ [PipelineNext]_line => PipeInv'
<1> SUFFICES ASSUME PipeInv, [PipelineNext]_line PROVE PipeInv'
  OBVIOUS
<1>1. PipeTypeOK /\ line.proc \in [Proc -> ProcState] /\ line.failed \in BOOLEAN
      /\ line.pipe \in Nat /\ line.left \in Nat /\ line.counted \in Nat /\ line.report \in Int
  BY DEF PipeInv, PipeTypeOK
<1>2. \A p \in Proc : /\ line.proc[p].fd \in [Descriptor -> {"shut", "r", "w"}]
                      /\ line.proc[p] \in ProcState
  BY <1>1 DEF ProcState
<1>3. /\ "main" \in Proc /\ "cat" \in Proc /\ "wc" \in Proc /\ "stray" \in Proc
      /\ Proc = {"main", "cat", "wc", "stray"} /\ Descriptor = {"in", "out", "fd0", "fd1"}
  BY DEF Proc, Descriptor
<1>4. ~line.failed => Forked /\ Ends /\ Flow
  BY DEF PipeInv
<1>5. ASSUME NEW p \in Proc,
             NEW x \in {"fork1", "fork2", "close", "exec", "shut", "wait", "run", "ended"}
      PROVE  /\ [line.proc[p] EXCEPT !.pc = x] \in ProcState
             /\ GoTo(p, x) = Moved(p, [line.proc[p] EXCEPT !.pc = x])
  BY <1>2 DEF ProcState, GoTo, Moved
<1>6. CASE MakePipe
  <2> DEFINE fds == [line.proc["main"].fd EXCEPT !["fd0"] = "r", !["fd1"] = "w"]
             q == [line.proc["main"] EXCEPT !.pc = "fork1"]
             s == [q EXCEPT !.fd["fd0"] = "r"]
             r == [s EXCEPT !.fd["fd1"] = "w"]
  <2>1. /\ q \in ProcState /\ s \in ProcState /\ r \in ProcState /\ r.pc = "fork1"
        /\ r.fd["fd0"] = "r" /\ r.fd["fd1"] = "w"
    BY <1>2, <1>3 DEF ProcState
  <2>2. CASE line' = Fails("main")
    BY <1>3, <2>2, FailsKeeps
  <2>3. CASE line' = [GoTo("main", "fork1") EXCEPT !.proc["main"].fd["fd0"] = "r",
                                                   !.proc["main"].fd["fd1"] = "w"]
    <3>1. GoTo("main", "fork1") = Moved("main", q)
      BY <1>1, <1>3, <1>5
    <3>2. [Moved("main", q) EXCEPT !.proc["main"].fd["fd0"] = "r"] = Moved("main", s)
      BY <1>1, <1>3, <2>1, MovedDescriptor DEF Turned, TurnedIn
    <3>3. [Moved("main", s) EXCEPT !.proc["main"].fd["fd1"] = "w"] = Moved("main", r)
      BY <1>1, <1>3, <2>1, MovedDescriptor DEF Turned, TurnedIn
    <3>4. line' = Moved("main", r)
      BY <2>3, <3>1, <3>2, <3>3
    <3>5. /\ PipeTypeOK' /\ line'.failed = line.failed /\ line'.proc["main"] = r
          /\ \A p \in {"cat", "wc", "stray"} : line'.proc[p] = line.proc[p]
          /\ line'.pipe = line.pipe /\ line'.left = line.left /\ line'.counted = line.counted
          /\ line'.report = line.report
      <4>1. /\ PipeTypeOK' /\ line'.failed = line.failed /\ line'.proc["main"] = r
            /\ \A p \in Proc \ {"main"} : line'.proc[p] = line.proc[p]
            /\ line'.pipe = line.pipe /\ line'.left = line.left /\ line'.counted = line.counted
            /\ line'.report = line.report
        <5> HIDE DEF r
        <5> QED
          BY <1>1, <1>3, <2>1, <3>4, OneMoves
      <4> QED
        BY <1>3, <4>1
    <3> HIDE DEF r
    <3>6. line.proc["main"].pc = "pipe"
      BY <1>6 DEF MakePipe, At
    <3>7. ~line.failed => Forked' /\ Ends' /\ Flow'
      BY <1>4, <2>1, <3>5, <3>6 DEF Forked, Ends, Flow
    <3> QED
      BY <3>5, <3>7 DEF PipeInv
  <2> QED
    BY <1>6, <2>2, <2>3 DEF MakePipe
<1>7. ASSUME NEW p \in Proc, NEW child \in Proc \ {p}, NEW next \in {"fork2", "shut"},
             Fork(p, child, next), line' # Fails(p)
      PROVE  /\ PipeTypeOK' /\ line'.failed = line.failed
             /\ line'.proc[p].pc = next /\ line'.proc[p].fd = line.proc[p].fd
             /\ line'.proc[child].pc = "dup" /\ line'.proc[child].fd = line.proc[p].fd
             /\ \A q \in Proc \ {p, child} : line'.proc[q] = line.proc[q]
             /\ line'.pipe = line.pipe /\ line'.left = line.left /\ line'.counted = line.counted
             /\ line'.report = line.report
  <2> DEFINE q == [line.proc[p] EXCEPT !.pc = next]
             r == [pc |-> "dup", fd |-> line.proc[p].fd]
  <2>1. q \in ProcState /\ q.pc = next /\ q.fd = line.proc[p].fd
    BY <1>2 DEF ProcState
  <2>2. r \in ProcState /\ r.pc = "dup" /\ r.fd = line.proc[p].fd
    BY <1>2 DEF ProcState
  <2>3. line' = [Moved(p, q) EXCEPT !.proc[child] = r]
    BY <1>5, <1>7 DEF Fork
  <2> HIDE DEF q, r
  <2>4. line' = [line EXCEPT !.proc = [[@ EXCEPT ![p] = q] EXCEPT ![child] = r]]
    BY <1>1, <2>3 DEF Moved, PipeTypeOK
  <2>5. [[line.proc EXCEPT ![p] = q] EXCEPT ![child] = r] \in [Proc -> ProcState]
    BY <1>1, <2>1, <2>2
  <2>6. /\ PipeTypeOK' /\ line'.failed = line.failed
        /\ line'.proc = [[line.proc EXCEPT ![p] = q] EXCEPT ![child] = r]
        /\ line'.pipe = line.pipe /\ line'.left = line.left /\ line'.counted = line.counted
        /\ line'.report = line.report
    BY <1>1, <2>4, <2>5 DEF PipeTypeOK
  <2>7. /\ line'.proc[p] = q /\ line'.proc[child] = r
        /\ \A o \in Proc \ {p, child} : line'.proc[o] = line.proc[o]
    BY <1>1, <2>6
  <2> QED
    BY <2>1, <2>2, <2>6, <2>7
<1>8. CASE Fork1
  <2>1. Fork("main", "cat", "fork2") /\ line.proc["main"].pc = "fork1"
    BY <1>8 DEF Fork1, At
  <2>2. CASE line' = Fails("main")
    BY <1>3, <2>2, FailsKeeps
  <2>3. CASE line' # Fails("main")
    <3>1. /\ PipeTypeOK' /\ line'.failed = line.failed
          /\ line'.proc["main"].pc = "fork2" /\ line'.proc["main"].fd = line.proc["main"].fd
          /\ line'.proc["cat"].pc = "dup" /\ line'.proc["cat"].fd = line.proc["main"].fd
          /\ line'.proc["wc"] = line.proc["wc"] /\ line'.proc["stray"] = line.proc["stray"]
          /\ line'.pipe = line.pipe /\ line'.left = line.left /\ line'.counted = line.counted
          /\ line'.report = line.report
      BY <1>3, <1>7, <2>1, <2>3
    <3>2. ~line.failed => Forked' /\ Ends' /\ Flow'
      BY <1>4, <2>1, <3>1 DEF Forked, Ends, Flow
    <3> QED
      BY <3>1, <3>2 DEF PipeInv
  <2> QED
    BY <2>2, <2>3
<1>9. ASSUME NEW p \in Proc, Fork2(p) PROVE PipeInv'
  <2> DEFINE child == IF p = "main" THEN "wc" ELSE "stray"
  <2>1. Fork(p, child, "shut") /\ line.proc[p].pc = "fork2"
    BY <1>9 DEF Fork2, At
  <2>2. CASE line' = Fails(p)
    BY <2>2, FailsKeeps
  <2>3. CASE line' # Fails(p) /\ p # "main"
    <3>1. line.failed
      BY <1>3, <1>4, <2>1, <2>3 DEF Forked
    <3>2. CASE p # "stray"
      <4>1. PipeTypeOK' /\ line'.failed = line.failed
        BY <1>3, <1>7, <2>1, <2>3, <3>2
      <4> QED
        BY <3>1, <4>1 DEF PipeInv
    <3>3. CASE p = "stray"
      <4> DEFINE q == [line.proc[p] EXCEPT !.pc = "shut"]
                 r == [pc |-> "dup", fd |-> line.proc[p].fd]
      <4>1. q \in ProcState /\ r \in ProcState
        BY <1>2 DEF ProcState
      <4>2. line' = [Moved(p, q) EXCEPT !.proc = [@ EXCEPT ![p] = r]]
        BY <1>5, <2>1, <2>3, <3>3 DEF Fork
      <4> HIDE DEF q, r
      <4>3. line' = Moved(p, r)
        BY <1>1, <4>1, <4>2, MovedTwice
      <4>4. PipeTypeOK' /\ line'.failed = line.failed
        BY <1>1, <4>1, <4>3, OneMoves
      <4> QED
        BY <3>1, <4>4 DEF PipeInv
    <3> QED
      BY <3>2, <3>3
  <2>4. CASE line' # Fails(p) /\ p = "main"
    <3>1. /\ PipeTypeOK' /\ line'.failed = line.failed
          /\ line'.proc["main"].pc = "shut" /\ line'.proc["main"].fd = line.proc["main"].fd
          /\ line'.proc["wc"].pc = "dup" /\ line'.proc["wc"].fd = line.proc["main"].fd
          /\ line'.proc["cat"] = line.proc["cat"] /\ line'.proc["stray"] = line.proc["stray"]
          /\ line'.pipe = line.pipe /\ line'.left = line.left /\ line'.counted = line.counted
          /\ line'.report = line.report
      BY <1>3, <1>7, <2>1, <2>4
    <3>2. ~line.failed => Forked' /\ Ends' /\ Flow'
      BY <1>4, <2>1, <2>4, <3>1 DEF Forked, Ends, Flow
    <3> QED
      BY <3>1, <3>2 DEF PipeInv
  <2> QED
    BY <2>2, <2>3, <2>4
<1>10. ASSUME NEW p \in Proc, NEW r \in ProcState, line' = Moved(p, r),
              ~line.failed => /\ p # "stray"
                              /\ line.proc[p].pc \notin {"none", "ended"}
                              /\ r.pc # "none"
                              /\ p = "main" => \/ line.proc[p].pc = "shut" /\ r.pc = "wait"
                                               \/ r.pc = "ended" /\ line.proc["wc"].pc = "ended"
                                                  /\ line.proc["main"].pc = "wait"
                              /\ p = "cat" => /\ r.pc \in {"close", "exec", "run", "ended"}
                                              /\ r.pc = "ended" => line.left = 0
                                              /\ r.pc # "ended" => r.fd["out"] = "w"
                              /\ p = "wc" => /\ r.pc \in {"close", "exec", "run"}
                                             /\ r.fd["in"] = "r"
       PROVE  PipeInv'
  <2>1. /\ PipeTypeOK' /\ line'.failed = line.failed /\ line'.proc[p] = r
        /\ \A q \in Proc \ {p} : line'.proc[q] = line.proc[q]
        /\ line'.pipe = line.pipe /\ line'.left = line.left /\ line'.counted = line.counted
        /\ line'.report = line.report
    BY <1>1, <1>10, OneMoves
  <2>2. CASE ~line.failed /\ p = "main"
    <3>1. \A q \in {"cat", "wc", "stray"} : line'.proc[q] = line.proc[q]
      BY <1>3, <2>1, <2>2
    <3> QED
      BY <1>4, <1>10, <2>1, <2>2, <3>1 DEF PipeInv, Forked, Ends, Flow
  <2>3. CASE ~line.failed /\ p = "cat"
    <3>1. \A q \in {"main", "wc", "stray"} : line'.proc[q] = line.proc[q]
      BY <1>3, <2>1, <2>3
    <3> QED
      BY <1>4, <1>10, <2>1, <2>3, <3>1 DEF PipeInv, Forked, Ends, Flow
  <2>4. CASE ~line.failed /\ p = "wc"
    <3>1. \A q \in {"main", "cat", "stray"} : line'.proc[q] = line.proc[q]
      BY <1>3, <2>1, <2>4
    <3> QED
      BY <1>4, <1>10, <2>1, <2>4, <3>1 DEF PipeInv, Forked, Ends, Flow
  <2>5. CASE line.failed
    BY <2>1, <2>5 DEF PipeInv
  <2> QED
    BY <1>3, <1>10, <2>2, <2>3, <2>4, <2>5
<1>11. ASSUME NEW p \in Proc, Dup(p) PROVE PipeInv'
  <2> DEFINE from == IF p = "cat" THEN "fd1" ELSE "fd0"
             to == IF p = "cat" THEN "out" ELSE "in"
             end == line.proc[p].fd[from]
             q == [line.proc[p] EXCEPT !.pc = "close"]
             r == [q EXCEPT !.fd[to] = end]
  <2>1. CASE line' = Fails(p)
    BY <2>1, FailsKeeps
  <2>2. CASE line' = [GoTo(p, "close") EXCEPT !.proc[p].fd[to] = end]
    <3>1. /\ from \in Descriptor /\ to \in Descriptor /\ end \in {"shut", "r", "w"}
          /\ q \in ProcState /\ q.pc = "close" /\ q.fd = line.proc[p].fd
      <4>1. from \in Descriptor /\ to \in Descriptor
        BY <1>3
      <4>2. q \in ProcState /\ q.pc = "close" /\ q.fd = line.proc[p].fd
        BY <1>2, <1>5 DEF ProcState
      <4>3. end \in {"shut", "r", "w"}
        BY <1>2, <4>1
      <4> QED
        BY <4>1, <4>2, <4>3
    <3>2. r.pc = "close" /\ r.fd[to] = end
      BY <1>2, <3>1 DEF ProcState
    <3>3. r \in ProcState /\ line' = Moved(p, r)
      <4> HIDE DEF from, to, end, q
      <4>1. line' = [Moved(p, q) EXCEPT !.proc[p].fd[to] = end]
        BY <1>5, <2>2 DEF q
      <4>2. PICK k \in ProcState, d \in Descriptor, e \in {"shut", "r", "w"} :
              k = q /\ d = to /\ e = end
        BY <3>1
      <4>3. /\ Turned(k, d, e) \in ProcState
            /\ TurnedIn(Moved(p, k), p, d, e) = Moved(p, Turned(k, d, e))
        BY <1>1, MovedDescriptor
      <4> QED
        BY <4>1, <4>2, <4>3 DEF r, Turned, TurnedIn
    <3>4. line.proc[p].pc = "dup"
      BY <1>11 DEF Dup, At
    <3> HIDE DEF r, q
    <3>5. ~line.failed => /\ p \in {"cat", "wc"}
                          /\ p = "cat" => r.fd["out"] = "w"
                          /\ p = "wc" => r.fd["in"] = "r"
      BY <1>3, <1>4, <3>2, <3>4 DEF Forked, Ends
    <3> HIDE DEF from, to, end
    <3> QED
      BY <1>10, <3>2, <3>3, <3>4, <3>5
  <2> QED
    BY <1>11, <2>1, <2>2 DEF Dup
<1>12. ASSUME NEW p \in Proc, NEW x \in {"exec", "wait"},
              line' = [GoTo(p, x) EXCEPT !.proc[p].fd = ClosedBoth(p, @)],
              \/ line.proc[p].pc = "close" /\ x = "exec"
              \/ line.proc[p].pc = "shut" /\ x = "wait"
       PROVE  PipeInv'
  <2> DEFINE fds == ClosedBoth(p, line.proc[p].fd)
             q == [line.proc[p] EXCEPT !.pc = x]
             r == [q EXCEPT !.fd = fds]
  <2>1. /\ q \in ProcState /\ q.pc = x /\ q.fd = line.proc[p].fd
        /\ GoTo(p, x) = Moved(p, q)
    <3>1. q.pc = x /\ q.fd = line.proc[p].fd
      BY <1>2 DEF ProcState
    <3>2. x \in {"fork1", "fork2", "close", "exec", "shut", "wait", "run", "ended"}
      OBVIOUS
    <3> QED
      BY <1>5, <3>1, <3>2
  <2>2. /\ fds \in [Descriptor -> {"shut", "r", "w"}]
        /\ fds["in"] = line.proc[p].fd["in"] /\ fds["out"] = line.proc[p].fd["out"]
    BY <1>2, <1>3 DEF ClosedBoth
  <2> HIDE DEF fds, q
  <2>3. r \in ProcState /\ r.pc = x /\ r.fd = fds
    BY <2>1, <2>2 DEF ProcState
  <2>4. line' = Moved(p, r)
    <3>1. Moved(p, q).proc[p] = q
      BY <1>1, <2>1, <2>3, MovedTwice
    <3>2. line' = [Moved(p, q) EXCEPT !.proc[p].fd = fds]
      BY <1>12, <2>1, <3>1 DEF fds
    <3>3. ASSUME NEW m, m.proc[p] = q
          PROVE  [m EXCEPT !.proc[p].fd = fds] = [m EXCEPT !.proc = [@ EXCEPT ![p] = r]]
      BY <3>3
    <3>4. [Moved(p, q) EXCEPT !.proc = [@ EXCEPT ![p] = r]] = Moved(p, r)
      BY <1>1, <2>1, <2>3, MovedTwice
    <3> HIDE DEF r
    <3> QED
      BY <3>1, <3>2, <3>3, <3>4
  <2> HIDE DEF r
  <2>5. ~line.failed => /\ p = "main" => x = "wait" /\ line.proc[p].pc = "shut"
                        /\ p # "main" => x = "exec" /\ p \in {"cat", "wc"}
                        /\ p = "cat" => r.fd["out"] = "w"
                        /\ p = "wc" => r.fd["in"] = "r"
    BY <1>3, <1>4, <1>12, <2>2, <2>3 DEF Forked, Ends
  <2> QED
    BY <1>10, <1>12, <2>3, <2>4, <2>5
<1>13. ASSUME NEW p \in Proc, CloseEnds(p) PROVE PipeInv'
  BY <1>12, <1>13 DEF CloseEnds, At
<1>14. ASSUME NEW p \in Proc, Exec(p) PROVE PipeInv'
  <2>1. line.proc[p].pc = "exec"
    BY <1>14 DEF Exec, At
  <2>2. CASE line' = GoTo(p, "run")
    <3> DEFINE r == [line.proc[p] EXCEPT !.pc = "run"]
    <3>1. /\ r \in ProcState /\ line' = Moved(p, r) /\ r.pc = "run" /\ r.fd = line.proc[p].fd
      <4>1. r.pc = "run" /\ r.fd = line.proc[p].fd
        BY <1>2 DEF ProcState
      <4> QED
        BY <1>5, <2>2, <4>1
    <3> HIDE DEF r
    <3>2. ~line.failed => /\ p \in {"cat", "wc"}
                          /\ p = "cat" => r.fd["out"] = "w"
                          /\ p = "wc" => r.fd["in"] = "r"
      BY <1>3, <1>4, <2>1, <3>1 DEF Forked, Ends
    <3> QED
      BY <1>10, <2>1, <3>1, <3>2
  <2>3. CASE line' = [GoTo(p, IF p = "cat" THEN "fork2" ELSE "shut") EXCEPT !.failed = TRUE]
    <3> DEFINE x == IF p = "cat" THEN "fork2" ELSE "shut"
               r == [line.proc[p] EXCEPT !.pc = x]
    <3>1. r \in ProcState /\ line' = [Moved(p, r) EXCEPT !.failed = TRUE]
      BY <1>5, <2>3
    <3> HIDE DEF r
    <3>2. line' = [line EXCEPT !.proc = [@ EXCEPT ![p] = r], !.failed = TRUE]
      BY <1>1, <3>1 DEF Moved, PipeTypeOK
    <3> QED
      BY <3>1, <3>2, FailureKeeps
  <2> QED
    BY <1>14, <2>2, <2>3 DEF Exec
<1>15. ASSUME NEW p \in Proc, Wait(p) PROVE PipeInv'
  <2> DEFINE r == [Proc0 EXCEPT !.pc = "ended"]
  <2>1. /\ r \in ProcState /\ r.pc = "ended" /\ line' = Moved(p, r) /\ line.proc[p].pc = "wait"
    BY <1>15 DEF Wait, At, EndOf, Moved, ProcState, Proc0
  <2>2. p = "main" => line.proc["wc"].pc = "ended"
    BY <1>15 DEF Wait, WaitsFor, At
  <2> HIDE DEF r
  <2>3. ~line.failed => p = "main"
    BY <1>3, <1>4, <2>1 DEF Forked
  <2> QED
    BY <1>10, <2>1, <2>2, <2>3
<1>16. CASE Cat
  <2> DEFINE r == [Proc0 EXCEPT !.pc = "ended"]
  <2>1. line.proc["cat"].pc = "run"
    BY <1>16 DEF Cat, At
  <2>2. CASE line' = EndOf(line, "cat") /\ (line.left = 0 \/ ~Holds("r"))
    <3>1. r \in ProcState /\ r.pc = "ended" /\ line' = Moved("cat", r)
      BY <2>2 DEF EndOf, Moved, ProcState, Proc0
    <3>2. ~line.failed => Holds("r")
      <4>1. SUFFICES ASSUME ~line.failed PROVE Holds("r")
        OBVIOUS
      <4>2. CASE line.proc["main"].pc \in {"fork1", "fork2", "shut"}
        BY <1>3, <1>4, <4>1, <4>2 DEF Ends, Holds
      <4>3. CASE line.proc["main"].pc \notin {"fork1", "fork2", "shut"}
        <5>1. line.proc["wc"].pc \in {"dup", "close", "exec", "run"}
          BY <1>4, <2>1, <4>1, <4>3 DEF Forked, Flow
        <5>2. line.proc["wc"].fd["fd0"] = "r" \/ line.proc["wc"].fd["in"] = "r"
          BY <1>4, <4>1, <5>1 DEF Ends
        <5> QED
          BY <1>3, <5>2 DEF Holds
      <4> QED
        BY <4>2, <4>3
    <3> HIDE DEF r
    <3> QED
      BY <1>3, <1>10, <2>1, <2>2, <3>1, <3>2
  <2>3. CASE /\ line.left > 0 /\ line' = [line EXCEPT !.pipe = @ + 1, !.left = @ - 1]
    <3>1. PICK x \in Nat, y \in Nat : x = line.pipe + 1 /\ y = line.left - 1
      BY <1>1, <2>3
    <3>2. /\ PipeTypeOK' /\ line'.failed = line.failed /\ line'.proc = line.proc
          /\ line'.pipe = x /\ line'.left = y /\ line'.counted = line.counted
          /\ line'.report = line.report
      BY <1>1, <2>3, <3>1 DEF PipeTypeOK
    <3>3. x + y + line.counted = line.pipe + line.left + line.counted
      BY <1>1, <3>1
    <3> QED
      BY <1>4, <2>1, <3>2, <3>3 DEF PipeInv, Forked, Ends, Flow
  <2> QED
    BY <1>16, <2>2, <2>3 DEF Cat
<1>17. CASE Wc
  <2> DEFINE r == [Proc0 EXCEPT !.pc = "ended"]
  <2>1. line.proc["wc"].pc = "run"
    BY <1>17 DEF Wc, At
  <2>2. CASE line.pipe > 0 /\ line' = [line EXCEPT !.pipe = @ - 1, !.counted = @ + 1]
    <3>1. PICK x \in Nat, y \in Nat : x = line.pipe - 1 /\ y = line.counted + 1
      BY <1>1, <2>2
    <3>2. /\ PipeTypeOK' /\ line'.failed = line.failed /\ line'.proc = line.proc
          /\ line'.pipe = x /\ line'.left = line.left /\ line'.counted = y
          /\ line'.report = line.report
      BY <1>1, <2>2, <3>1 DEF PipeTypeOK
    <3>3. x + line.left + y = line.pipe + line.left + line.counted
      BY <1>1, <3>1
    <3> QED
      BY <1>4, <2>1, <3>2, <3>3 DEF PipeInv, Forked, Ends, Flow
  <2>3. CASE /\ line.pipe = 0 /\ ~Holds("w")
             /\ line' = EndOf([line EXCEPT !.report = line.counted], "wc")
    <3>1. r \in ProcState /\ r.pc = "ended" /\ [line.proc EXCEPT !["wc"] = r] \in [Proc -> ProcState]
      BY <1>1 DEF ProcState, Proc0
    <3>2. PICK n \in Int : n = line.counted
      BY <1>1
    <3>7. line' = [line EXCEPT !.report = n, !.proc = [@ EXCEPT !["wc"] = r]]
      BY <1>1, <2>3, <3>2 DEF EndOf, PipeTypeOK
    <3> HIDE DEF r
    <3>3. /\ PipeTypeOK' /\ line'.failed = line.failed
          /\ line'.proc = [line.proc EXCEPT !["wc"] = r]
          /\ line'.pipe = line.pipe /\ line'.left = line.left /\ line'.counted = line.counted
          /\ line'.report = line.counted
      BY <1>1, <3>1, <3>2, <3>7 DEF PipeTypeOK
    <3>4. line'.proc["wc"] = r /\ \A q \in {"main", "cat", "stray"} : line'.proc[q] = line.proc[q]
      BY <1>1, <1>3, <3>3
    <3>5. ~line.failed => line.proc["cat"].pc = "ended"
      <4>1. SUFFICES ASSUME ~line.failed, line.proc["cat"].pc # "ended" PROVE Holds("w")
        BY <2>3
      <4>2. line.proc["cat"].pc \in {"dup", "close", "exec", "run"}
        BY <1>4, <2>1, <4>1 DEF Forked
      <4>3. line.proc["cat"].fd["fd1"] = "w" \/ line.proc["cat"].fd["out"] = "w"
        BY <1>4, <4>1, <4>2 DEF Ends
      <4> QED
        BY <1>3, <4>3 DEF Holds
    <3>6. ~line.failed => line.counted = Blocks
      BY <1>1, <1>4, <2>3, <3>5 DEF Flow
    <3> QED
      BY <1>4, <2>1, <3>1, <3>3, <3>4, <3>5, <3>6 DEF PipeInv, Forked, Ends, Flow
  <2> QED
    BY <1>17, <2>2, <2>3 DEF Wc
<1>18. CASE UNCHANGED line
  BY <1>18 DEF PipeInv, PipeTypeOK, Forked, Ends, Flow
<1> QED
  BY <1>6, <1>8, <1>9, <1>11, <1>13, <1>14, <1>15, <1>16, <1>17, <1>18 DEF PipelineNext, ProcessStep

\* When main has ended wc has counted all of the file.
LEMMA PipelineCounts == PipeInv => WholeFileCounted
BY DEF PipeInv, Forked, Flow, WholeFileCounted, At

-----------------------------------------------------------------------------
(* The programs together *)

LabInv == PipeInv /\ QuizInv /\ ThreadsInv /\ MoveInv

\* Whatever the laboratory programs do, and wherever they are stopped, what they
\* report is true: the words wc counts, the verdict about the answer, the status
\* of each thread; and mv keeps the file.
THEOREM LabResultsHolds == CommandsSpec => []LabResults
<1>1. CommandsInit => LabInv
  <2>1. CommandsInit => PipelineInit /\ QuizInit /\ ThreadsInit /\ MoveInit
    BY DEF CommandsInit, MoveIdle
  <2> QED
    BY <2>1, PipelineStarts, QuizStarts, ThreadsStart, MoveStarts DEF LabInv
<1>2. LabInv /\ [CommandsNext]_allVars => LabInv'
  <2>1. [CommandsNext]_allVars =>
          [PipelineNext]_line /\ [QuizNext]_quiz /\ [ThreadsNext]_team /\ [MoveNext]_mv
    BY DEF CommandsNext, Only, allVars, labVars
  <2> QED
    BY <2>1, PipelineGoesOn, QuizGoesOn, ThreadsGoOn, MoveGoesOn DEF LabInv
<1>3. LabInv => LabResults
  <2>1. ThreadsInv => OwnStatus
    BY DEF ThreadsInv
  <2> QED
    BY <2>1, PipelineCounts, QuizJudges, MoveKeeps DEF LabInv, LabResults
<1> QED
  BY <1>1, <1>2, <1>3, PTL DEF CommandsSpec

=============================================================================
