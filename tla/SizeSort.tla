------------------------------ MODULE SizeSort ------------------------------
(***************************************************************************)
(* ls -S: ls_sortEntries in JulioDominguezArjona.c.                        *)
(*                                                                         *)
(* A first loop stats every entry and keeps its size in an int; a bubble   *)
(* sort then swaps the two arrays entries and entriesSize in step.  An     *)
(* entry is named by its place in the order readdir returned it, so the    *)
(* initial array is the identity.                                          *)
(***************************************************************************)
EXTENDS Integers, Sequences

CONSTANTS
  N,        \* totalEntries
  Sizes,    \* the sizes (off_t) a file may have
  IntMod    \* the number of values of an int, 2^32 in the code

ASSUME SortAssumption ==
  /\ N \in Nat
  /\ Sizes \subseteq Nat
  /\ IntMod \in Nat \ {0}

Entry == 1 .. N

\* The value of an off_t stored in an int.
ToInt(size) ==
  LET low == size % IntMod
  IN  IF 2 * low < IntMod THEN low ELSE low - IntMod

VARIABLES
  fileSize,     \* the size of each entry
  gone,         \* the entries removed since readdir returned them
  sortPc,           \* "stat", "sort" or "done"
  i, j,         \* the loop variables
  entries,      \* the array to sort
  entriesSize,  \* the parallel array of sizes; entriesSize[k] is set for k <= i
  key           \* history: the size read for each entry

sortVars == <<fileSize, gone, sortPc, i, j, entries, entriesSize, key>>

SortInit ==
  /\ fileSize \in [Entry -> Sizes]
  /\ gone \in SUBSET Entry
  /\ sortPc = "stat"
  /\ i = 0
  /\ j = 0
  /\ entries = [k \in Entry |-> k]
  /\ entriesSize = [k \in Entry |-> 0]
  /\ key = [e \in Entry |-> 0]

\* lstat of one entry.  When it fails (the entry was removed after readdir)
\* the struct keeps whatever it held: any size.
StatEntry ==
  /\ sortPc = "stat"
  /\ i < N
  /\ \E size \in Sizes :
       /\ entries[i + 1] \notin gone => size = fileSize[entries[i + 1]]
       /\ entriesSize' = [entriesSize EXCEPT ![i + 1] = ToInt(size)]
       /\ key' = [key EXCEPT ![entries[i + 1]] = ToInt(size)]
  /\ i' = i + 1
  /\ UNCHANGED <<fileSize, gone, sortPc, j, entries>>

StatsDone ==
  /\ sortPc = "stat"
  /\ i = N
  /\ sortPc' = "sort"
  /\ i' = 0
  /\ UNCHANGED <<fileSize, gone, j, entries, entriesSize, key>>

Swapped(a, k) == [a EXCEPT ![k] = a[k + 1], ![k + 1] = a[k]]

\* Mutated forms of the next two: the order is the other way round; the inner
\* loop is one comparison short.
OutOfOrderAscending == entriesSize[j + 1] > entriesSize[j + 2]
InnerLoopShort == j < N - i - 2

OutOfOrder == entriesSize[j + 1] < entriesSize[j + 2]
SizesSwapped == Swapped(entriesSize, j + 1)
InnerLoop == j < N - i - 1

\* One comparison of the inner loop; j counts from 0 as in the code.
Compare ==
  /\ sortPc = "sort"
  /\ i < N
  /\ InnerLoop
  /\ IF OutOfOrder
       THEN entries' = Swapped(entries, j + 1) /\ entriesSize' = SizesSwapped
       ELSE UNCHANGED <<entries, entriesSize>>
  /\ j' = j + 1
  /\ UNCHANGED <<fileSize, gone, sortPc, i, key>>

\* The end of an inner loop: the outer loop counts on.
NextPass ==
  /\ sortPc = "sort"
  /\ i < N
  /\ ~InnerLoop
  /\ i' = i + 1
  /\ j' = 0
  /\ UNCHANGED <<fileSize, gone, sortPc, entries, entriesSize, key>>

SortDone ==
  /\ sortPc = "sort"
  /\ i = N
  /\ sortPc' = "done"
  /\ UNCHANGED <<fileSize, gone, i, j, entries, entriesSize, key>>

SortFinished == sortPc = "done" /\ UNCHANGED sortVars

SortNext ==
  \/ StatEntry \/ StatsDone \/ Compare \/ NextPass \/ SortDone
  \/ SortFinished

SortSpec == SortInit /\ [][SortNext]_sortVars /\ WF_sortVars(SortNext)

-----------------------------------------------------------------------------
(* Properties *)

SortTypeOK ==
  /\ fileSize \in [Entry -> Sizes]
  /\ gone \subseteq Entry
  /\ sortPc \in {"stat", "sort", "done"}
  /\ i \in 0 .. N
  /\ j \in 0 .. N
  /\ entries \in [Entry -> Entry]
  /\ entriesSize \in [Entry -> Int]
  /\ key \in [Entry -> Int]

\* The array holds every entry, once, at every step of the sort.
IsPermutation ==
  /\ \A m, k \in Entry : entries[m] = entries[k] => m = k
  /\ \A e \in Entry : \E k \in Entry : entries[k] = e

\* The two arrays stay in step: the size at a position is the size that was
\* read for the entry at that position.
InStep ==
  \A k \in Entry : (sortPc # "stat" \/ k <= i) => entriesSize[k] = key[entries[k]]

\* When ls -S prints, sizes do not increase, and entries of one size are in
\* the order of the directory.
SortedBySize ==
  sortPc = "done" =>
    \A m, k \in Entry :
      m < k => \/ key[entries[m]] > key[entries[k]]
               \/ /\ key[entries[m]] = key[entries[k]]
                  /\ entries[m] < entries[k]

\* While the sizes are read the array is untouched, and each size read is the
\* one lstat reports for that entry.
StatPart ==
  /\ sortPc = "stat" => j = 0 /\ \A k \in Entry : entries[k] = k
  /\ \A e \in Entry \ gone :
       sortPc # "stat" \/ e <= i => key[e] = ToInt(fileSize[e])

\* The loop variables stay within the bounds of the two loops.
LoopBounds ==
  sortPc = "sort" => /\ i < N => j <= N - i - 1
                     /\ i = N => j = 0

\* After i passes the last i positions hold their final sizes; within a pass,
\* position j holds the smallest size met so far.
PassPart ==
  sortPc = "sort" =>
    /\ \A k, m \in Entry : k > N - i /\ m < k => entriesSize[m] >= entriesSize[k]
    /\ i < N => \A m \in Entry : m <= j => entriesSize[m] >= entriesSize[j + 1]

\* Entries of one size never overtake each other.
Stable ==
  sortPc # "stat" =>
    \A m, k \in Entry :
      m < k /\ entriesSize[m] = entriesSize[k] => entries[m] < entries[k]

\* The sizes end up in order.
DonePart ==
  sortPc = "done" => \A m, k \in Entry : m < k => entriesSize[m] >= entriesSize[k]

\* The inductive invariant of the stat loop and of the sort.
SortInvariant ==
  /\ SortTypeOK
  /\ IsPermutation
  /\ InStep
  /\ StatPart
  /\ LoopBounds
  /\ PassPart
  /\ Stable
  /\ DonePart

\* ls -S as the usage comment of ls_command describes it: sort by file size,
\* largest first.
LargestFirst ==
  sortPc = "done" =>
    \A m, k \in Entry :
      m < k /\ entries[m] \notin gone /\ entries[k] \notin gone
        => fileSize[entries[m]] >= fileSize[entries[k]]

=============================================================================
