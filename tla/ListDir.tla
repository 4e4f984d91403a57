------------------------------- MODULE ListDir -------------------------------
(***************************************************************************)
(* How ls lists a directory: ls_execute, ls_countEntries and               *)
(* ls_fillEntries in JulioDominguezArjona.c.                               *)
(*                                                                         *)
(* The command reads the directory twice: once to count the entries and,   *)
(* after rewinddir, once to store pointers to them in an array of that     *)
(* size.  The pointers are the ones readdir returned: they point into the  *)
(* buffer of the directory stream, which the next getdents overwrites.     *)
(* Meanwhile other programs create and remove files.                       *)
(*                                                                         *)
(* A name is the number of its place in the directory order.  What ls -S   *)
(* does with the array is the subject of SizeSort; here it is one step.    *)
(***************************************************************************)
EXTENDS Integers, Sequences, FiniteSets

CONSTANTS
  Names,       \* the names a directory may hold, in directory order
  Hidden,      \* those that begin with '.'
  Unowned,     \* those whose owner or group has no entry in the databases
  Size,        \* the size of each
  BatchSize,   \* the entries that fit the buffer of a stream
  MaxChanges   \* bound: files created or removed while ls runs

ASSUME ListDirAssumption ==
  /\ Names \subseteq Nat \ {0} /\ IsFiniteSet(Names)
  /\ Hidden \subseteq Names
  /\ Unowned \subseteq Names
  /\ Size \in [Names -> Nat]
  /\ BatchSize \in Nat \ {0}
  /\ MaxChanges \in Nat

Slot == 1 .. BatchSize
NoName == 0     \* a string that is no name of this directory
Unset == 0      \* an element of the array no pointer was stored in

VARIABLES
  present,   \* the names in the directory
  modifiers, \* the options of the command
  pc,        \* "count", "fill", "sort", "print", "done" or "crashed"
  pos,       \* the stream: the last name the kernel has returned,
  buffer,    \*   the names in the slots of its buffer,
  filled,    \*   how many slots the last getdents filled,
  at,        \*   and how many of them readdir has returned
  total,     \* totalEntries
  index,     \* the pointers ls_fillEntries has stored
  entries,   \* the array of pointers: slots of the buffer
  i,         \* the loop variable of ls_execute
  out,       \* the lines printed: a name and whose details it shows
  atOpen,    \* history: the names when the directory was opened
  created,   \* history: the names created since,
  removed    \* history: and the names removed

stream == <<pos, buffer, filled, at>>
history == <<atOpen, created, removed>>
vars == <<present, modifiers, pc, stream, total, index, entries, i, out, history>>

Init ==
  /\ present \in SUBSET Names
  /\ modifiers \in SUBSET {"a", "l", "S"}
  /\ pc = "count"
  /\ pos = 0
  /\ buffer = [s \in Slot |-> NoName]
  /\ filled = 0
  /\ at = 0
  /\ total = 0
  /\ index = 0
  /\ entries = <<>>
  /\ i = 0
  /\ out = <<>>
  /\ atOpen = present
  /\ created = {}
  /\ removed = {}

-----------------------------------------------------------------------------
(* readdir *)

Later == {n \in present : n > pos}
Rank(n) == Cardinality({m \in Later : m <= n})
InBatch(s) == \E n \in Later : Rank(n) = s

\* The next entry of the buffer, or the first of the next batch.
ReadDir ==
  \/ /\ at < filled
     /\ at' = at + 1
     /\ UNCHANGED <<pos, buffer, filled>>
  \/ /\ at = filled
     /\ Later # {}
     /\ buffer' = [s \in Slot |->
                     IF InBatch(s) THEN CHOOSE n \in Later : Rank(n) = s
                                   ELSE buffer[s]]
     /\ filled' = Cardinality({s \in Slot : InBatch(s)})
     /\ pos' = buffer'[filled']
     /\ at' = 1

EndOfDirectory == at = filled /\ Later = {}

-----------------------------------------------------------------------------
(* The command *)

\* Mutated form: the directory is not rewound.
NotRewound == UNCHANGED <<pos, filled, at>>

Counts(n) == "a" \in modifiers \/ n \notin Hidden
Rewind == pos' = 0 /\ filled' = 0 /\ at' = 0

\* One round of ls_countEntries.
Count ==
  /\ pc = "count"
  /\ ReadDir
  /\ total' = IF Counts(buffer'[at']) THEN total + 1 ELSE total
  /\ UNCHANGED <<present, modifiers, pc, index, entries, i, out, history>>

\* rewinddir, and the allocation of the array.
CountEnd ==
  /\ pc = "count"
  /\ EndOfDirectory
  /\ Rewind
  /\ entries' = [k \in 1 .. total |-> Unset]
  /\ pc' = IF total = 0 THEN "done" ELSE "fill"
  /\ UNCHANGED <<present, modifiers, buffer, total, index, i, out, history>>

\* Mutated forms of the next two: hidden entries are stored; the pointer is one
\* entry too far.
StoresAll(n) == TRUE
Stores(n) == "a" \in modifiers \/ n \notin Hidden
Pointer == at'

\* One round of ls_fillEntries.  It does not look at totalEntries: index > total
\* says that it has written past the array.
Fill ==
  /\ pc = "fill"
  /\ ReadDir
  /\ IF Stores(buffer'[at'])
       THEN /\ entries' = IF index < total THEN [entries EXCEPT ![index + 1] = Pointer]
                                           ELSE entries
            /\ index' = index + 1
       ELSE UNCHANGED <<entries, index>>
  /\ UNCHANGED <<present, modifiers, pc, total, i, out, history>>

FillEnd ==
  /\ pc = "fill"
  /\ EndOfDirectory
  /\ pc' = IF "S" \in modifiers THEN "sort" ELSE "print"
  /\ UNCHANGED <<present, modifiers, stream, total, index, entries, i, out, history>>

\* The name an element of the array points to.
NameOf(k) == IF entries[k] = Unset THEN NoName ELSE buffer[entries[k]]

\* ls_sortEntries.  The size of an entry that is gone is whatever the struct
\* held.
Sort ==
  /\ pc = "sort"
  /\ \A k \in 1 .. total : entries[k] # Unset
  /\ \E key \in [1 .. total -> {Size[n] : n \in Names}] :
       /\ \A k \in 1 .. total : NameOf(k) \in present => key[k] = Size[NameOf(k)]
       /\ LET Before(m, k) == key[m] > key[k] \/ (key[m] = key[k] /\ m <= k)
              Place(k) == Cardinality({m \in 1 .. total : Before(m, k)})
          IN  entries' = [p \in 1 .. total |->
                            entries[CHOOSE k \in 1 .. total : Place(k) = p]]
  /\ pc' = "print"
  /\ UNCHANGED <<present, modifiers, stream, total, index, i, out, history>>

\* With -l, the details are those lstat reports, or whatever the struct held when
\* the entry is gone: those of an earlier entry or of no file.
Details(n) ==
  IF "l" \in modifiers THEN {d \in (Names \ Unowned) \cup {NoName} : n \in present => d = n}
                       ELSE {n}

\* A line is printed, for the name the element is said to point to.
Prints(n) ==
  /\ \E d \in Details(n) : out' = Append(out, [name |-> n, details |-> d])
  /\ i' = i + 1

\* Mutated form: the loop does not count.
PrintForever ==
  /\ pc = "print"
  /\ i < total
  /\ entries[i + 1] # Unset
  /\ out' = <<[name |-> NameOf(i + 1), details |-> NameOf(i + 1)]>>
  /\ UNCHANGED <<present, modifiers, pc, stream, total, index, entries, i, history>>

\* One round of the loop of ls_execute.
PrintEntry ==
  /\ pc = "print"
  /\ i < total
  /\ entries[i + 1] # Unset
  /\ Prints(NameOf(i + 1))
  /\ UNCHANGED <<present, modifiers, pc, stream, total, index, entries, history>>

PrintEnd ==
  /\ pc = "print"
  /\ i = total
  /\ pc' = "done"
  /\ UNCHANGED <<present, modifiers, stream, total, index, entries, i, out, history>>

\* getpwuid or getgrgid finds no entry, and its NULL is used.
NoOwner ==
  /\ pc = "print"
  /\ i < total
  /\ "l" \in modifiers
  /\ entries[i + 1] # Unset
  /\ NameOf(i + 1) \in present => NameOf(i + 1) \in Unowned
  /\ pc' = "crashed"
  /\ UNCHANGED <<present, modifiers, stream, total, index, entries, i, out, history>>

\* What the program makes of a pointer that was never stored: it may look like
\* an entry of any size, or end the program.
SortStrayPointer ==
  /\ pc = "sort"
  /\ \E k \in 1 .. total : entries[k] = Unset
  /\ \/ pc' = "crashed" /\ UNCHANGED entries
     \/ /\ pc' = "print"
        /\ \E f \in [1 .. total -> 1 .. total] :
             /\ \A k, m \in 1 .. total : f[k] = f[m] => k = m
             /\ entries' = [k \in 1 .. total |-> entries[f[k]]]
  /\ UNCHANGED <<present, modifiers, stream, total, index, i, out, history>>

\* The memory the array is allocated from may hold pointers of an earlier ls into
\* the buffer of its stream, which nobody closes: any name may be printed, one that
\* is printed elsewhere included.
PrintStrayPointer ==
  /\ pc = "print"
  /\ i < total
  /\ entries[i + 1] = Unset
  /\ \/ pc' = "crashed" /\ UNCHANGED <<i, out>>
     \/ (\E n \in Names \cup {NoName} : Prints(n)) /\ UNCHANGED pc
  /\ UNCHANGED <<present, modifiers, stream, total, index, entries, history>>

\* Writing past the array may end the program at any later use of the heap.
HeapDamage ==
  /\ index > total
  /\ pc \in {"fill", "sort", "print"}
  /\ pc' = "crashed"
  /\ UNCHANGED <<present, modifiers, stream, total, index, entries, i, out, history>>

-----------------------------------------------------------------------------
(* Other programs *)

Running == pc \notin {"done", "crashed"}
MayChange == Running /\ Cardinality(created) + Cardinality(removed) < MaxChanges

Create ==
  /\ MayChange
  /\ \E n \in Names \ (present \cup created) :
       present' = present \cup {n} /\ created' = created \cup {n}
  /\ UNCHANGED <<modifiers, pc, stream, total, index, entries, i, out, atOpen, removed>>

Remove ==
  /\ MayChange
  /\ \E n \in present \ removed :
       present' = present \ {n} /\ removed' = removed \cup {n}
  /\ UNCHANGED <<modifiers, pc, stream, total, index, entries, i, out, atOpen, created>>

Finished == ~Running /\ UNCHANGED vars

Ls ==
  \/ Count \/ CountEnd \/ Fill \/ FillEnd
  \/ Sort \/ PrintEntry \/ PrintEnd
  \/ NoOwner \/ SortStrayPointer \/ PrintStrayPointer \/ HeapDamage

Next == Ls \/ Create \/ Remove \/ Finished

\* The command runs on; other programs need do nothing.
Spec == Init /\ [][Next]_vars /\ WF_vars(Ls)

-----------------------------------------------------------------------------
(* Properties *)

TypeOK ==
  /\ present \subseteq Names
  /\ modifiers \subseteq {"a", "l", "S"}
  /\ pc \in {"count", "fill", "sort", "print", "done", "crashed"}
  /\ pos \in Names \cup {0}
  /\ buffer \in [Slot -> Names \cup {NoName}]
  /\ filled \in 0 .. BatchSize
  /\ at \in 0 .. filled
  /\ total \in Nat
  /\ index \in Nat
  /\ entries \in Seq(Slot \cup {Unset})
  /\ pc \notin {"count", "crashed"} => Len(entries) = total
  /\ i \in 0 .. total
  /\ out \in Seq([name : Names \cup {NoName}, details : Names \cup {NoName}])
  /\ atOpen \subseteq Names /\ created \subseteq Names /\ removed \subseteq Names

\* The entries ls is asked for.
Listed(n) == "a" \in modifiers \/ n \notin Hidden

\* When no file is created while ls runs, the second reading of the directory
\* finds no more entries than the first: the array is never overrun.
NoOverrun == created = {} => index <= total

\* When no file is removed, the second reading finds no fewer: every element of
\* the array is set before it is used.
NoStrayPointer ==
  removed = {} /\ pc \in {"sort", "print"} =>
    \A k \in 1 .. total : entries[k] # Unset

Fits == Cardinality(atOpen) <= BatchSize

\* ls -S prints larger files first, ls the order of the directory.
InOrder(m, n) ==
  IF "S" \in modifiers THEN Size[m] > Size[n] \/ (Size[m] = Size[n] /\ m < n)
                       ELSE m < n

\* A directory that fits the buffer and that nobody changes is listed: every
\* entry once, in order, with its own details.
ListsDirectory ==
  pc = "done" /\ Fits /\ created = {} /\ removed = {} =>
    /\ {out[k].name : k \in DOMAIN out} = {n \in atOpen : Listed(n)}
    /\ \A k, m \in DOMAIN out : k < m => InOrder(out[k].name, out[m].name)
    /\ \A k \in DOMAIN out : out[k].details = out[k].name

\* The elements of the array that ls_fillEntries left as they were allocated.
LeftUnset == {k \in 1 .. total : entries[k] = Unset}

\* When files are only removed, those that stay are still listed: each once by its
\* own pointer, and again only by elements that were left unset.
SurvivorsListed ==
  pc = "done" /\ Fits /\ created = {} =>
    \A n \in atOpen \ removed :
      Listed(n) => Cardinality({k \in DOMAIN out : out[k].name = n})
                     \in 1 .. 1 + Cardinality(LeftUnset)

\* Only a change of the directory, or a file without owner under -l, ends the
\* console.
CrashNeedsCause ==
  pc = "crashed" => \/ created # {} \/ removed # {}
                    \/ "l" \in modifiers /\ Unowned # {}

\* Memory and the ends of the program: what ls relies on is broken by other
\* programs only.
ListDirInvariant == TypeOK /\ NoOverrun /\ NoStrayPointer /\ CrashNeedsCause

\* What is printed is the directory, as far as other programs let it be.
ListingComplete == ListsDirectory /\ SurvivorsListed

\* Whatever other programs do, ls ends.
Returns == <>(pc \in {"done", "crashed"})

=============================================================================
