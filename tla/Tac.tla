--------------------------------- MODULE Tac ---------------------------------
(***************************************************************************)
(* How tac reverses a file: tac_readLineRecursive in                       *)
(* JulioDominguezArjona.c.                                                 *)
(*                                                                         *)
(* A call reads a line, calls itself for the rest of the file, and prints  *)
(* its line when that call has returned: the stack of the process holds    *)
(* the lines read, each in a buffer of its own.  Meanwhile other programs  *)
(* append to the file.                                                     *)
(*                                                                         *)
(* A line is its text and whether a newline ends it; all but the last line *)
(* of a file have one.                                                     *)
(***************************************************************************)
EXTENDS Integers, Sequences

CONSTANTS
  Text,        \* the texts of lines
  StackLimit,  \* the calls the stack of the process has room for
  MaxLength    \* bound: the lines of the file

ASSUME TacAssumption == StackLimit \in Nat \ {0} /\ MaxLength \in Nat

Line == [text : Text, nl : BOOLEAN]

VARIABLES
  file,       \* the lines of the file
  modifierB,  \* -b
  pc,         \* "call", "return", "done" or "crashed"
  offset,     \* the lines getline has returned
  eof,        \* the end-of-file mark of the stream
  stack,      \* the calls that have read a line
  buffers,    \* the buffers getline allocated and nobody freed, by call
  out,        \* what each call printed: a newline before and after its text?
  read,       \* history: the lines read
  atOpen      \* history: the file when tac opened it

vars == <<file, modifierB, pc, offset, eof, stack, buffers, out, read, atOpen>>

\* A file whose last line only may lack its newline.
WellFormed(f) == \A k \in 1 .. Len(f) - 1 : f[k].nl

Files == UNION {[1 .. n -> Line] : n \in 0 .. MaxLength}

Init ==
  /\ file \in {f \in Files : WellFormed(f)}
  /\ modifierB \in BOOLEAN
  /\ pc = "call"
  /\ offset = 0
  /\ eof = FALSE
  /\ stack = <<>>
  /\ buffers = {}
  /\ out = <<>>
  /\ read = <<>>
  /\ atOpen = file

\* Mutated form: the last line is not read.
AtEndEarly == eof \/ offset + 1 >= Len(file)

RoomForCall == Len(stack) < StackLimit
AtEnd == eof \/ offset >= Len(file)

\* getline returns a line; under -b its newline is cut off.  A line without one
\* ends at the end of the file, which the stream remembers.
ReadLine ==
  /\ pc = "call"
  /\ RoomForCall
  /\ ~AtEnd
  /\ LET line == file[offset + 1]
     IN  /\ stack' = Append(stack, [text |-> line.text,
                                    nl |-> line.nl /\ ~modifierB,
                                    hadNL |-> modifierB /\ line.nl])
         /\ read' = Append(read, line)
         /\ eof' = ~line.nl
  /\ offset' = offset + 1
  /\ buffers' = buffers \cup {Len(stack')}
  /\ UNCHANGED <<file, modifierB, pc, out, atOpen>>

\* Mutated forms of the next two: a call that reads no line does not free its
\* buffer; it does not return.
BuffersLeaked == buffers \cup {Len(stack) + 1}
BuffersAtEnd == buffers

\* getline returns -1: the call frees the buffer getline allocated all the same,
\* and returns.
ReadEnd ==
  /\ pc = "call"
  /\ RoomForCall
  /\ AtEnd
  /\ eof' = TRUE
  /\ buffers' = BuffersAtEnd
  /\ pc' = "return"
  /\ UNCHANGED <<file, modifierB, offset, stack, out, read, atOpen>>

\* The stack of the process is full.
StackOverflow ==
  /\ pc = "call"
  /\ ~RoomForCall
  /\ pc' = "crashed"
  /\ UNCHANGED <<file, modifierB, offset, eof, stack, buffers, out, read, atOpen>>

Top == stack[Len(stack)]

\* Mutated form: the call at the bottom does not print.
PrintedButFirst(n) ==
  IF n = 1 THEN out
  ELSE Append(out, [before |-> Top.hadNL, text |-> Top.text, after |-> Top.nl])

Printed(n) == Append(out, [before |-> Top.hadNL, text |-> Top.text, after |-> Top.nl])

\* A call prints its line, frees its buffer and returns.
Return ==
  /\ pc = "return"
  /\ stack # <<>>
  /\ out' = Printed(Len(stack))
  /\ buffers' = buffers \ {Len(stack)}
  /\ stack' = SubSeq(stack, 1, Len(stack) - 1)
  /\ UNCHANGED <<file, modifierB, pc, offset, eof, read, atOpen>>

\* The first call has returned: fclose.
Close ==
  /\ pc = "return"
  /\ stack = <<>>
  /\ pc' = "done"
  /\ UNCHANGED <<file, modifierB, offset, eof, stack, buffers, out, read, atOpen>>

\* Another program appends a line, or ends the last one.
Grow ==
  /\ pc \in {"call", "return"}
  /\ \/ /\ Len(file) < MaxLength
        /\ file # <<>> => file[Len(file)].nl
        /\ \E l \in Line : file' = Append(file, l)
     \/ /\ file # <<>>
        /\ ~file[Len(file)].nl
        /\ file' = [file EXCEPT ![Len(file)].nl = TRUE]
  /\ UNCHANGED <<modifierB, pc, offset, eof, stack, buffers, out, read, atOpen>>

Finished == pc \in {"done", "crashed"} /\ UNCHANGED vars

Calls == ReadLine \/ ReadEnd \/ StackOverflow \/ Return \/ Close

Next == Calls \/ Grow \/ Finished

\* The command runs on; nobody need append to the file.
Spec == Init /\ [][Next]_vars /\ WF_vars(Calls)

-----------------------------------------------------------------------------
(* Properties *)

Frame == [text : Text, nl : BOOLEAN, hadNL : BOOLEAN]
LinePiece == [before : BOOLEAN, text : Text, after : BOOLEAN]

TypeOK ==
  /\ file \in Seq(Line)
  /\ modifierB \in BOOLEAN
  /\ pc \in {"call", "return", "done", "crashed"}
  /\ offset \in Nat
  /\ eof \in BOOLEAN
  /\ stack \in Seq(Frame) /\ Len(stack) <= StackLimit
  /\ buffers \subseteq Nat
  /\ out \in Seq(LinePiece)
  /\ read \in Seq(Line)
  /\ atOpen \in Seq(Line)

\* What tac prints for a line: the newline after it or, under -b, before it.
PieceOf(line) ==
  [before |-> modifierB /\ line.nl, text |-> line.text,
   after  |-> ~modifierB /\ line.nl]

\* The frame of the call that read a line.
FrameOf(line) ==
  [text |-> line.text, nl |-> ~modifierB /\ line.nl, hadNL |-> modifierB /\ line.nl]

\* Every line read is in exactly one place: on the stack, in the order of the
\* file, or printed, in the opposite order.
StackAndOutput ==
  /\ Len(stack) + Len(out) = Len(read)
  /\ pc = "call" => out = <<>>
  /\ pc = "done" => stack = <<>>
  /\ \A k \in 1 .. Len(stack) : stack[k] = FrameOf(read[k])
  /\ \A k \in 1 .. Len(out) : out[k] = PieceOf(read[Len(read) + 1 - k])

\* Each call holds one buffer and frees it once.
BuffersHeld == buffers = 1 .. Len(stack)

\* When tac is done it has printed the lines it read, last line first, and
\* lost no line, newline or buffer.
LastLineFirst ==
  pc = "done" =>
    /\ Len(out) = Len(read)
    /\ \A k \in 1 .. Len(read) : out[k] = PieceOf(read[Len(read) + 1 - k])
    /\ buffers = {}

\* The lines read are the first lines of the file; only the line that ended the
\* file lacks its newline, and it may have been ended since.
ReadsPrefix ==
  /\ offset = Len(read) /\ offset <= Len(file)
  /\ \A k \in 1 .. Len(read) :
       /\ read[k].text = file[k].text
       /\ read[k].nl => file[k].nl
       /\ k < Len(read) \/ ~eof => read[k].nl

\* Whatever is appended meanwhile, the lines that were in the file when tac
\* opened it are all read.
ReadsWholeFile ==
  pc \in {"return", "done"} =>
    /\ Len(read) >= Len(atOpen)
    /\ \A k \in 1 .. Len(atOpen) : read[k].text = atOpen[k].text

\* Only a file with as many lines as the stack has room for ends the console.
CrashNeedsLongFile == pc = "crashed" => Len(file) >= StackLimit

\* While the file grows its first lines stay, and the end is not met before
\* them.
GrowthPart ==
  /\ WellFormed(file)
  /\ Len(file) >= Len(atOpen)
  /\ \A k \in 1 .. Len(atOpen) : file[k].text = atOpen[k].text
  /\ eof \/ pc \in {"return", "done"} => Len(read) >= Len(atOpen)

\* The inductive invariant.
TacInvariant ==
  /\ TypeOK
  /\ StackAndOutput
  /\ BuffersHeld
  /\ ReadsPrefix
  /\ GrowthPart
  /\ CrashNeedsLongFile

=============================================================================
