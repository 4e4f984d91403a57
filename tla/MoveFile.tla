------------------------------ MODULE MoveFile ------------------------------
(***************************************************************************)
(* lab3_consoleCommand.c: mv of a file, which copies it byte by byte and   *)
(* then removes it.                                                        *)
(***************************************************************************)
EXTENDS Integers, Sequences

CONSTANTS
  Byte,       \* the bytes of a file
  Contents,   \* what the file may hold
  EOF         \* the byte that as a char is EOF, 0xff

ASSUME MoveAssumption == Contents \subseteq Seq(Byte)

NoFile == <<"none">>

VARIABLE mv   \* the two files, and how far the copy is

MoveInit ==
  \E content \in Contents, same \in BOOLEAN, dest \in {NoFile, <<"old">>} :
    /\ same => dest = NoFile
    /\ mv = [pc |-> "open", source |-> content, dest |-> dest, copied |-> 0,
             original |-> content,
             same |-> same,       \* do both names mean the same file?
             failed |-> FALSE]    \* history: was there an error in reading or writing?

\* fopen of both files.  Only the second is looked at, which may fail or empties
\* a file that is there; a source that cannot be opened is read all the same.
Emptied == IF mv.same THEN [mv EXCEPT !.source = <<>>] ELSE [mv EXCEPT !.dest = <<>>]
Open ==
  /\ mv.pc = "open"
  /\ mv' \in {[mv EXCEPT !.pc = "exit"],
              [Emptied EXCEPT !.pc = "copy"], [Emptied EXCEPT !.pc = "crashed"]}

\* getc fails: the loop ends as at the end of the file.
ReadFails == mv.pc = "copy" /\ mv' = [mv EXCEPT !.pc = "remove", !.failed = TRUE]

\* getc and fputc, whose result is not looked at.
Copy ==
  /\ mv.pc = "copy" /\ mv.copied < Len(mv.source)
  /\ LET byte == mv.source[mv.copied + 1]
     IN  IF byte = EOF THEN mv' = [mv EXCEPT !.pc = "remove"]
         ELSE mv' \in {[mv EXCEPT !.dest = Append(@, byte), !.copied = @ + 1],
                       [mv EXCEPT !.failed = TRUE, !.copied = @ + 1]}

\* Mutated form: the last byte is not waited for.
CopiedButOne(m) == m.copied + 1 >= Len(m.source)

Copied(m) == m.copied >= Len(m.source)

EndCopy == mv.pc = "copy" /\ Copied(mv) /\ mv' = [mv EXCEPT !.pc = "remove"]

\* remove, whose result is not looked at.
Remove ==
  /\ mv.pc = "remove"
  /\ mv' \in {[mv EXCEPT !.pc = "done", !.source = NoFile], [mv EXCEPT !.pc = "done"]}

MoveNext == Open \/ ReadFails \/ Copy \/ EndCopy \/ Remove

-----------------------------------------------------------------------------

HasEOF == \E i \in DOMAIN mv.original : mv.original[i] = EOF

\* Unless both names mean the same file: wherever the program stops before it is
\* done, and whatever failed, the file is whole under its old name; when it is
\* done it is whole under one of them, but for a file with a byte 0xff and for an
\* error in reading or writing, which mv does not notice and which lose it.
FileKept ==
  ~mv.same =>
    /\ mv.pc # "done" => mv.source = mv.original
    /\ ~HasEOF /\ ~mv.failed => mv.original \in {mv.source, mv.dest}

=============================================================================
