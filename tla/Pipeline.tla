------------------------------ MODULE Pipeline ------------------------------
(***************************************************************************)
(* lab9_example_pipe.c: cat <file> | wc -w with pipe, fork and exec.  Any  *)
(* of these calls may fail; a child whose exec fails goes on in the code   *)
(* of the parent.                                                          *)
(***************************************************************************)
EXTENDS Integers

CONSTANTS
  Blocks,    \* what cat has to write
  Capacity   \* what the pipe holds

ASSUME PipelineAssumption == Blocks \in Nat /\ Capacity \in Nat \ {0}

\* stray: the child that the first child forks when its exec has failed.
Proc == {"main", "cat", "wc", "stray"}

\* The descriptors of a process, and what each is: an end of the pipe, or not.
Descriptor == {"in", "out", "fd0", "fd1"}

VARIABLE line   \* the processes, the pipe, and what was made of it

Proc0 == [pc |-> "none", fd |-> [d \in Descriptor |-> "shut"]]

PipelineInit ==
  line = [proc |-> [p \in Proc |-> IF p = "main" THEN [Proc0 EXCEPT !.pc = "pipe"] ELSE Proc0],
          pipe |-> 0, left |-> Blocks, counted |-> 0,
          report |-> -1,      \* what wc printed
          failed |-> FALSE]   \* history: did a call fail?

At(p, pc) == line.proc[p].pc = pc
GoTo(p, pc) == [line EXCEPT !.proc[p].pc = pc]

\* The end of a process closes its descriptors.
EndOf(l, p) == [l EXCEPT !.proc[p] = [Proc0 EXCEPT !.pc = "ended"]]
Fails(p) == EndOf([line EXCEPT !.failed = TRUE], p)

Holds(end) == \E p \in Proc, d \in Descriptor : line.proc[p].fd[d] = end

-----------------------------------------------------------------------------

MakePipe ==
  /\ At("main", "pipe")
  /\ line' \in {Fails("main"),
                [GoTo("main", "fork1") EXCEPT !.proc["main"].fd["fd0"] = "r",
                                              !.proc["main"].fd["fd1"] = "w"]}

\* A child begins with the descriptors of its parent.
Fork(p, child, next) ==
  line' \in {Fails(p),
             [GoTo(p, next) EXCEPT !.proc[child] = [pc |-> "dup", fd |-> line.proc[p].fd]]}

Fork1 == At("main", "fork1") /\ Fork("main", "cat", "fork2")

\* The first child comes here when its exec has failed.
Fork2(p) == At(p, "fork2") /\ Fork(p, IF p = "main" THEN "wc" ELSE "stray", "shut")

\* dup2 of one end of the pipe to the output or the input; a closed one fails.
Dup(p) ==
  LET from == IF p = "cat" THEN "fd1" ELSE "fd0"
      to == IF p = "cat" THEN "out" ELSE "in"
      end == line.proc[p].fd[from]
  IN  /\ At(p, "dup")
      /\ \/ line' = Fails(p)
         \/ end # "shut" /\ line' = [GoTo(p, "close") EXCEPT !.proc[p].fd[to] = end]

\* Mutated form: only the end that is used is closed.
ClosedOne(p, fd) == [fd EXCEPT ![IF p = "cat" THEN "fd1" ELSE "fd0"] = "shut"]

\* close(fd[1]); close(fd[0]);
ClosedBoth(p, fd) == [fd EXCEPT !["fd0"] = "shut", !["fd1"] = "shut"]

CloseEnds(p) ==
  \/ At(p, "close") /\ line' = [GoTo(p, "exec") EXCEPT !.proc[p].fd = ClosedBoth(p, @)]
  \/ At(p, "shut") /\ line' = [GoTo(p, "wait") EXCEPT !.proc[p].fd = ClosedBoth(p, @)]

Exec(p) ==
  /\ At(p, "exec")
  /\ line' \in {GoTo(p, "run"),
                [GoTo(p, IF p = "cat" THEN "fork2" ELSE "shut") EXCEPT !.failed = TRUE]}

\* The children waitpid finds; another process's child is an error at once.
WaitsFor(p) == CASE p = "main" -> {"cat", "wc"} [] p = "cat" -> {"stray"} [] OTHER -> {}

Wait(p) ==
  /\ At(p, "wait")
  /\ \A c \in WaitsFor(p) : At(c, "ended")
  /\ line' = EndOf(line, p)

-----------------------------------------------------------------------------
(* The programs in the children, and the pipe between them                  *)

\* cat writes as long as the pipe has room; without a reader it is killed.
Cat ==
  /\ At("cat", "run")
  /\ \/ line.left = 0 /\ line' = EndOf(line, "cat")
     \/ line.left > 0 /\ ~Holds("r") /\ line' = EndOf(line, "cat")
     \/ /\ line.left > 0 /\ Holds("r") /\ line.pipe < Capacity
        /\ line' = [line EXCEPT !.pipe = @ + 1, !.left = @ - 1]

\* wc reads until the pipe is empty and nobody can write to it.
Wc ==
  /\ At("wc", "run")
  /\ \/ line.pipe > 0 /\ line' = [line EXCEPT !.pipe = @ - 1, !.counted = @ + 1]
     \/ /\ line.pipe = 0 /\ ~Holds("w")
        /\ line' = EndOf([line EXCEPT !.report = line.counted], "wc")

ProcessStep(p) ==
  \/ p = "main" /\ (MakePipe \/ Fork1)
  \/ Fork2(p) \/ Dup(p) \/ CloseEnds(p) \/ Exec(p) \/ Wait(p)
  \/ p = "cat" /\ Cat
  \/ p = "wc" /\ Wc

PipelineNext == \E p \in Proc : ProcessStep(p)

-----------------------------------------------------------------------------

\* When no call has failed, the program ends after wc has counted all of the
\* file: the end of the file reaches wc, and only when cat has written it all.
WholeFileCounted ==
  At("main", "ended") /\ ~line.failed => line.report = Blocks

\* Whatever call fails, no process waits for ever: for the end of the file, for
\* room in the pipe, or for a child.
PipelineEnds == <>(\A p \in Proc : At(p, "none") \/ At(p, "ended"))

=============================================================================
