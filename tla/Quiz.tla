-------------------------------- MODULE Quiz --------------------------------
(***************************************************************************)
(* lab10_sig3.c: a question, and a child that sends SIGUSR1 every five     *)
(* seconds to remind the user while it is not answered.                    *)
(***************************************************************************)
EXTENDS Integers

CONSTANT Answer   \* what the user may type; 0 is what x is without a number

VARIABLE quiz   \* the parent, the child, and what the user sees

QuizInit ==
  quiz = [main |-> "install", child |-> "alive", handler |-> FALSE, pending |-> FALSE,
          x |-> 0, typed |-> {}, verdict |-> "none", reminded |-> FALSE]

MainAt(pc) == quiz.main = pc
Running == ~MainAt("returned") /\ ~MainAt("killed")

\* The child, until SIGKILL takes effect.
Remind ==
  /\ quiz.child \in {"alive", "doomed"}
  /\ Running
  /\ quiz' = [quiz EXCEPT !.pending = TRUE]

Die == quiz.child = "doomed" /\ quiz' = [quiz EXCEPT !.child = "dead"]

Type ==
  /\ Running /\ quiz.typed = {}
  /\ \E a \in Answer : quiz' = [quiz EXCEPT !.typed = {a}]

Install == MainAt("install") /\ quiz' = [quiz EXCEPT !.main = "scan", !.handler = TRUE]

\* Mutated form: the signal ends a call of scanf that waits.
NotRestarted(main) == IF main = "scan" THEN "judge" ELSE main

\* SA_RESTART: what the signal interrupts goes on.
Restarted(main) == main

\* SIGUSR1 ends the process until there is a handler, handle_sigusr1.
Deliver ==
  /\ quiz.pending /\ Running
  /\ IF quiz.handler
       THEN quiz' = [quiz EXCEPT !.pending = FALSE, !.main = Restarted(@),
                                 !.reminded = @ \/ quiz.x = 0]
       ELSE quiz' = [quiz EXCEPT !.pending = FALSE, !.main = "killed"]

Scan ==
  /\ MainAt("scan") /\ quiz.typed # {}
  /\ \E a \in quiz.typed : quiz' = [quiz EXCEPT !.main = "judge", !.x = a]

\* kill(pid, SIGKILL).
Doomed(child) == IF child = "alive" THEN "doomed" ELSE child

Judge ==
  /\ MainAt("judge")
  /\ quiz' = [quiz EXCEPT !.main = "wait", !.child = Doomed(@),
                          !.verdict = IF quiz.x = 10 THEN "Correct" ELSE "Incorrect"]

Reap ==
  /\ MainAt("wait") /\ quiz.child = "dead"
  /\ quiz' = [quiz EXCEPT !.main = "returned", !.child = "reaped"]

QuizMain == Install \/ Scan \/ Judge \/ Reap

QuizNext == Remind \/ Die \/ Type \/ Deliver \/ QuizMain

-----------------------------------------------------------------------------

\* However often the reminder interrupts the question, the verdict is about what
\* the user typed.
AnswerJudged ==
  quiz.verdict # "none" => /\ quiz.typed # {}
                           /\ (quiz.verdict = "Correct") = (quiz.typed = {10})

\* Once the handler is there the program ends, and leaves no child behind.
QuizEnds == quiz.handler ~> (MainAt("returned") /\ quiz.child = "reaped")

=============================================================================
