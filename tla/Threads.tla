------------------------------- MODULE Threads -------------------------------
(***************************************************************************)
(* lab12_pactice02.c: threads that end in any order, joined in the order   *)
(* of their creation.                                                      *)
(***************************************************************************)
EXTENDS Integers, Sequences

CONSTANT NumThreads   \* NUM_THREADS, 5 in the code

ASSUME ThreadsAssumption == NumThreads \in Nat

VARIABLE team   \* the main thread, the others, and the statuses joined

Index == 0 .. NumThreads - 1

ThreadsInit ==
  team = [main |-> "create", index |-> 0, status |-> <<>>,
          thread |-> [i \in Index |-> [pc |-> "none", id |-> -1]]]

\* (void *)thread_index.
Argument(i) == i

\* pthread_create; an error ends the process, and the threads with it.
Create ==
  /\ team.main = "create" /\ team.index < NumThreads
  /\ team' \in {[team EXCEPT !.thread[team.index].pc = "begin", !.index = @ + 1],
                [team EXCEPT !.main = "error"]}

AllCreated ==
  /\ team.main = "create" /\ team.index = NumThreads
  /\ team' = [team EXCEPT !.main = "join"]

\* printHello, which ends with the status id + 1.
Hello(i) ==
  /\ team.main # "error" /\ team.thread[i].pc = "begin"
  /\ team' = [team EXCEPT !.thread[i] = [pc |-> "hello", id |-> Argument(i)]]

Exit(i) ==
  /\ team.main # "error" /\ team.thread[i].pc = "hello"
  /\ team' = [team EXCEPT !.thread[i].pc = "ended"]

Join ==
  LET i == Len(team.status)
  IN  /\ team.main = "join" /\ i < NumThreads
      /\ team.thread[i].pc = "ended"
      /\ team' = [team EXCEPT !.status = Append(@, team.thread[i].id + 1)]

ThreadsNext == Create \/ AllCreated \/ Join \/ \E i \in Index : Hello(i) \/ Exit(i)

-----------------------------------------------------------------------------

\* In whatever order the threads run and end, each status joined is that of the
\* thread whose number main prints with it.
OwnStatus == \A k \in DOMAIN team.status : team.status[k] = k

=============================================================================
