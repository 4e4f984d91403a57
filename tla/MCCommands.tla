----------------------------- MODULE MCCommands -----------------------------
(***************************************************************************)
(* Programs that run by themselves for TLC, one of them in each behaviour. *)
(* Three commands of the console: the sort of ls -S with an int of three   *)
(* bits (values -4 .. 3), tac with files of at most five lines and a stack *)
(* with room for four calls, and dirname with every list of at most two    *)
(* paths of at most five characters over '/' and one other character.      *)
(* And four of the laboratory programs.                                    *)
(***************************************************************************)
EXTENDS SizeSort, Tac, Dirname, Pipeline, Quiz, Threads, MoveFile

VARIABLE command

labVars == <<line, quiz, team, mv>>
allVars == <<command, sortVars, vars, dirnameVars, labVars>>

SortIdle == fileSize = [e \in Entry |-> 0] /\ gone = {} /\ SortInit
TacIdle == file = <<>> /\ modifierB = FALSE /\ Init
DirnameIdle == argv = <<>> /\ DirnameInit
MoveIdle == MoveInit /\ mv.original = <<>> /\ mv.same /\ mv.dest = NoFile

CommandsInit ==
  /\ PipelineInit /\ QuizInit /\ ThreadsInit
  /\ \/ command = "ls -S" /\ SortInit /\ TacIdle /\ DirnameIdle /\ MoveIdle
     \/ command = "tac" /\ SortIdle /\ Init /\ DirnameIdle /\ MoveIdle
     \/ command = "dirname" /\ SortIdle /\ TacIdle /\ DirnameInit /\ MoveIdle
     \/ command \in {"pipeline", "quiz", "threads"} /\ SortIdle /\ TacIdle /\ DirnameIdle /\ MoveIdle
     \/ command = "mv" /\ SortIdle /\ TacIdle /\ DirnameIdle /\ MoveInit

\* A laboratory program that has ended.
Ended ==
  \/ command = "pipeline" /\ \A p \in Proc : At(p, "none") \/ At(p, "ended")
  \/ command = "quiz" /\ ~Running
  \/ command = "threads" /\ (team.main = "error" \/ Len(team.status) = NumThreads)
  \/ command = "mv" /\ mv.pc \in {"exit", "crashed", "done"}

Only(name, next, others) == command = name /\ next /\ UNCHANGED <<command, others>>

CommandsNext ==
  \/ Only("ls -S", SortNext, <<vars, dirnameVars, labVars>>)
  \/ Only("tac", Next, <<sortVars, dirnameVars, labVars>>)
  \/ Only("dirname", DirnameNext, <<sortVars, vars, labVars>>)
  \/ Only("pipeline", PipelineNext, <<sortVars, vars, dirnameVars, quiz, team, mv>>)
  \/ Only("quiz", QuizNext, <<sortVars, vars, dirnameVars, line, team, mv>>)
  \/ Only("threads", ThreadsNext, <<sortVars, vars, dirnameVars, line, quiz, mv>>)
  \/ Only("mv", MoveNext, <<sortVars, vars, dirnameVars, line, quiz, team>>)
  \/ Ended /\ UNCHANGED allVars

\* Every process of the laboratory programs runs, SIGUSR1 is delivered at most so
\* often that the parent goes on, and the user answers.
Fairness ==
  /\ \A p \in Proc : WF_allVars(Only("pipeline", ProcessStep(p), <<sortVars, vars, dirnameVars, quiz, team, mv>>))
  /\ WF_allVars(Only("quiz", QuizMain \/ Die \/ Type, <<sortVars, vars, dirnameVars, line, team, mv>>))

CommandsSpec == CommandsInit /\ [][CommandsNext]_allVars /\ Fairness

\* What each laboratory program reports is true: the words counted, the answer
\* judged, the status of each thread; and mv, wherever it is stopped, loses a file
\* only where FileKept says so.
LabResults == WholeFileCounted /\ AnswerJudged /\ OwnStatus /\ FileKept

\* No process of the pipeline or of the quiz is left waiting.
LabsEnd == /\ command = "pipeline" => PipelineEnds
           /\ command = "quiz" => QuizEnds

SmallSizes == {0, 1, 3}       \* all of them fit the int
MCChar == {"/", ".", "a"}
MCPaths == UNION {[1 .. n -> {"/", "a"}] : n \in 0 .. 5}
MCContents == {<<>>, <<"x">>, <<"x", "y">>, <<"x", "ff", "y">>}

=============================================================================
