---------------------------- MODULE ConsoleProofs ----------------------------
(***************************************************************************)
(* Proofs about Console, for every set of lines and words, every set of    *)
(* file systems and every limit on descriptors.                            *)
(***************************************************************************)
EXTENDS Console, FiniteSetTheorems, TLAPS

\* What the assumption on the command lines says of the simple constants.
LEMMA Constants == FdLimit \in Nat /\ NoName \in Name /\ NoName \in Word
BY CommandLineAssumption DEF Name

\* The initial state satisfies the invariant.
LEMMA InitInvariant == Init => ConsoleInvariant
<1> SUFFICES ASSUME Init PROVE ConsoleInvariant
  OBVIOUS
<1> USE Constants, MaxLinesAssumption DEF Init
<1>1. TypeOK
  <2>1. /\ typed \in Seq(Lines) /\ answers \in Seq(AnswerSet) /\ history \in Seq(Lines)
        /\ Len(typed) = 0 /\ Len(answers) = 0
    OBVIOUS
  <2>2. openDirs \in 0 .. FdLimit /\ optind \in Nat
    OBVIOUS
  <2>6. fileStat \in Kinds
    BY DEF Kinds
  <2>3. line_read \in 0 .. Len(typed) /\ buffers \subseteq 1 .. Len(typed)
    BY <2>1
  <2>4. filename \in Name /\ modifiers \subseteq Modifiers
    BY DEF Name
  <2>5. Len(typed) <= MaxLines /\ Len(answers) <= Len(typed)
    BY <2>1
  <2> HIDE DEF AnswerSet
  <2> QED BY <2>1, <2>2, <2>3, <2>4, <2>5, <2>6 DEF TypeOK, PCs
<1>2. LoopPart /\ DescriptorPart /\ LineBuffer /\ ScanPart
  BY DEF LoopPart, DescriptorPart, LineBuffer, ScanPart
<1> QED BY <1>1, <1>2 DEF ConsoleInvariant

\* While a line is handled, line_read points to a line.
LEMMA CurrentLine ==
  ASSUME ConsoleInvariant, pc \notin {"read", "ended"}
  PROVE  /\ typed[line_read] \in Lines
         /\ prefix \in Commands \cup {"exit", ""}
         /\ typed[line_read].words \in Seq(Word)
         /\ typed[line_read].valid \in BOOLEAN
<1>1. typed[line_read] \in Lines
  BY DEF ConsoleInvariant, TypeOK, LoopPart
<1> QED BY <1>1, CommandLineAssumption DEF prefix

\* The words a command runs on are those of some line: options come first.
LEMMA CurrentWords ==
  ASSUME ConsoleInvariant, we # Junk
  PROVE  /\ we \in Seq(Word)
         /\ \A k, m \in 2 .. Len(we) :
              we[m] \in Option /\ k < m => we[k] \in Option
BY CommandLineAssumption DEF ConsoleInvariant, TypeOK

\* An answer brings the answers level with the lines.
LEMMA AnswerStep ==
  ASSUME ConsoleInvariant, pc \notin {"read", "ended"}, UNCHANGED typed,
         NEW a \in AnswerSet, Answer(a)
  PROVE  /\ answers' \in Seq(AnswerSet) /\ Len(answers') = Len(typed)
         /\ pc' = "read"
<1>1. answers \in Seq(AnswerSet) /\ Len(typed) = Len(answers) + 1
  BY DEF ConsoleInvariant, TypeOK, LoopPart
<1> HIDE DEF AnswerSet
<1> QED BY <1>1 DEF Answer


\* Every answering step appends one answer of AnswerSet.
LEMMA Answering ==
  ASSUME ConsoleInvariant,
         \/ EmptyLine \/ (UnsetWords /\ status' = "running") \/ AnswerAtOnce
         \/ TacUsage \/ List \/ StatMissing \/ OpenAndReverse
  PROVE  /\ answers' \in Seq(AnswerSet) /\ Len(answers') = Len(typed)
         /\ pc' = "read" /\ pc \notin {"read", "ended"}
<1>1. ASSUME EmptyLine PROVE \E a \in AnswerSet : Answer(a)
  <2>1. [cmd |-> "silent"] \in AnswerSet
    BY DEF AnswerSet
  <2> QED BY <1>1, <2>1 DEF EmptyLine
<1>2. ASSUME UnsetWords, status' = "running" PROVE \E a \in AnswerSet : Answer(a)
  <2>1. [cmd |-> "junk"] \in AnswerSet
    BY DEF AnswerSet
  <2> QED BY <1>2, <2>1 DEF UnsetWords, OptindReset, Die
<1>3. ASSUME AnswerAtOnce PROVE \E a \in AnswerSet : Answer(a)
  <2>1. we \in Seq(Word) /\ prefix \in {"man", "dirname", "other"}
    BY <1>3, CurrentWords DEF AnswerAtOnce, OptindReset
  <2>2. CASE prefix = "man"
    <3>1. ManPage(we) \in {"list", "nothing", "ls", "tac", "dirname", "unknown"}
      BY DEF ManPage
    <3>2. Immediate(prefix, we) = [cmd |-> "man", page |-> ManPage(we)]
      BY <2>2 DEF Immediate
    <3> QED BY <1>3, <3>1, <3>2 DEF AnswerAtOnce, OptindReset, AnswerSet
  <2>3. CASE prefix = "dirname"
    <3>1. SubSeq(we, 2, Len(we)) \in Seq(Word)
      BY <2>1
    <3>2. Immediate(prefix, we) = [cmd |-> "dirname", args |-> SubSeq(we, 2, Len(we))]
      BY <2>3 DEF Immediate
    <3> QED BY <1>3, <3>1, <3>2 DEF AnswerAtOnce, OptindReset, AnswerSet
  <2>4. CASE prefix = "other"
    <3> DEFINE name == IF we = <<>> THEN NoName ELSE we[1]
    <3>1. name \in Word
      <4>1. NoName \in Word
        BY CommandLineAssumption DEF Name
      <4>2. ASSUME we # <<>> PROVE we[1] \in Word
        BY <2>1, <4>2
      <4> QED BY <4>1, <4>2
    <3>2. Immediate(prefix, we) = [cmd |-> "offending", name |-> name]
      BY <2>4 DEF Immediate
    <3> HIDE DEF name
    <3> QED BY <1>3, <3>1, <3>2 DEF AnswerAtOnce, OptindReset, AnswerSet
  <2> QED BY <2>1, <2>2, <2>3, <2>4
<1>4. ASSUME NEW out \in SUBSET {"missing", "usage", "read error", "lines"}
      PROVE  TacAnswer(out) \in AnswerSet
  BY DEF TacAnswer, AnswerSet, ConsoleInvariant, TypeOK
<1>5. ASSUME TacUsage PROVE \E a \in AnswerSet : Answer(a)
  <2>1. TacAnswer({"usage"}) \in AnswerSet
    BY <1>4
  <2> QED BY <1>5, <2>1 DEF TacUsage
<1>6. ASSUME List PROVE \E a \in AnswerSet : Answer(a)
  <2>1. [cmd |-> "ls", opts |-> modifiers, on |-> filename] \in AnswerSet
    BY DEF AnswerSet, ConsoleInvariant, TypeOK
  <2> QED BY <1>6, <2>1 DEF List
<1>7. ASSUME StatMissing PROVE \E a \in AnswerSet : Answer(a)
  <2>1. TacAnswer({"missing"}) \in AnswerSet
    BY <1>4
  <2> QED BY <1>7, <2>1 DEF StatMissing
<1>8. ASSUME OpenAndReverse PROVE \E a \in AnswerSet : Answer(a)
  <2> DEFINE out == (IF fileStat = "dir" THEN {"read error"} ELSE {}) \cup
                    (IF fs[filename] = "file" THEN {"lines"} ELSE {})
  <2>1. out \in SUBSET {"missing", "usage", "read error", "lines"}
    OBVIOUS
  <2> HIDE DEF out
  <2>2. TacAnswer(out) \in AnswerSet
    BY <1>4, <2>1
  <2> QED BY <1>8, <2>2 DEF OpenAndReverse, out
<1>9. UNCHANGED typed /\ pc \notin {"read", "ended"}
  BY
  DEF EmptyLine, UnsetWords, OptindReset, AnswerAtOnce, TacUsage, List,
      StatMissing, OpenAndReverse, loopVars
<1>10. \E a \in AnswerSet : Answer(a)
  BY <1>1, <1>2, <1>3, <1>5, <1>6, <1>7, <1>8
<1> QED BY <1>9, <1>10, AnswerStep

\* What reading a line does to the lines, the buffers and the history.
LEMMA ReadLineStep ==
  ASSUME ConsoleInvariant, ReadLine
  PROVE  /\ typed' \in Seq(Lines) /\ Len(typed') = Len(typed) + 1
         /\ Len(typed') <= MaxLines
         /\ Len(answers) = Len(typed) /\ Len(typed) \in Nat
         /\ line_read' = Len(typed')
         /\ buffers' = {line_read'}
         /\ history' \in Seq(Lines)
<1>1. PICK l \in Lines :
        /\ typed' = Append(typed, l)
        /\ line_read' = Len(typed) + 1
        /\ buffers' = (buffers \ {line_read}) \cup {line_read'}
        /\ history' = IF l.prefix = "" THEN history ELSE Append(history, l)
  BY DEF ReadLine, BuffersAfter, HistoryAfter
<1>2. /\ typed \in Seq(Lines) /\ history \in Seq(Lines) /\ Len(typed) < MaxLines
      /\ Len(answers) = Len(typed) /\ buffers = {line_read} \ {0}
      /\ MaxLines \in Nat
  BY MaxLinesAssumption
  DEF ConsoleInvariant, TypeOK, LoopPart, LineBuffer, ReadLine, BuffersAfter,
      HistoryAfter
<1>3. typed' \in Seq(Lines) /\ Len(typed') = Len(typed) + 1 /\ Len(typed) \in Nat
  <2>1. typed \in Seq(Lines) /\ typed' = Append(typed, l)
    BY <1>1, <1>2
  <2> QED BY <2>1
<1>4. history' \in Seq(Lines)
  <2>1. history' = history \/ history' = Append(history, l)
    BY <1>1
  <2>2. history \in Seq(Lines)
    BY <1>2
  <2> QED BY <2>1, <2>2
<1>5. buffers' = {line_read'}
  BY <1>1, <1>2
<1>6. line_read' = Len(typed) + 1
  BY <1>1
<1>7. Len(typed) < MaxLines /\ MaxLines \in Nat /\ Len(answers) = Len(typed)
  BY <1>2
<1> QED BY <1>3, <1>4, <1>5, <1>6, <1>7

\* The type invariant, action by action.
LEMMA TypeOKStep == ConsoleInvariant /\ Next => TypeOK'
<1> SUFFICES ASSUME ConsoleInvariant, Next
             PROVE  TypeOK'
  OBVIOUS
<1> USE Constants, MaxLinesAssumption DEF ConsoleInvariant
<1> HIDE DEF AnswerSet
<1>0. CASE ReadLine
  <2>1. /\ typed' \in Seq(Lines) /\ Len(typed') = Len(typed) + 1
        /\ Len(typed') <= MaxLines
        /\ Len(answers) = Len(typed) /\ Len(typed) \in Nat
        /\ line_read' = Len(typed')
        /\ buffers' = {line_read'}
        /\ history' \in Seq(Lines)
    BY <1>0, ReadLineStep
  <2>2. /\ pc' = "line" /\ status' = status /\ fs' = fs /\ answers' = answers
        /\ we' = we /\ openDirs' = openDirs /\ optind' = optind
        /\ modifiers' = modifiers /\ filename' = filename /\ fileStat' = fileStat
    BY <1>0 DEF ReadLine, BuffersAfter, HistoryAfter, localVars
  <2> QED BY <2>1, <2>2 DEF TypeOK, PCs
<1>1. CASE EndOfInput
  BY <1>1 DEF EndOfInput, TypeOK, PCs, localVars, Die
<1>2. CASE ExitLine
  BY <1>2 DEF ExitLine, TypeOK, PCs, localVars, loopVars, Die
<1>3. CASE EmptyLine
  <2>1. /\ answers' \in Seq(AnswerSet) /\ Len(answers') = Len(typed) /\ pc' = "read"
        /\ pc \notin {"read", "ended"}
    BY <1>3, Answering
  <2>2. /\ status' = status /\ fs' = fs /\ typed' = typed
        /\ line_read' = line_read /\ buffers' = buffers /\ history' = history
        /\ we' = we /\ openDirs' = openDirs /\ optind' = optind
        /\ modifiers' = modifiers /\ filename' = filename /\ fileStat' = fileStat
    BY <1>3 DEF EmptyLine, localVars, loopVars
  <2> QED BY <2>1, <2>2 DEF TypeOK, PCs
<1>4. CASE Expand
  BY <1>4, CurrentLine, CurrentWords
  DEF Expand, TypeOK, PCs, localVars, Expansion
<1>5. CASE UnsetWords
  <2>1. CASE status' = "running"
    <3>1. /\ answers' \in Seq(AnswerSet) /\ Len(answers') = Len(typed) /\ pc' = "read"
          /\ pc \notin {"read", "ended"}
      BY <1>5, <2>1, Answering
    <3> QED BY <1>5, <2>1, <3>1 DEF UnsetWords, OptindReset, TypeOK, PCs,
                                    loopVars, Die
  <2>2. CASE status' # "running"
    <3>1. /\ status' \in {"running", "exited", "failed", "crashed"} /\ pc' \in PCs
          /\ answers' = answers /\ openDirs' = openDirs /\ optind' = 0
      BY <1>5, <2>2 DEF UnsetWords, OptindReset, Die, ConsoleInvariant, LoopPart,
                        PCs
    <3>2. /\ fs' = fs /\ typed' = typed /\ we' = we
          /\ line_read' = line_read /\ buffers' = buffers /\ history' = history
          /\ modifiers' = modifiers /\ filename' = filename /\ fileStat' = fileStat
      BY <1>5 DEF UnsetWords, OptindReset, loopVars
    <3> QED BY <3>1, <3>2 DEF TypeOK
  <2> QED BY <2>1, <2>2
<1>6. CASE AnswerAtOnce
  <2>1. /\ answers' \in Seq(AnswerSet) /\ Len(answers') = Len(typed) /\ pc' = "read"
        /\ pc \notin {"read", "ended"}
    BY <1>6, Answering
  <2> QED BY <1>6, <2>1 DEF AnswerAtOnce, OptindReset, TypeOK, PCs, loopVars
<1>7. CASE StartCommand
  BY <1>7, CurrentLine, CurrentWords
  DEF StartCommand, OptindReset, TypeOK, PCs, loopVars, Name
<1>8. CASE NextOption
  <2>1. optind' \in Nat
    BY <1>8 DEF NextOption, Given, NextArg, TypeOK
  <2>2. modifiers' \subseteq Modifiers
    <3>1. prefix = "ls" \/ prefix = "tac"
      BY <1>8 DEF NextOption, Given, LoopPart
    <3>2. Accepted(prefix) \subseteq Modifiers
      BY <3>1 DEF Accepted, Modifiers
    <3> QED BY <1>8, <3>2 DEF NextOption, Given, TypeOK
  <2> QED BY <1>8, <2>1, <2>2 DEF NextOption, Given, TypeOK, loopVars
<1>9. CASE OptionsDone
  BY <1>9, CurrentLine, CurrentWords
  DEF OptionsDone, TypeOK, PCs, loopVars, NextArg, MoreOptions, Accepted,
      Modifiers
<1>10. CASE NextOperand
  <2>1. optind' \in Nat
    BY <1>10 DEF NextOperand, TypeOK
  <2>2. filename' \in Name
    <3>1. we \in Seq(Word) /\ we # Junk /\ optind \in Nat /\ optind < Len(we)
      BY <1>10, CurrentWords DEF NextOperand, LoopPart, TypeOK
    <3>2. we[optind + 1] \in Word
      BY <3>1
    <3>3. we[optind + 1] \notin Option
      <4>1. /\ \A k \in 2 .. Len(we) : we[k] \in Option => k <= optind
            /\ optind > 0 \/ we = <<>>
        BY <1>10 DEF NextOperand, ScanPart
      <4> QED BY <3>1, <4>1
    <3> QED BY <1>10, <3>2, <3>3 DEF NextOperand, Name, TypeOK
  <2> QED BY <1>10, <2>1, <2>2 DEF NextOperand, TypeOK, loopVars
<1>11. CASE OperandsDone
  BY <1>11, CurrentLine, CurrentWords
  DEF OperandsDone, TypeOK, PCs, localVars, loopVars
<1>12. CASE TacUsage
  <2>1. /\ answers' \in Seq(AnswerSet) /\ Len(answers') = Len(typed) /\ pc' = "read"
        /\ pc \notin {"read", "ended"}
    BY <1>12, Answering
  <2> QED BY <1>12, <2>1 DEF TacUsage, TypeOK, PCs, localVars, loopVars
<1>13. CASE OpenDir
  BY <1>13 DEF OpenDir, TypeOK, PCs, localVars, loopVars, CanOpenDir
<1>14. CASE OpenDirFails
  BY <1>14 DEF OpenDirFails, TypeOK, PCs, localVars, loopVars, Die
<1>15. CASE List
  <2>1. /\ answers' \in Seq(AnswerSet) /\ Len(answers') = Len(typed) /\ pc' = "read"
        /\ pc \notin {"read", "ended"}
    BY <1>15, Answering
  <2> QED BY <1>15, <2>1 DEF List, TypeOK, PCs, localVars, loopVars
<1>16. CASE StatMissing
  <2>1. /\ answers' \in Seq(AnswerSet) /\ Len(answers') = Len(typed) /\ pc' = "read"
        /\ pc \notin {"read", "ended"}
    BY <1>16, Answering
  <2> QED BY <1>16, <2>1 DEF StatMissing, TypeOK, PCs, localVars, loopVars
<1>17. CASE Stat
  <2>1. fileStat' \in Kinds
    BY <1>17, CommandLineAssumption DEF Stat, TypeOK
  <2> QED BY <1>17, <2>1 DEF Stat, TypeOK, PCs, loopVars
<1>18. CASE OpenAndReverse
  <2>1. /\ answers' \in Seq(AnswerSet) /\ Len(answers') = Len(typed) /\ pc' = "read"
        /\ pc \notin {"read", "ended"}
    BY <1>18, Answering
  <2>2. /\ status' = status /\ fs' = fs /\ typed' = typed
        /\ line_read' = line_read /\ buffers' = buffers /\ history' = history
        /\ we' = we /\ openDirs' = openDirs /\ optind' = optind
        /\ modifiers' = modifiers /\ filename' = filename /\ fileStat' = fileStat
    BY <1>18 DEF OpenAndReverse, localVars, loopVars
  <2> QED BY <2>1, <2>2 DEF TypeOK, PCs
<1>19. CASE OpenFails
  BY <1>19 DEF OpenFails, TypeOK, PCs, localVars, loopVars, Die
<1>20. CASE Environment
  BY <1>20 DEF Environment, TypeOK, PCs, localVars, loopVars
<1>21. CASE Finished
  BY <1>21 DEF Finished, TypeOK, PCs, vars
<1>22. CASE ListCrashes
  BY <1>22
  DEF ListCrashes, TypeOK, PCs, localVars, loopVars, Die
<1>23. CASE StackOverflow
  BY <1>23
  DEF StackOverflow, TypeOK, PCs, localVars, loopVars, Die
<1> QED
    BY <1>0, <1>1, <1>2, <1>3, <1>4, <1>5, <1>6, <1>7, <1>8, <1>9, <1>10, <1>11,
       <1>12, <1>13, <1>14, <1>15, <1>16, <1>17, <1>18, <1>19, <1>20, <1>21, <1>22, <1>23
  DEF Next, Execute

\* The place of the program and the lines answered, action by action.
LEMMA LoopPartStep == ConsoleInvariant /\ Next => LoopPart'
<1> SUFFICES ASSUME ConsoleInvariant, Next
             PROVE  LoopPart'
  OBVIOUS
<1> USE Constants, MaxLinesAssumption DEF ConsoleInvariant
<1> HIDE DEF AnswerSet
<1>0. CASE ReadLine
  <2>1. /\ typed' \in Seq(Lines) /\ Len(typed') = Len(typed) + 1
        /\ Len(typed') <= MaxLines
        /\ Len(answers) = Len(typed) /\ Len(typed) \in Nat
        /\ line_read' = Len(typed')
        /\ buffers' = {line_read'}
        /\ history' \in Seq(Lines)
    BY <1>0, ReadLineStep
  <2> QED BY <1>0, <2>1
    DEF ReadLine, BuffersAfter, HistoryAfter, TypeOK, LoopPart, Commands,
        localVars, prefix
<1>1. CASE EndOfInput
  BY <1>1 DEF EndOfInput, TypeOK, LoopPart, Commands, localVars, Die, prefix
<1>2. CASE ExitLine
  BY <1>2
  DEF ExitLine, TypeOK, LoopPart, Commands, localVars, loopVars, Die, prefix
<1>3. CASE EmptyLine
  <2>1. /\ answers' \in Seq(AnswerSet) /\ Len(answers') = Len(typed) /\ pc' = "read"
        /\ pc \notin {"read", "ended"}
    BY <1>3, Answering
  <2> QED BY <1>3, <2>1
    DEF EmptyLine, TypeOK, LoopPart, Commands, localVars, loopVars, prefix
<1>4. CASE Expand
  BY <1>4, CurrentLine, CurrentWords
  DEF Expand, TypeOK, LoopPart, Commands, localVars, prefix
<1>5. CASE UnsetWords
  <2>1. CASE status' = "running"
    <3>1. /\ answers' \in Seq(AnswerSet) /\ Len(answers') = Len(typed) /\ pc' = "read"
          /\ pc \notin {"read", "ended"}
      BY <1>5, <2>1, Answering
    <3> QED BY <1>5, <2>1, <3>1
      DEF UnsetWords, OptindReset, TypeOK, LoopPart, Commands, loopVars, Die, prefix
  <2>2. CASE status' # "running"
    BY <1>5, <2>2
    DEF UnsetWords, OptindReset, TypeOK, LoopPart, Commands, loopVars, Die,
        prefix, Answer
  <2> QED BY <2>1, <2>2
<1>6. CASE AnswerAtOnce
  <2>1. /\ answers' \in Seq(AnswerSet) /\ Len(answers') = Len(typed) /\ pc' = "read"
        /\ pc \notin {"read", "ended"}
    BY <1>6, Answering
  <2> QED BY <1>6, <2>1
    DEF AnswerAtOnce, OptindReset, TypeOK, LoopPart, Commands, loopVars, prefix
<1>7. CASE StartCommand
  BY <1>7, CurrentLine, CurrentWords
  DEF StartCommand, OptindReset, TypeOK, LoopPart, Commands, loopVars, prefix
<1>8. CASE NextOption
  BY <1>8, CurrentLine, CurrentWords
  DEF NextOption, Given, TypeOK, LoopPart, Commands, loopVars, prefix
<1>9. CASE OptionsDone
  BY <1>9, CurrentLine, CurrentWords
  DEF OptionsDone, TypeOK, LoopPart, Commands, loopVars, prefix
<1>10. CASE NextOperand
  BY <1>10, CurrentLine, CurrentWords
  DEF NextOperand, TypeOK, LoopPart, Commands, loopVars, prefix
<1>11. CASE OperandsDone
  BY <1>11, CurrentLine, CurrentWords
  DEF OperandsDone, TypeOK, LoopPart, Commands, localVars, loopVars, prefix
<1>12. CASE TacUsage
  <2>1. /\ answers' \in Seq(AnswerSet) /\ Len(answers') = Len(typed) /\ pc' = "read"
        /\ pc \notin {"read", "ended"}
    BY <1>12, Answering
  <2> QED BY <1>12, <2>1
    DEF TacUsage, TypeOK, LoopPart, Commands, localVars, loopVars, prefix
<1>13. CASE OpenDir
  BY <1>13 DEF OpenDir, TypeOK, LoopPart, Commands, localVars, loopVars, prefix
<1>14. CASE OpenDirFails
  BY <1>14
  DEF OpenDirFails, TypeOK, LoopPart, Commands, localVars, loopVars, Die, prefix
<1>15. CASE List
  <2>1. /\ answers' \in Seq(AnswerSet) /\ Len(answers') = Len(typed) /\ pc' = "read"
        /\ pc \notin {"read", "ended"}
    BY <1>15, Answering
  <2> QED BY <1>15, <2>1
    DEF List, TypeOK, LoopPart, Commands, localVars, loopVars, prefix
<1>16. CASE StatMissing
  <2>1. /\ answers' \in Seq(AnswerSet) /\ Len(answers') = Len(typed) /\ pc' = "read"
        /\ pc \notin {"read", "ended"}
    BY <1>16, Answering
  <2> QED BY <1>16, <2>1
    DEF StatMissing, TypeOK, LoopPart, Commands, localVars, loopVars, prefix
<1>17. CASE Stat
  BY <1>17 DEF Stat, TypeOK, LoopPart, Commands, loopVars, prefix
<1>18. CASE OpenAndReverse
  <2>1. /\ answers' \in Seq(AnswerSet) /\ Len(answers') = Len(typed) /\ pc' = "read"
        /\ pc \notin {"read", "ended"}
    BY <1>18, Answering
  <2> QED BY <1>18, <2>1
    DEF OpenAndReverse, TypeOK, LoopPart, Commands, localVars, loopVars, prefix
<1>19. CASE OpenFails
  BY <1>19
  DEF OpenFails, TypeOK, LoopPart, Commands, localVars, loopVars, Die, prefix
<1>20. CASE Environment
  BY <1>20
  DEF Environment, TypeOK, LoopPart, Commands, localVars, loopVars, prefix
<1>21. CASE Finished
  BY <1>21 DEF Finished, TypeOK, LoopPart, Commands, vars, prefix
<1>22. CASE ListCrashes
  BY <1>22
  DEF ListCrashes, TypeOK, LoopPart, Commands, localVars, loopVars, Die, prefix
<1>23. CASE StackOverflow
  BY <1>23
  DEF StackOverflow, TypeOK, LoopPart, Commands, localVars, loopVars, Die, prefix
<1> QED
    BY <1>0, <1>1, <1>2, <1>3, <1>4, <1>5, <1>6, <1>7, <1>8, <1>9, <1>10, <1>11,
       <1>12, <1>13, <1>14, <1>15, <1>16, <1>17, <1>18, <1>19, <1>20, <1>21, <1>22, <1>23
  DEF Next, Execute

\* The line buffer, action by action.
LEMMA LineBufferStep == ConsoleInvariant /\ Next => LineBuffer'
<1> SUFFICES ASSUME ConsoleInvariant, Next
             PROVE  LineBuffer'
  OBVIOUS
<1> USE Constants, MaxLinesAssumption DEF ConsoleInvariant
<1> HIDE DEF AnswerSet
<1>0. CASE ReadLine
  <2>1. /\ line_read' = Len(typed') /\ buffers' = {line_read'}
        /\ Len(typed') = Len(typed) + 1 /\ Len(typed) \in Nat
    BY <1>0, ReadLineStep
  <2> QED BY <2>1 DEF LineBuffer
<1>1. CASE EndOfInput
  BY <1>1 DEF EndOfInput, TypeOK, LoopPart, LineBuffer, localVars, Die
<1>2. CASE ExitLine
  BY <1>2 DEF ExitLine, TypeOK, LoopPart, LineBuffer, localVars, loopVars, Die
<1>3. CASE EmptyLine
  BY <1>3
  DEF EmptyLine, TypeOK, LoopPart, LineBuffer, localVars, loopVars, Answer
<1>4. CASE Expand
  BY <1>4 DEF Expand, TypeOK, LoopPart, LineBuffer, localVars
<1>5. CASE UnsetWords
  BY <1>5 DEF UnsetWords, OptindReset, TypeOK, LoopPart, LineBuffer, loopVars,
              Answer, Die
<1>6. CASE AnswerAtOnce
  BY <1>6 DEF AnswerAtOnce, OptindReset, TypeOK, LoopPart, LineBuffer, loopVars,
              Answer
<1>7. CASE StartCommand
  BY <1>7 DEF StartCommand, OptindReset, TypeOK, LoopPart, LineBuffer, loopVars
<1>8. CASE NextOption
  BY <1>8 DEF NextOption, Given, TypeOK, LoopPart, LineBuffer, loopVars
<1>9. CASE OptionsDone
  BY <1>9 DEF OptionsDone, TypeOK, LoopPart, LineBuffer, loopVars
<1>10. CASE NextOperand
  BY <1>10 DEF NextOperand, TypeOK, LoopPart, LineBuffer, loopVars
<1>11. CASE OperandsDone
  BY <1>11 DEF OperandsDone, TypeOK, LoopPart, LineBuffer, localVars, loopVars
<1>12. CASE TacUsage
  BY <1>12
  DEF TacUsage, TypeOK, LoopPart, LineBuffer, localVars, loopVars, Answer
<1>13. CASE OpenDir
  BY <1>13 DEF OpenDir, TypeOK, LoopPart, LineBuffer, localVars, loopVars
<1>14. CASE OpenDirFails
  BY <1>14
  DEF OpenDirFails, TypeOK, LoopPart, LineBuffer, localVars, loopVars, Die
<1>15. CASE List
  BY <1>15 DEF List, TypeOK, LoopPart, LineBuffer, localVars, loopVars, Answer
<1>16. CASE StatMissing
  BY <1>16
  DEF StatMissing, TypeOK, LoopPart, LineBuffer, localVars, loopVars, Answer
<1>17. CASE Stat
  BY <1>17 DEF Stat, TypeOK, LoopPart, LineBuffer, loopVars
<1>18. CASE OpenAndReverse
  BY <1>18
  DEF OpenAndReverse, TypeOK, LoopPart, LineBuffer, localVars, loopVars, Answer
<1>19. CASE OpenFails
  BY <1>19 DEF OpenFails, TypeOK, LoopPart, LineBuffer, localVars, loopVars, Die
<1>20. CASE Environment
  BY <1>20 DEF Environment, TypeOK, LoopPart, LineBuffer, localVars, loopVars
<1>21. CASE Finished
  BY <1>21 DEF Finished, TypeOK, LoopPart, LineBuffer, vars
<1>22. CASE ListCrashes
  BY <1>22
  DEF ListCrashes, TypeOK, LoopPart, LineBuffer, localVars, loopVars, Die
<1>23. CASE StackOverflow
  BY <1>23
  DEF StackOverflow, TypeOK, LoopPart, LineBuffer, localVars, loopVars, Die
<1> QED
    BY <1>0, <1>1, <1>2, <1>3, <1>4, <1>5, <1>6, <1>7, <1>8, <1>9, <1>10, <1>11,
       <1>12, <1>13, <1>14, <1>15, <1>16, <1>17, <1>18, <1>19, <1>20, <1>21, <1>22, <1>23
  DEF Next, Execute

\* One more word of options adds its letters.
LEMMA OptionsGrow ==
  ASSUME NEW c, NEW w \in Seq(Word), NEW n \in Nat, n > 0, w[n + 1] \in Option
  PROVE  OptionsOf(c, w, n + 1)
           = OptionsOf(c, w, n) \cup (Letters[w[n + 1]] \cap Accepted(c))
<1>1. 2 .. n + 1 = (2 .. n) \cup {n + 1}
  OBVIOUS
<1> QED BY <1>1 DEF OptionsOf

\* When the options come first and the next word is none, all have been seen.
LEMMA OptionsComplete ==
  ASSUME NEW c, NEW w \in Seq(Word), NEW n \in 0 .. Len(w),
         \A k \in 2 .. Len(w) : w[k] \in Option => k <= n
  PROVE  OptionsOf(c, w, Len(w)) = OptionsOf(c, w, n)
<1>1. \A k \in 2 .. Len(w) : w[k] \in Option => k \in 2 .. n
  OBVIOUS
<1>2. \A k \in 2 .. n : k \in 2 .. Len(w)
  OBVIOUS
<1> QED BY <1>1, <1>2 DEF OptionsOf

\* One round of the operand loop keeps the first word the command may use.
LEMMA OperandStep ==
  ASSUME NEW c, NEW w \in Seq(Word), NEW n \in Nat, n > 0, NEW f,
         IsOperand(c, w, n, f), w[n + 1] \notin Option
  PROVE  IsOperand(c, w, n + 1,
           IF w[n + 1] \in BeginsWith[c] \/ f # NoName THEN f ELSE w[n + 1])
<1>1. \A k : k \in 2 .. n + 1 <=> (k \in 2 .. n \/ k = n + 1)
  OBVIOUS
<1>2. CASE f # NoName
  BY <1>1, <1>2 DEF IsOperand
<1>3. CASE f = NoName
  <2>1. \A k \in 2 .. n : ~IsTarget(c, w, k)
    BY <1>3 DEF IsOperand, IsTarget
  <2>2. CASE IsTarget(c, w, n + 1)
    <3>1. (IF w[n + 1] \in BeginsWith[c] \/ f # NoName THEN f ELSE w[n + 1]) = w[n + 1]
      BY <1>3, <2>2 DEF IsTarget
    <3>2. n + 1 \in 2 .. n + 1 /\ (n + 1) - 1 = n
      OBVIOUS
    <3> QED BY <2>1, <2>2, <3>1, <3>2 DEF IsOperand
  <2>3. CASE ~IsTarget(c, w, n + 1)
    <3>1. (IF w[n + 1] \in BeginsWith[c] \/ f # NoName THEN f ELSE w[n + 1]) = NoName
      BY <1>3, <2>3 DEF IsTarget
    <3>2. \A k \in 2 .. n + 1 : ~IsTarget(c, w, k)
      BY <1>1, <2>1, <2>3
    <3> QED BY <3>1, <3>2 DEF IsOperand
  <2> QED BY <2>2, <2>3
<1> QED BY <1>2, <1>3

\* The option and operand loops, action by action.
LEMMA ScanPartStep == ConsoleInvariant /\ Next => ScanPart'
<1> SUFFICES ASSUME ConsoleInvariant, Next
             PROVE  ScanPart'
  OBVIOUS
<1> USE Constants, MaxLinesAssumption DEF ConsoleInvariant
<1> HIDE DEF AnswerSet
<1>0. CASE ReadLine
  BY <1>0 DEF ReadLine, BuffersAfter, HistoryAfter, TypeOK, LoopPart, ScanPart,
              localVars, prefix
<1>1. CASE EndOfInput
  BY <1>1 DEF EndOfInput, TypeOK, LoopPart, ScanPart, localVars, Die, prefix
<1>2. CASE ExitLine
  BY <1>2
  DEF ExitLine, TypeOK, LoopPart, ScanPart, localVars, loopVars, Die, prefix
<1>3. CASE EmptyLine
  BY <1>3
  DEF EmptyLine, TypeOK, LoopPart, ScanPart, localVars, loopVars, Answer, prefix
<1>4. CASE Expand
  BY <1>4, CurrentLine, CurrentWords
  DEF Expand, TypeOK, LoopPart, ScanPart, localVars, prefix
<1>5. CASE UnsetWords
  BY <1>5
  DEF UnsetWords, OptindReset, TypeOK, LoopPart, ScanPart, loopVars, Answer, Die,
      prefix
<1>6. CASE AnswerAtOnce
  BY <1>6 DEF AnswerAtOnce, OptindReset, TypeOK, LoopPart, ScanPart, loopVars,
              Answer, prefix
<1>7. CASE StartCommand
  <2>1. /\ pc' = "options" /\ optind' = 0 /\ modifiers' = {} /\ filename' = NoName
        /\ we' = we /\ typed' = typed /\ line_read' = line_read
    BY <1>7 DEF StartCommand, OptindReset, loopVars
  <2>2. we \in Seq(Word)
    BY <1>7, CurrentWords DEF StartCommand, OptindReset
  <2>3. OptionsOf(prefix, we, 0) = {}
    BY DEF OptionsOf
  <2>4. 0 <= Len(we) /\ 2 .. 0 = {}
    BY <2>2
  <2> QED BY <2>1, <2>3, <2>4 DEF ScanPart, prefix
<1>8. CASE NextOption
  <2> DEFINE n == NextArg
  <2>1. /\ pc' = "options" /\ optind' = n + 1 /\ filename' = NoName
        /\ modifiers' = modifiers \cup (Letters[we[n + 1]] \cap Accepted(prefix))
        /\ we' = we /\ prefix' = prefix
        /\ n < Len(we) /\ we[n + 1] \in Option
        /\ modifiers = OptionsOf(prefix, we, optind)
        /\ \A k \in 2 .. optind : we[k] \in Option
    BY <1>8 DEF NextOption, Given, MoreOptions, loopVars, prefix, ScanPart
  <2>2. we \in Seq(Word)
    BY <1>8, CurrentWords DEF NextOption, Given, LoopPart
  <2>3. /\ n \in Nat /\ n > 0 /\ n >= optind /\ optind \in Nat
        /\ 2 .. optind = 2 .. n
    BY DEF NextArg, TypeOK
  <2> HIDE DEF n
  <2>4. OptionsOf(prefix, we, optind) = OptionsOf(prefix, we, n)
    BY <2>3 DEF OptionsOf
  <2>5. modifiers' = OptionsOf(prefix, we, n + 1)
    BY <2>1, <2>2, <2>3, <2>4, OptionsGrow
  <2>6. \A k \in 2 .. n + 1 : we[k] \in Option
    BY <2>1, <2>3
  <2>7. n + 1 <= Len(we)
    BY <2>1, <2>2, <2>3
  <2> QED BY <2>1, <2>5, <2>6, <2>7 DEF ScanPart
<1>9. CASE OptionsDone
  <2>1. /\ pc' = "operands" /\ filename' = NoName /\ modifiers' = modifiers
        /\ we' = we /\ prefix' = prefix /\ ~MoreOptions
        /\ optind' = IF we = <<>> THEN optind ELSE NextArg
        /\ modifiers = OptionsOf(prefix, we, optind)
        /\ optind <= Len(we) /\ optind \in Nat
        /\ \A k \in 2 .. optind : we[k] \in Option
    BY <1>9 DEF OptionsDone, loopVars, prefix, ScanPart, TypeOK
  <2>2. /\ we \in Seq(Word) /\ Len(we) \in Nat
        /\ \A k, m \in 2 .. Len(we) :
             we[m] \in Option /\ k < m => we[k] \in Option
    BY <1>9, CurrentWords DEF OptionsDone, LoopPart
  <2>3. /\ optind' \in 0 .. Len(we)
        /\ optind' > 0 \/ we = <<>>
        /\ 2 .. optind' = 2 .. optind
    BY <2>1, <2>2 DEF NextArg
  <2>4. ASSUME NEW k \in 2 .. Len(we), we[k] \in Option
        PROVE  k <= optind'
    <3> SUFFICES ASSUME k > optind' PROVE FALSE
      BY <2>3
    <3>1. we # <<>> /\ optind' = NextArg /\ NextArg \in Nat /\ NextArg > 0
      BY <2>1, <2>2, <2>3 DEF NextArg
    <3>2. NextArg + 1 \in 2 .. Len(we) /\ NextArg < Len(we)
      BY <2>2, <3>1
    <3>3. we[NextArg + 1] \in Option
      BY <2>2, <2>4, <3>1, <3>2
    <3> QED BY <2>1, <3>2, <3>3 DEF MoreOptions
  <2>5. modifiers' = OptionsOf(prefix, we, Len(we))
    <3>1. OptionsOf(prefix, we, Len(we)) = OptionsOf(prefix, we, optind')
      BY <2>2, <2>3, <2>4, OptionsComplete
    <3>2. OptionsOf(prefix, we, optind') = OptionsOf(prefix, we, optind)
      BY <2>3 DEF OptionsOf
    <3> QED BY <2>1, <3>1, <3>2
  <2>6. IsOperand(prefix, we, optind', NoName)
    BY <2>1, <2>3 DEF IsOperand, IsTarget
  <2> QED BY <2>1, <2>2, <2>3, <2>4, <2>5, <2>6 DEF ScanPart
<1>10. CASE NextOperand
  <2>1. /\ pc' = "operands" /\ optind' = optind + 1 /\ modifiers' = modifiers
        /\ filename' = IF we[optind + 1] \in BeginsWith[prefix] \/ filename # NoName
                         THEN filename ELSE we[optind + 1]
        /\ we' = we /\ prefix' = prefix
        /\ optind < Len(we) /\ optind \in Nat
        /\ optind > 0 \/ we = <<>>
        /\ \A k \in 2 .. Len(we) : we[k] \in Option => k <= optind
        /\ modifiers = OptionsOf(prefix, we, Len(we))
        /\ IsOperand(prefix, we, optind, filename)
    BY <1>10 DEF NextOperand, loopVars, prefix, ScanPart, TypeOK
  <2>2. we \in Seq(Word) /\ Len(we) \in Nat
    BY <1>10, CurrentWords DEF NextOperand, LoopPart
  <2>3. optind > 0 /\ optind + 1 \in 2 .. Len(we) /\ we[optind + 1] \notin Option
    BY <2>1, <2>2
  <2>4. IsOperand(prefix, we, optind', filename')
    BY <2>1, <2>2, <2>3, OperandStep
  <2>5. /\ optind' <= Len(we) /\ optind' > 0
        /\ \A k \in 2 .. Len(we) : we[k] \in Option => k <= optind'
    BY <2>1, <2>2
  <2> QED BY <2>1, <2>4, <2>5 DEF ScanPart
<1>11. CASE OperandsDone
  <2>1. /\ pc = "operands" /\ pc' \in {"opendir", "stat"}
        /\ optind >= Len(we) /\ optind \in Nat
        /\ optind' = optind /\ modifiers' = modifiers /\ filename' = filename
        /\ we' = we /\ prefix' = prefix
    BY <1>11 DEF OperandsDone, loopVars, localVars, prefix, TypeOK
  <2>2. Len(we) \in Nat
    BY <1>11, CurrentWords DEF OperandsDone, LoopPart
  <2> QED BY <2>1, <2>2 DEF ScanPart
<1>12. CASE TacUsage
  BY <1>12
  DEF TacUsage, TypeOK, LoopPart, ScanPart, localVars, loopVars, Answer, prefix
<1>13. CASE OpenDir
  BY <1>13 DEF OpenDir, TypeOK, LoopPart, ScanPart, localVars, loopVars, prefix
<1>14. CASE OpenDirFails
  BY <1>14
  DEF OpenDirFails, TypeOK, LoopPart, ScanPart, localVars, loopVars, Die, prefix
<1>15. CASE List
  BY <1>15
  DEF List, TypeOK, LoopPart, ScanPart, localVars, loopVars, Answer, prefix
<1>16. CASE StatMissing
  BY <1>16
  DEF StatMissing, TypeOK, LoopPart, ScanPart, localVars, loopVars, Answer, prefix
<1>17. CASE Stat
  BY <1>17 DEF Stat, TypeOK, LoopPart, ScanPart, loopVars, prefix
<1>18. CASE OpenAndReverse
  BY <1>18
  DEF OpenAndReverse, TypeOK, LoopPart, ScanPart, localVars, loopVars, Answer,
      prefix
<1>19. CASE OpenFails
  BY <1>19
  DEF OpenFails, TypeOK, LoopPart, ScanPart, localVars, loopVars, Die, prefix
<1>20. CASE Environment
  BY <1>20
  DEF Environment, TypeOK, LoopPart, ScanPart, localVars, loopVars, prefix
<1>21. CASE Finished
  BY <1>21 DEF Finished, TypeOK, LoopPart, ScanPart, vars, prefix
<1>22. CASE ListCrashes
  BY <1>22
  DEF ListCrashes, TypeOK, LoopPart, ScanPart, localVars, loopVars, Die, prefix
<1>23. CASE StackOverflow
  BY <1>23
  DEF StackOverflow, TypeOK, LoopPart, ScanPart, localVars, loopVars, Die, prefix
<1> QED
    BY <1>0, <1>1, <1>2, <1>3, <1>4, <1>5, <1>6, <1>7, <1>8, <1>9, <1>10, <1>11,
       <1>12, <1>13, <1>14, <1>15, <1>16, <1>17, <1>18, <1>19, <1>20, <1>21, <1>22, <1>23
  DEF Next, Execute

\* The descriptor of the directory being listed, action by action.
LEMMA DescriptorPartStep == ConsoleInvariant /\ Next => DescriptorPart'
<1> SUFFICES ASSUME ConsoleInvariant, Next
             PROVE  DescriptorPart'
  OBVIOUS
<1> USE Constants, MaxLinesAssumption DEF ConsoleInvariant
<1> HIDE DEF AnswerSet
<1>0. CASE ReadLine
  BY <1>0 DEF ReadLine, BuffersAfter, HistoryAfter, TypeOK, DescriptorPart,
              localVars
<1>1. CASE EndOfInput
  BY <1>1 DEF EndOfInput, TypeOK, DescriptorPart, localVars, Die
<1>2. CASE ExitLine
  BY <1>2 DEF ExitLine, TypeOK, DescriptorPart, localVars, loopVars, Die
<1>3. CASE EmptyLine
  BY <1>3 DEF EmptyLine, TypeOK, DescriptorPart, localVars, loopVars, Answer
<1>4. CASE Expand
  BY <1>4 DEF Expand, TypeOK, DescriptorPart, localVars
<1>5. CASE UnsetWords
  BY <1>5 DEF UnsetWords, OptindReset, TypeOK, DescriptorPart, loopVars, Answer, Die
<1>6. CASE AnswerAtOnce
  BY <1>6 DEF AnswerAtOnce, OptindReset, TypeOK, DescriptorPart, loopVars, Answer
<1>7. CASE StartCommand
  BY <1>7 DEF StartCommand, OptindReset, TypeOK, DescriptorPart, loopVars
<1>8. CASE NextOption
  BY <1>8 DEF NextOption, Given, TypeOK, DescriptorPart, loopVars
<1>9. CASE OptionsDone
  BY <1>9 DEF OptionsDone, TypeOK, DescriptorPart, loopVars
<1>10. CASE NextOperand
  BY <1>10 DEF NextOperand, TypeOK, DescriptorPart, loopVars
<1>11. CASE OperandsDone
  BY <1>11 DEF OperandsDone, TypeOK, DescriptorPart, localVars, loopVars
<1>12. CASE TacUsage
  BY <1>12 DEF TacUsage, TypeOK, DescriptorPart, localVars, loopVars, Answer
<1>13. CASE OpenDir
  BY <1>13 DEF OpenDir, TypeOK, DescriptorPart, localVars, loopVars
<1>14. CASE OpenDirFails
  BY <1>14 DEF OpenDirFails, TypeOK, DescriptorPart, localVars, loopVars, Die
<1>15. CASE List
  BY <1>15 DEF List, TypeOK, DescriptorPart, localVars, loopVars, Answer
<1>16. CASE StatMissing
  BY <1>16 DEF StatMissing, TypeOK, DescriptorPart, localVars, loopVars, Answer
<1>17. CASE Stat
  BY <1>17 DEF Stat, TypeOK, DescriptorPart, loopVars
<1>18. CASE OpenAndReverse
  BY <1>18
  DEF OpenAndReverse, TypeOK, DescriptorPart, localVars, loopVars, Answer
<1>19. CASE OpenFails
  BY <1>19 DEF OpenFails, TypeOK, DescriptorPart, localVars, loopVars, Die
<1>20. CASE Environment
  BY <1>20 DEF Environment, TypeOK, DescriptorPart, localVars, loopVars
<1>21. CASE Finished
  BY <1>21 DEF Finished, TypeOK, DescriptorPart, vars
<1>22. CASE ListCrashes
  BY <1>22
  DEF ListCrashes, TypeOK, DescriptorPart, localVars, loopVars, Die
<1>23. CASE StackOverflow
  BY <1>23
  DEF StackOverflow, TypeOK, DescriptorPart, localVars, loopVars, Die
<1> QED
    BY <1>0, <1>1, <1>2, <1>3, <1>4, <1>5, <1>6, <1>7, <1>8, <1>9, <1>10, <1>11,
       <1>12, <1>13, <1>14, <1>15, <1>16, <1>17, <1>18, <1>19, <1>20, <1>21, <1>22, <1>23
  DEF Next, Execute

\* The invariant of the loop holds in every reachable state: the line buffer is
\* neither leaked nor dangling, the answers keep up with the lines, and the
\* option and operand loops have seen exactly the words they passed.
THEOREM ConsoleInvariantHolds == Spec => []ConsoleInvariant
<1>1. ConsoleInvariant /\ Next => ConsoleInvariant'
  BY TypeOKStep, LoopPartStep, LineBufferStep, ScanPartStep, DescriptorPartStep
  DEF ConsoleInvariant
<1>2. ConsoleInvariant /\ UNCHANGED vars => ConsoleInvariant'
  BY DEF vars, ConsoleInvariant, TypeOK, LoopPart, LineBuffer, ScanPart,
         DescriptorPart, prefix
<1> QED BY InitInvariant, <1>1, <1>2, PTL DEF Spec

-----------------------------------------------------------------------------
(* The history *)

\* Places in the history are counted among finitely many lines.
LEMMA PlaceTypes ==
  ASSUME typed \in Seq(Lines)
  PROVE  /\ IsFiniteSet(Kept) /\ Cardinality(Kept) \in Nat
         /\ \A n \in Kept : Place(n) \in 1 .. Cardinality(Kept)
<1>1. Kept \subseteq 1 .. Len(typed) /\ IsFiniteSet(1 .. Len(typed)) /\ Len(typed) \in Nat
  <2>1. Len(typed) \in Nat
    OBVIOUS
  <2>2. IsFiniteSet(1 .. Len(typed))
    BY <2>1, FS_Interval
  <2> QED
    BY <2>1, <2>2 DEF Kept
<1>2. IsFiniteSet(Kept) /\ Cardinality(Kept) \in Nat
  BY <1>1, FS_Subset, FS_CardinalityType
<1>3. ASSUME NEW n \in Kept PROVE Place(n) \in 1 .. Cardinality(Kept)
  <2> DEFINE before == {m \in Kept : m <= n}
  <2>1. before \subseteq Kept /\ n \in before
    BY <1>1, <1>3
  <2> HIDE DEF before
  <2>2. IsFiniteSet(before) /\ Cardinality(before) <= Cardinality(Kept)
    BY <1>2, <2>1, FS_Subset
  <2>3. Cardinality(before) \in Nat /\ Cardinality(before) # 0
    BY <2>1, <2>2, FS_CardinalityType, FS_EmptySet
  <2>4. Place(n) = Cardinality(before)
    BY DEF Place, before
  <2> QED
    BY <1>2, <2>2, <2>3, <2>4
<1> QED
  BY <1>2, <1>3

\* A line typed is the last in the history, or leaves it alone when it is empty.
LEMMA HistoryReadLine ==
  ASSUME ConsoleInvariant, HistoryMatchesInput, ReadLine
  PROVE  HistoryMatchesInput'
<1>1. ASSUME NEW S, NEW q \in Seq(S), NEW e \in S
      PROVE  /\ Len(Append(q, e)) = Len(q) + 1 /\ Append(q, e)[Len(q) + 1] = e
             /\ \A k \in 1 .. Len(q) : Append(q, e)[k] = q[k]
  OBVIOUS
<1>2. PICK l \in Lines :
        /\ typed' = Append(typed, l)
        /\ history' = IF l.prefix = "" THEN history ELSE Append(history, l)
  BY DEF ReadLine, HistoryAfter
<1>3. typed \in Seq(Lines) /\ history \in Seq(Lines)
  BY DEF ConsoleInvariant, TypeOK
<1> DEFINE last == Len(typed) + 1
<1>4. /\ Len(typed') = last /\ typed'[last] = l /\ Len(typed) \in Nat
      /\ \A n \in 1 .. Len(typed) : typed'[n] = typed[n]
  <2>1. Len(typed) \in Nat
    BY <1>3
  <2> QED
    BY <1>1, <1>2, <1>3, <2>1
<1>5. /\ IsFiniteSet(Kept) /\ Cardinality(Kept) \in Nat
      /\ \A n \in Kept : Place(n) \in 1 .. Cardinality(Kept)
  BY <1>3, PlaceTypes
<1>6. Kept \subseteq 1 .. Len(typed)
  BY DEF Kept
<1>7. \A n \in Kept : n \in Nat /\ n <= Len(typed) /\ n < last
  BY <1>4, <1>6
<1>8. Len(history) = Cardinality(Kept) /\ \A n \in Kept : history[Place(n)] = typed[n]
  BY DEF HistoryMatchesInput
<1>9. Kept' = IF l.prefix = "" THEN Kept ELSE Kept \cup {last}
  <2> HIDE DEF Kept
  <2>1. \A n : n \in Kept <=> n \in 1 .. Len(typed) /\ typed[n].prefix # ""
    BY DEF Kept
  <2>2. \A n : n \in Kept' <=> n \in 1 .. Len(typed') /\ typed'[n].prefix # ""
    BY DEF Kept
  <2>3. \A n : n \in 1 .. Len(typed') <=> n \in 1 .. Len(typed) \/ n = last
    BY <1>4
  <2> HIDE DEF last
  <2> QED
    BY <1>4, <2>1, <2>2, <2>3
<1>10. \A n \in Kept : Place(n)' = Place(n)
  <2> TAKE n \in Kept
  <2>1. ~(last <= n) /\ last \in Nat
    BY <1>4, <1>7
  <2> HIDE DEF last, Kept
  <2>2. \A m : m \in Kept' /\ m <= n <=> m \in Kept /\ m <= n
    BY <1>9, <2>1
  <2>3. {m \in Kept' : m <= n} = {m \in Kept : m <= n}
    BY <2>2
  <2> QED
    BY <2>3 DEF Place
<1> HIDE DEF last
<1>11. CASE l.prefix = ""
  <2>1. \A n \in Kept : typed'[n] = typed[n]
    BY <1>4, <1>6
  <2> QED
    BY <1>2, <1>8, <1>9, <1>10, <1>11, <2>1 DEF HistoryMatchesInput
<1>12. CASE l.prefix # ""
  <2>1. last \notin Kept
    BY <1>4, <1>6 DEF last
  <2>2. Cardinality(Kept') = Cardinality(Kept) + 1
    BY <1>5, <1>9, <1>12, <2>1, FS_AddElement
  <2>3. /\ Len(history') = Len(history) + 1 /\ history'[Len(history) + 1] = l
        /\ \A k \in 1 .. Len(history) : history'[k] = history[k]
    <3>1. history' = Append(history, l) /\ history \in Seq(Lines) /\ l \in Lines
      BY <1>2, <1>3, <1>12
    <3> QED
      BY <1>1, <3>1
  <2>4. \A n \in Kept : history'[Place(n)'] = typed'[n]
    BY <1>4, <1>5, <1>6, <1>8, <1>10, <2>3, SMTT(30)
  <2>5. {m \in Kept' : m <= last} = Kept'
    <3>1. \A m \in Kept : m <= last
      BY <1>4, <1>7 DEF last
    <3>2. last <= last
      BY <1>4 DEF last
    <3> HIDE DEF Kept
    <3> QED
      BY <1>9, <3>1, <3>2
  <2>6. Cardinality({m \in Kept' : m <= last}) = Len(history) + 1
    BY <1>8, <2>2, <2>5
  <2>7. \A n : n = last => history'[Place(n)'] = typed'[n]
    BY <1>4, <2>3, <2>6 DEF Place
  <2> QED
    BY <1>8, <1>9, <1>12, <2>2, <2>3, <2>4, <2>7 DEF HistoryMatchesInput
<1> QED
  BY <1>11, <1>12

\* Whatever the commands do, the history holds the lines typed, each once and in
\* order, without the empty ones.
THEOREM HistoryMatchesInputHolds == Spec => []HistoryMatchesInput
<1>1. Init => HistoryMatchesInput
  <2> SUFFICES ASSUME Init PROVE HistoryMatchesInput
    OBVIOUS
  <2>1. Kept = {} /\ Len(history) = 0
    BY DEF Init, Kept
  <2> QED
    BY <2>1, FS_EmptySet DEF HistoryMatchesInput
<1>2. ConsoleInvariant /\ HistoryMatchesInput /\ [Next]_vars => HistoryMatchesInput'
  <2> SUFFICES ASSUME ConsoleInvariant, HistoryMatchesInput, [Next]_vars
               PROVE  HistoryMatchesInput'
    OBVIOUS
  <2>1. CASE ReadLine
    BY <2>1, HistoryReadLine
  <2>2. CASE ~ReadLine
    <3>1. UNCHANGED <<typed, history>>
      BY <2>2
      DEF Next, Execute, EndOfInput, ExitLine, EmptyLine, Expand, UnsetWords, AnswerAtOnce,
          StartCommand, NextOption, OptionsDone, NextOperand, OperandsDone, TacUsage, OpenDir,
          OpenDirFails, List, ListCrashes, StatMissing, Stat, OpenAndReverse, OpenFails,
          StackOverflow, Environment, Finished, loopVars, vars
    <3> QED
      BY <3>1 DEF HistoryMatchesInput, Kept, Place
  <2> QED
    BY <2>1, <2>2
<1> QED
  BY <1>1, <1>2, ConsoleInvariantHolds, PTL DEF Spec

-----------------------------------------------------------------------------
(* The console implements the safety part of Repl. *)

\* Repl's variable words and listed, as Console computes them.
Words == IF pc = "line" /\ prefix \in Commands THEN Expansion(typed[line_read]) ELSE we
Listed == IF pc = "list" THEN openDirs - 1 ELSE openDirs

\* The operators of CommandLine mean the same in both specifications.
LEMMA SameOperators ==
  /\ \A c, w, n, f : Abstract!IsOperand(c, w, n, f) = IsOperand(c, w, n, f)
  /\ \A c, w, n : Abstract!OptionsOf(c, w, n) = OptionsOf(c, w, n)
  /\ \A c, w : Abstract!Immediate(c, w) = Immediate(c, w)
  /\ Abstract!Commands = Commands
  /\ Abstract!Name = Name
<1>1. \A c, w, k : Abstract!IsTarget(c, w, k) = IsTarget(c, w, k)
  BY DEF Abstract!IsTarget, IsTarget
<1>2. \A c, w, n, f : Abstract!IsOperand(c, w, n, f) = IsOperand(c, w, n, f)
  BY <1>1 DEF Abstract!IsOperand, IsOperand
<1>3. \A c, w, n : Abstract!OptionsOf(c, w, n) = OptionsOf(c, w, n)
  BY DEF Abstract!OptionsOf, OptionsOf, Abstract!Accepted, Accepted
<1>4. \A c, w : Abstract!Immediate(c, w) = Immediate(c, w)
  BY DEF Abstract!Immediate, Immediate, Abstract!ManPage, ManPage
<1> QED BY <1>2, <1>3, <1>4 DEF Abstract!Commands, Commands, Abstract!Name, Name

\* The first states correspond.
LEMMA RefineInit == Init => Abstract!Init
BY DEF Init, Abstract!Init

\* A line being handled makes Repl busy with the same command.
LEMMA BusyStep ==
  ASSUME ConsoleInvariant, pc \notin {"read", "ended"}
  PROVE  Abstract!Busy /\ Abstract!cmd = prefix
BY DEF ConsoleInvariant, LoopPart, TypeOK, Abstract!Busy, Abstract!cmd, prefix

\* Reading a line is Ask.
LEMMA RefineRead ==
  ASSUME ConsoleInvariant, ReadLine
  PROVE  Abstract!Ask
<1>1. PICK l \in Lines :
        /\ typed' = Append(typed, l)
        /\ line_read' = Len(typed) + 1
        /\ pc = "read" /\ pc' = "line" /\ we' = we
        /\ UNCHANGED <<status, fs, answers, openDirs>>
  BY DEF ReadLine, BuffersAfter, HistoryAfter
<1>2. /\ typed \in Seq(Lines) /\ Len(answers) = Len(typed) /\ status = "running"
  BY <1>1 DEF ConsoleInvariant, TypeOK, LoopPart
<1>3. typed'[line_read'] = l
  <2>1. typed' = Append(typed, l) /\ line_read' = Len(typed) + 1
    BY <1>1
  <2> QED BY <1>2, <2>1
<1>4. Words = we
  BY <1>1 DEF Words
<1>5. Words' = IF l.valid /\ l.prefix \in Commands THEN l.words ELSE Words
  BY <1>1, <1>3, <1>4 DEF Words, prefix, Expansion
<1>6. Listed' = Listed
  BY <1>1 DEF Listed
<1> QED BY <1>1, <1>2, <1>5, <1>6, SameOperators
        DEF Abstract!Ask, Abstract!Waiting, Words, Listed

\* The steps inside a command change nothing Repl sees.
LEMMA RefineInternal ==
  ASSUME ConsoleInvariant,
         \/ Expand \/ StartCommand \/ NextOption \/ OptionsDone \/ NextOperand
         \/ OperandsDone \/ OpenDir \/ Stat \/ Finished
  PROVE  UNCHANGED Abstract!vars
<1>1. UNCHANGED <<status, fs, typed, answers>>
  BY DEF Expand, StartCommand, OptindReset, NextOption, Given, OptionsDone,
         NextOperand, OperandsDone, OpenDir, Stat, Finished, loopVars, vars
<1>2. Words' = Words
  <2>1. CASE Expand
    <3>1. prefix \in Commands
      BY <2>1, CurrentLine DEF Expand
    <3> QED BY <2>1, <3>1 DEF Expand, Words
  <2>2. CASE ~Expand
    BY <2>2
    DEF StartCommand, OptindReset, NextOption, Given, OptionsDone, NextOperand,
        OperandsDone, OpenDir, Stat, Finished, loopVars, vars, Words, prefix,
        Expansion
  <2> QED BY <2>1, <2>2
<1>3. Listed' = Listed
  <2>1. CASE OpenDir
    <3>1. openDirs \in Nat /\ openDirs' = openDirs + 1 /\ pc = "opendir" /\ pc' = "list"
      BY <2>1 DEF OpenDir, ConsoleInvariant, TypeOK
    <3> QED BY <3>1 DEF Listed
  <2>2. CASE ~OpenDir
    BY <2>2
    DEF Expand, StartCommand, OptindReset, NextOption, Given, OptionsDone,
        NextOperand, OperandsDone, Stat, Finished, vars, Listed
  <2> QED BY <2>1, <2>2
<1> QED BY <1>1, <1>2, <1>3 DEF Abstract!vars, Words, Listed

\* The answers that need no file.
LEMMA RefineAtOnce ==
  ASSUME ConsoleInvariant, EmptyLine \/ AnswerAtOnce
  PROVE  Abstract!ReplyAtOnce
<1>1. /\ pc \in {"line", "dispatch"} /\ pc' = "read"
      /\ UNCHANGED <<status, fs, typed, we, openDirs>>
  BY DEF EmptyLine, AnswerAtOnce, OptindReset, loopVars, Answer
<1>2. Abstract!Busy /\ Abstract!cmd = prefix
  BY <1>1, BusyStep
<1>3. Listed' = Listed
  BY <1>1 DEF Listed
<1>4. CASE EmptyLine
  <2>1. prefix = "" /\ answers' = Append(answers, [cmd |-> "silent"])
    BY <1>4 DEF EmptyLine, Answer
  <2>2. Words' = Words
    BY <1>1, <2>1 DEF Words, Commands
  <2> QED BY <1>1, <1>2, <1>3, <2>1, <2>2
    DEF Abstract!ReplyAtOnce, Words, Listed
<1>5. CASE AnswerAtOnce
  <2>1. /\ prefix \in {"man", "dirname", "other"} /\ we # Junk /\ pc = "dispatch"
        /\ answers' = Append(answers, Immediate(prefix, we))
    BY <1>5 DEF AnswerAtOnce, OptindReset, Answer
  <2>2. Words = we /\ Words' = we
    BY <1>1, <2>1 DEF Words
  <2> QED BY <1>1, <1>2, <1>3, <2>1, <2>2, SameOperators
          DEF Abstract!ReplyAtOnce, Words, Listed
<1> QED BY <1>4, <1>5

\* Running on words that were never set.
LEMMA RefineUnset ==
  ASSUME ConsoleInvariant, UnsetWords
  PROVE  Abstract!ReplyJunk \/ Abstract!Fail
<1>1. /\ pc = "dispatch" /\ pc' \in {"read", "ended"} /\ we = Junk
      /\ UNCHANGED <<fs, typed, we>>
  BY DEF UnsetWords, OptindReset, loopVars, Answer, Die
<1>2. Abstract!Busy /\ Abstract!cmd = prefix /\ prefix \in Commands
  BY <1>1, BusyStep DEF ConsoleInvariant, LoopPart
<1>3. Words = we /\ Words' = we /\ Listed = openDirs /\ Listed' = openDirs'
  BY <1>1 DEF Words, Listed
<1>4. CASE Answer([cmd |-> "junk"]) /\ UNCHANGED status
  <2>1. /\ answers' = Append(answers, [cmd |-> "junk"])
        /\ \/ openDirs' = openDirs
           \/ prefix = "ls" /\ openDirs < FdLimit /\ openDirs' = openDirs + 1
    BY <1>1, <1>4 DEF UnsetWords, OptindReset, Answer, Die
  <2> QED BY <1>1, <1>2, <1>3, <1>4, <2>1, SameOperators
          DEF Abstract!ReplyJunk, Words, Listed
<1>5. CASE Die("crashed") /\ UNCHANGED <<answers, openDirs>>
  BY <1>1, <1>2, <1>3, <1>5, SameOperators
  DEF Abstract!Fail, Abstract!MayCrash, Words, Listed, Die
<1>6. CASE prefix = "ls" /\ Die("failed") /\ UNCHANGED <<answers, openDirs>>
  BY <1>1, <1>2, <1>3, <1>6, SameOperators
  DEF Abstract!Fail, Abstract!MayFail, Words, Listed, Die
<1> QED BY <1>4, <1>5, <1>6 DEF UnsetWords, OptindReset

\* A listing, one that ends the console, and a directory that cannot be opened.
LEMMA RefineLs ==
  ASSUME ConsoleInvariant, List \/ ListCrashes \/ OpenDirFails
  PROVE  Abstract!ReplyLs \/ Abstract!ListingCrash \/ Abstract!Fail
<1>1. /\ pc \in {"opendir", "list"} /\ pc' \in {"read", "ended"}
      /\ UNCHANGED <<fs, typed, we, openDirs>>
  BY DEF List, ListCrashes, OpenDirFails, loopVars, Answer, Die
<1>2. /\ Abstract!Busy /\ Abstract!cmd = "ls" /\ we # Junk /\ prefix = "ls"
  BY <1>1, BusyStep DEF ConsoleInvariant, LoopPart
<1>3. /\ filename \in Name /\ modifiers = OptionsOf("ls", we, Len(we))
      /\ IsOperand("ls", we, Len(we), filename)
      /\ openDirs \in 0 .. FdLimit /\ FdLimit \in Nat
  BY <1>1, <1>2, Constants DEF ConsoleInvariant, TypeOK, ScanPart
<1>4. Words = we /\ Words' = we /\ Listed' = openDirs
  BY <1>1 DEF Words, Listed
<1>5. CASE List
  <2>1. /\ status' = status
        /\ answers' = Append(answers, [cmd |-> "ls", opts |-> modifiers, on |-> filename])
        /\ pc = "list"
    BY <1>5 DEF List, Answer
  <2>2. Listed < FdLimit /\ Listed' = Listed + 1
    BY <1>3, <1>4, <2>1 DEF Listed
  <2> QED BY <1>1, <1>2, <1>3, <1>4, <2>1, <2>2, SameOperators
          DEF Abstract!ReplyLs, Words, Listed
<1>6. CASE OpenDirFails
  <2>1. /\ status' = "failed" /\ answers' = answers /\ pc = "opendir"
        /\ fs[filename] # "dir" \/ ~(openDirs < FdLimit)
    BY <1>6 DEF OpenDirFails, Die, CanOpenDir
  <2>2. Listed = openDirs
    BY <2>1 DEF Listed
  <2>3. fs[filename] # "dir" \/ openDirs = FdLimit
    BY <1>3, <2>1
  <2>4. Abstract!MayFail
    BY <1>2, <1>3, <1>4, <2>2, <2>3, SameOperators
    DEF Abstract!MayFail, Words, Listed
  <2> QED BY <1>1, <1>2, <1>4, <2>1, <2>2, <2>4
          DEF Abstract!Fail, Words, Listed
<1>7. CASE ListCrashes
  <2>1. status' = "crashed" /\ answers' = answers /\ pc = "list"
    BY <1>7 DEF ListCrashes, Die
  <2>2. Listed < FdLimit /\ Listed' = Listed + 1
    BY <1>3, <1>4, <2>1 DEF Listed
  <2> QED BY <1>1, <1>2, <1>4, <2>1, <2>2
          DEF Abstract!ListingCrash, Words, Listed
<1> QED BY <1>5, <1>6, <1>7

\* The answers of tac, and a file that cannot be opened or is too long.
LEMMA RefineTac ==
  ASSUME ConsoleInvariant,
         TacUsage \/ StatMissing \/ OpenAndReverse \/ OpenFails \/ StackOverflow
  PROVE  Abstract!ReplyTac \/ Abstract!Fail
<1> DEFINE Outs == SUBSET {"missing", "usage", "read error", "lines"}
<1>1. /\ pc \in {"operands", "stat", "fopen"} /\ pc' \in {"read", "ended"}
      /\ UNCHANGED <<fs, typed, we, openDirs>>
  BY DEF TacUsage, StatMissing, OpenAndReverse, OpenFails, StackOverflow, loopVars, Answer, Die
<1>2. /\ Abstract!Busy /\ Abstract!cmd = "tac" /\ we # Junk /\ prefix = "tac"
  <2>1. prefix = "tac" /\ we # Junk
    BY <1>1
    DEF ConsoleInvariant, LoopPart, TacUsage, StatMissing, OpenAndReverse,
        OpenFails, StackOverflow
  <2> QED BY <1>1, <2>1, BusyStep
<1>3. optind = Len(we)
  <2>1. CASE TacUsage
    <3>1. optind \in Nat /\ optind <= Len(we) /\ optind >= Len(we)
      BY <2>1 DEF TacUsage, ConsoleInvariant, TypeOK, ScanPart
    <3>2. Len(we) \in Nat
      BY <1>2, CurrentWords
    <3> QED BY <3>1, <3>2
  <2>2. CASE ~TacUsage
    BY <1>1, <2>2
    DEF StatMissing, OpenAndReverse, OpenFails, StackOverflow, ConsoleInvariant, ScanPart
  <2> QED BY <2>1, <2>2
<1>4. /\ filename \in Name /\ modifiers = OptionsOf("tac", we, Len(we))
      /\ IsOperand("tac", we, Len(we), filename)
      /\ openDirs \in 0 .. FdLimit /\ FdLimit \in Nat
  BY <1>1, <1>2, <1>3, Constants DEF ConsoleInvariant, TypeOK, ScanPart
<1>5. Words = we /\ Words' = we /\ Listed = openDirs /\ Listed' = openDirs
  BY <1>1 DEF Words, Listed
<1>6. ASSUME NEW out \in Outs, status' = status,
             answers' = Append(answers, TacAnswer(out)),
             filename = NoName <=> out = {"usage"},
             out = {"missing"} => fs[filename] = "none",
             "lines" \in out => fs[filename] = "file" /\ openDirs < FdLimit
      PROVE  Abstract!ReplyTac
  <2>1. answers' = Append(answers, [cmd |-> "tac", on |-> filename, out |-> out,
                                    opts |-> OptionsOf("tac", we, Len(we))])
    BY <1>4, <1>6 DEF TacAnswer
  <2> QED BY <1>1, <1>2, <1>4, <1>5, <1>6, <2>1, SameOperators
          DEF Abstract!ReplyTac, Words, Listed
<1>7. CASE TacUsage
  <2>1. /\ status' = status /\ filename = NoName
        /\ answers' = Append(answers, TacAnswer({"usage"}))
    BY <1>7 DEF TacUsage, Answer
  <2> QED BY <1>6, <2>1
<1>8. CASE StatMissing
  <2>1. /\ status' = status /\ filename # NoName /\ fs[filename] = "none"
        /\ answers' = Append(answers, TacAnswer({"missing"}))
    BY <1>8 DEF StatMissing, Answer, ConsoleInvariant, LoopPart
  <2> QED BY <1>6, <2>1
<1>9. CASE OpenAndReverse
  <2> DEFINE out == (IF fileStat = "dir" THEN {"read error"} ELSE {}) \cup
                    (IF fs[filename] = "file" THEN {"lines"} ELSE {})
  <2>1. /\ status' = status /\ filename # NoName /\ openDirs < FdLimit
        /\ answers' = Append(answers, TacAnswer(out))
    BY <1>9 DEF OpenAndReverse, Answer, CanOpen, ConsoleInvariant, LoopPart
  <2>2. /\ out \in Outs /\ "usage" \notin out /\ "missing" \notin out
        /\ "lines" \in out => fs[filename] = "file"
    OBVIOUS
  <2> HIDE DEF out
  <2> QED BY <1>6, <2>1, <2>2
<1>10. CASE OpenFails
  <2>1. /\ status' = "crashed" /\ answers' = answers /\ filename # NoName
        /\ fs[filename] \notin {"dir", "file"} \/ ~(openDirs < FdLimit)
    BY <1>10 DEF OpenFails, Die, CanOpen, ConsoleInvariant, LoopPart
  <2>2. fs[filename] \in Kinds
    BY <1>4, CommandLineAssumption DEF ConsoleInvariant, TypeOK
  <2>3. fs[filename] # "dir" \/ openDirs = FdLimit
    BY <1>4, <2>1, <2>2 DEF Kinds
  <2>4. Abstract!MayCrash
    BY <1>2, <1>4, <1>5, <2>1, <2>3, SameOperators
    DEF Abstract!MayCrash, Words, Listed, Commands
  <2> QED BY <1>1, <1>2, <1>5, <2>1, <2>4 DEF Abstract!Fail, Words, Listed
<1>11. CASE StackOverflow
  <2>1. /\ status' = "crashed" /\ answers' = answers /\ filename # NoName
        /\ fs[filename] # "dir"
    BY <1>11 DEF StackOverflow, Die, ConsoleInvariant, LoopPart
  <2>2. Abstract!MayCrash
    BY <1>2, <1>4, <1>5, <2>1, SameOperators
    DEF Abstract!MayCrash, Words, Listed, Commands
  <2> QED BY <1>1, <1>2, <1>5, <2>1, <2>2 DEF Abstract!Fail, Words, Listed
<1> QED BY <1>7, <1>8, <1>9, <1>10, <1>11

\* The two orderly ways to leave the loop, and the file system.
LEMMA RefineRest ==
  /\ ConsoleInvariant /\ ExitLine => Abstract!Exit
  /\ ConsoleInvariant /\ EndOfInput => Abstract!EndOfInput
  /\ ConsoleInvariant /\ Environment => Abstract!Change
<1>1. ASSUME ConsoleInvariant, ExitLine
      PROVE  Abstract!Exit
  <2>1. /\ pc = "line" /\ prefix = "exit" /\ pc' = "ended" /\ status' = "exited"
        /\ UNCHANGED <<fs, typed, answers, we, openDirs>>
    BY <1>1 DEF ExitLine, Die, loopVars
  <2>2. Abstract!Busy /\ Abstract!cmd = prefix
    BY <1>1, <2>1, BusyStep
  <2>3. Words = we /\ Words' = we /\ Listed' = Listed
    BY <2>1 DEF Words, Listed, Commands
  <2> QED BY <2>1, <2>2, <2>3 DEF Abstract!Exit, Words, Listed
<1>2. ASSUME ConsoleInvariant, EndOfInput
      PROVE  Abstract!EndOfInput
  <2>1. /\ pc = "read" /\ pc' = "ended" /\ status' = "crashed" /\ status = "running"
        /\ Len(answers) = Len(typed)
        /\ UNCHANGED <<fs, typed, answers, we, openDirs>>
    BY <1>2 DEF EndOfInput, Die, ConsoleInvariant, LoopPart
  <2>2. Words = we /\ Words' = we /\ Listed' = Listed
    BY <2>1 DEF Words, Listed
  <2> QED BY <2>1, <2>2 DEF Abstract!EndOfInput, Abstract!Waiting, Words, Listed
<1>3. ASSUME ConsoleInvariant, Environment
      PROVE  Abstract!Change
  <2>1. fs' \in FileSystems /\ UNCHANGED <<pc, status, typed, answers, we, openDirs, line_read>>
    BY <1>3 DEF Environment, loopVars
  <2>2. Words' = Words /\ Listed' = Listed
    BY <2>1 DEF Words, Listed, prefix, Expansion
  <2> QED BY <2>1, <2>2 DEF Abstract!Change, Words, Listed
<1> QED BY <1>1, <1>2, <1>3

\* Every behaviour of the console is one Repl allows: lines are answered in
\* order, each with what its words, the words of the last accepted line and
\* the file system determine, and the console ends early only for the reasons
\* Repl lists.
THEOREM ConsoleImplementsRepl == Spec => Abstract!SafeSpec
<1>1. ConsoleInvariant /\ Next => [Abstract!Next]_(Abstract!vars)
  BY RefineRead, RefineInternal, RefineAtOnce, RefineUnset, RefineLs, RefineTac,
     RefineRest
  DEF Next, Execute, Abstract!Next, Abstract!Respond
<1>2. UNCHANGED vars => UNCHANGED Abstract!vars
  BY DEF vars, Abstract!vars, prefix, Expansion
<1> QED BY RefineInit, <1>1, <1>2, ConsoleInvariantHolds, PTL
        DEF Spec, Abstract!SafeSpec

=============================================================================
