------------------------------- MODULE Console -------------------------------
(***************************************************************************)
(* The read-eval-print loop of JulioDominguezArjona.c: main, reading a     *)
(* line and adding it to the history, shell expansion, dispatch, and the   *)
(* commands ls, tac, man and dirname up to the point where they print      *)
(* (what they print is the subject of the modules Dirname, SizeSort,       *)
(* ListDir and Tac).                                                       *)
(*                                                                         *)
(* The program has one thread, but between two of its system calls other   *)
(* programs may change the file system.                                    *)
(***************************************************************************)
EXTENDS CommandLine, FiniteSets

CONSTANT MaxLines   \* bound: lines typed

ASSUME MaxLinesAssumption == MaxLines \in Nat

VARIABLES
  pc,          \* where the program is
  status,      \* "running", "exited", "failed" or "crashed"
  fs,          \* the kind of every name
  typed,       \* the lines readline has returned
  answers,     \* what the console has printed, one answer a line
  line_read,   \* the line buffer: its place in typed, 0 for NULL
  buffers,     \* the line buffers allocated and not freed
  history,     \* the entries given to add_history
  we,          \* main's wordexp_t: the words of a line, or Junk
  optind,      \* getopt's global, 0 to make it start again
  modifiers,   \* the options seen by the command
  filename,    \* the operand chosen by the command
  openDirs,    \* descriptors held by directory streams
  fileStat     \* tac: what the name stood for when it was stat'ed

vars == <<pc, status, fs, typed, answers, line_read, buffers, history, we,
          optind, modifiers, filename, openDirs, fileStat>>

prefix == typed[line_read].prefix

\* The words a line leaves in main's wordexp_t: when wordexp refuses the line
\* it leaves the structure as it found it.
Expansion(l) == IF l.valid THEN l.words ELSE we

Init ==
  /\ pc = "read"
  /\ status = "running"
  /\ fs \in FileSystems
  /\ typed = <<>>
  /\ answers = <<>>
  /\ line_read = 0
  /\ buffers = {}
  /\ history = <<>>
  /\ we = Junk
  /\ optind = 1
  /\ modifiers = {}
  /\ filename = NoName
  /\ openDirs = 0
  /\ fileStat = "none"

\* What a command leaves alone of the state of the loop.
loopVars == <<typed, line_read, buffers, history, we>>
\* The locals of a command.
localVars == <<optind, modifiers, filename, fileStat>>

Answer(a) == answers' = Append(answers, a) /\ pc' = "read"
Die(how) == status' = how /\ pc' = "ended"

-----------------------------------------------------------------------------
(* The loop *)

\* Mutated forms of the next two: the buffer is not freed; a line is added even
\* when it is empty.
BuffersNotFreed(n) == buffers \cup {n}
HistoryWithEmpty(l) == Append(history, l)
BuffersAfter(n) == (buffers \ {line_read}) \cup {n}
HistoryAfter(l) == IF l.prefix = "" THEN history ELSE Append(history, l)

\* readLineAndAddToHistoryIfNeccesary, when the user types a line.
ReadLine ==
  /\ pc = "read"
  /\ Len(typed) < MaxLines
  /\ \E l \in Lines :
       /\ typed' = Append(typed, l)
       /\ line_read' = Len(typed) + 1
       /\ buffers' = BuffersAfter(line_read')
       /\ history' = HistoryAfter(l)
  /\ pc' = "line"
  /\ UNCHANGED <<status, fs, answers, we, localVars, openDirs>>

\* At the end of the input readline returns NULL, which main compares with
\* "exit".
EndOfInput ==
  /\ pc = "read"
  /\ buffers' = buffers \ {line_read}
  /\ line_read' = 0
  /\ Die("crashed")
  /\ UNCHANGED <<fs, typed, answers, history, we, localVars, openDirs>>

ExitLine ==
  /\ pc = "line"
  /\ prefix = "exit"
  /\ Die("exited")
  /\ UNCHANGED <<fs, answers, loopVars, localVars, openDirs>>

EmptyLine ==
  /\ pc = "line"
  /\ prefix = ""
  /\ Answer([cmd |-> "silent"])
  /\ UNCHANGED <<status, fs, loopVars, localVars, openDirs>>

\* wordexp, whose result main does not look at.
Expand ==
  /\ pc = "line"
  /\ prefix \notin {"exit", ""}
  /\ we' = Expansion(typed[line_read])
  /\ pc' = "dispatch"
  /\ UNCHANGED <<status, fs, typed, answers, line_read, buffers, history,
                 localVars, openDirs>>

\* Mutated form: getopt is not told to start again.
OptindKept == optind
OptindReset == 0

\* A line refused by wordexp before any was accepted: the command runs on an
\* argc and argv that were never set.
UnsetWords ==
  /\ pc = "dispatch"
  /\ we = Junk
  /\ optind' = OptindReset
  /\ \/ Answer([cmd |-> "junk"]) /\ UNCHANGED <<status, openDirs>>
     \/ /\ prefix = "ls" /\ openDirs < FdLimit
        /\ Answer([cmd |-> "junk"])
        /\ openDirs' = openDirs + 1
        /\ UNCHANGED status
     \/ Die("crashed") /\ UNCHANGED <<answers, openDirs>>
     \/ prefix = "ls" /\ Die("failed") /\ UNCHANGED <<answers, openDirs>>
  /\ UNCHANGED <<fs, loopVars, modifiers, filename, fileStat>>

\* The commands that answer at once.
AnswerAtOnce ==
  /\ pc = "dispatch"
  /\ we # Junk
  /\ prefix \in {"man", "dirname", "other"}
  /\ optind' = OptindReset
  /\ Answer(Immediate(prefix, we))
  /\ UNCHANGED <<status, fs, loopVars, modifiers, filename, fileStat, openDirs>>

\* ls and tac: reset getopt, clear the modifiers and the file name.
StartCommand ==
  /\ pc = "dispatch"
  /\ we # Junk
  /\ prefix \in {"ls", "tac"}
  /\ optind' = OptindReset
  /\ modifiers' = {}
  /\ filename' = NoName
  /\ pc' = "options"
  /\ UNCHANGED <<status, fs, answers, loopVars, fileStat, openDirs>>

-----------------------------------------------------------------------------
(* Options and operands, the same in ls_command and tac_command.  Words    *)
(* count from 0 in argv and from 1 in we.                                  *)

\* getopt starts at argv[1].
NextArg == IF optind = 0 THEN 1 ELSE optind
MoreOptions == NextArg < Len(we) /\ we[NextArg + 1] \in Option

Given(letters) == letters \cap Accepted(prefix)

\* The getopt calls that consume one word of options.
NextOption ==
  /\ pc = "options"
  /\ MoreOptions
  /\ modifiers' = modifiers \cup Given(Letters[we[NextArg + 1]])
  /\ optind' = NextArg + 1
  /\ UNCHANGED <<pc, status, fs, answers, loopVars, filename, fileStat, openDirs>>

\* getopt returns -1; with no words at all it does so before it starts.
OptionsDone ==
  /\ pc = "options"
  /\ ~MoreOptions
  /\ optind' = IF we = <<>> THEN optind ELSE NextArg
  /\ pc' = "operands"
  /\ UNCHANGED <<status, fs, answers, loopVars, modifiers, filename, fileStat, openDirs>>

\* One round of the loop over the operands.
NextOperand ==
  /\ pc = "operands"
  /\ optind < Len(we)
  /\ filename' = IF we[optind + 1] \in BeginsWith[prefix] \/ filename # NoName
                   THEN filename ELSE we[optind + 1]
  /\ optind' = optind + 1
  /\ UNCHANGED <<pc, status, fs, answers, loopVars, modifiers, fileStat, openDirs>>

OperandsDone ==
  /\ pc = "operands"
  /\ optind >= Len(we)
  /\ \/ prefix = "ls" /\ pc' = "opendir"
     \/ prefix = "tac" /\ filename # NoName /\ pc' = "stat"
  /\ UNCHANGED <<status, fs, answers, loopVars, localVars, openDirs>>

TacAnswer(out) ==
  [cmd |-> "tac", opts |-> modifiers, on |-> filename, out |-> out]

TacUsage ==
  /\ pc = "operands"
  /\ optind >= Len(we)
  /\ prefix = "tac" /\ filename = NoName
  /\ Answer(TacAnswer({"usage"}))
  /\ UNCHANGED <<status, fs, loopVars, localVars, openDirs>>

-----------------------------------------------------------------------------
(* The system calls of the commands *)

CanOpenDir == fs[filename] = "dir" /\ openDirs < FdLimit

OpenDir ==
  /\ pc = "opendir"
  /\ CanOpenDir
  /\ openDirs' = openDirs + 1
  /\ pc' = "list"
  /\ UNCHANGED <<status, fs, answers, loopVars, localVars>>

OpenDirFails ==
  /\ pc = "opendir"
  /\ ~CanOpenDir
  /\ Die("failed")
  /\ UNCHANGED <<fs, answers, loopVars, localVars, openDirs>>

\* ls_execute.  The directory stream is never closed.
List ==
  /\ pc = "list"
  /\ Answer([cmd |-> "ls", opts |-> modifiers, on |-> filename])
  /\ UNCHANGED <<status, fs, loopVars, localVars, openDirs>>

\* It may end the console: with -l at a file whose owner or group is in no
\* database, and whenever the directory changes while it is read.
ListCrashes ==
  /\ pc = "list"
  /\ Die("crashed")
  /\ UNCHANGED <<fs, answers, loopVars, localVars, openDirs>>

\* stat: a name that is gone ends the command, a directory only prints an
\* error.
StatMissing ==
  /\ pc = "stat"
  /\ fs[filename] = "none"
  /\ Answer(TacAnswer({"missing"}))
  /\ UNCHANGED <<status, fs, loopVars, localVars, openDirs>>

Stat ==
  /\ pc = "stat"
  /\ fs[filename] # "none"
  /\ fileStat' = fs[filename]
  /\ pc' = "fopen"
  /\ UNCHANGED <<status, fs, answers, loopVars, optind, modifiers, filename, openDirs>>

CanOpen == fs[filename] \in {"dir", "file"} /\ openDirs < FdLimit

\* fopen, tac_readLineRecursive and fclose; a directory opens but cannot be
\* read.
OpenAndReverse ==
  /\ pc = "fopen"
  /\ CanOpen
  /\ Answer(TacAnswer((IF fileStat = "dir" THEN {"read error"} ELSE {}) \cup
                      (IF fs[filename] = "file" THEN {"lines"} ELSE {})))
  /\ UNCHANGED <<status, fs, loopVars, localVars, openDirs>>

\* The result of fopen is not looked at: getline reads from NULL.
OpenFails ==
  /\ pc = "fopen"
  /\ ~CanOpen
  /\ Die("crashed")
  /\ UNCHANGED <<fs, answers, loopVars, localVars, openDirs>>

\* A file of too many lines: the recursion leaves the stack.
StackOverflow ==
  /\ pc = "fopen"
  /\ CanOpen
  /\ fs[filename] = "file"
  /\ Die("crashed")
  /\ UNCHANGED <<fs, answers, loopVars, localVars, openDirs>>

\* Other programs create, remove and protect files.
Environment ==
  /\ fs' \in FileSystems
  /\ UNCHANGED <<pc, status, answers, loopVars, localVars, openDirs>>

Finished == pc = "ended" /\ UNCHANGED vars

Execute ==
  \/ ExitLine \/ EmptyLine \/ Expand
  \/ UnsetWords \/ AnswerAtOnce \/ StartCommand
  \/ NextOption \/ OptionsDone \/ NextOperand \/ OperandsDone \/ TacUsage
  \/ OpenDir \/ OpenDirFails \/ List \/ ListCrashes
  \/ StatMissing \/ Stat \/ OpenAndReverse \/ OpenFails \/ StackOverflow

Next == ReadLine \/ EndOfInput \/ Execute \/ Environment \/ Finished

\* The user need not type, but a command that runs goes on.
Spec == Init /\ [][Next]_vars /\ WF_vars(Execute)


-----------------------------------------------------------------------------
(* Properties *)

PCs == {"read", "line", "dispatch", "options", "operands", "opendir", "list",
        "stat", "fopen", "ended"}

Modifiers == Accepted("ls") \cup Accepted("tac")

\* The answers the console may give, the words they were computed from aside.
AnswerSet ==
  [cmd : {"silent", "junk"}]
    \cup [cmd : {"man"},
          page : {"list", "nothing", "ls", "tac", "dirname", "unknown"}]
    \cup [cmd : {"dirname"}, args : Seq(Word)]
    \cup [cmd : {"offending"}, name : Word]
    \cup [cmd : {"ls"}, opts : SUBSET Modifiers, on : Name]
    \cup [cmd : {"tac"}, opts : SUBSET Modifiers, on : Name,
          out : SUBSET {"missing", "usage", "read error", "lines"}]

\* Every variable stays in its range; openDirs never passes the limit.
TypeOK ==
  /\ pc \in PCs
  /\ status \in {"running", "exited", "failed", "crashed"}
  /\ fs \in FileSystems
  /\ typed \in Seq(Lines) /\ Len(typed) <= MaxLines
  /\ answers \in Seq(AnswerSet) /\ Len(answers) <= Len(typed)
  /\ line_read \in 0 .. Len(typed)
  /\ buffers \subseteq 1 .. Len(typed)
  /\ history \in Seq(Lines)
  /\ we = Junk \/ \E l \in Lines : we = l.words
  /\ optind \in Nat
  /\ modifiers \subseteq Modifiers
  /\ filename \in Name
  /\ openDirs \in 0 .. FdLimit
  /\ fileStat \in Kinds

\* Which command runs where, and that the answers keep up with the lines.
LoopPart ==
  /\ (status = "running") <=> (pc # "ended")
  /\ pc = "read" => Len(answers) = Len(typed)
  /\ pc \notin {"read", "ended"} =>
       /\ Len(typed) = Len(answers) + 1
       /\ line_read = Len(typed)
  /\ pc \in {"options", "operands", "list", "opendir", "stat", "fopen"} => we # Junk
  /\ pc \in {"options", "operands"} => prefix \in {"ls", "tac"}
  /\ pc \in {"opendir", "list"} => prefix = "ls"
  /\ pc \in {"stat", "fopen"} => prefix = "tac" /\ filename # NoName
  /\ pc = "dispatch" => prefix \in Commands

\* The line buffer is neither leaked nor freed while line_read points to it,
\* and it holds the last line typed, through the whole of a command.
LineBuffer ==
  /\ buffers = {line_read} \ {0}
  /\ status # "crashed" => line_read = Len(typed)

\* getopt and the operand loop: the modifiers and the operand are those of
\* the words passed so far.
ScanPart ==
  /\ pc = "options" =>
       /\ optind <= Len(we) /\ filename = NoName
       /\ modifiers = OptionsOf(prefix, we, optind)
       /\ \A k \in 2 .. optind : we[k] \in Option
  /\ pc \in {"operands", "opendir", "list", "stat", "fopen"} =>
       /\ optind <= Len(we) /\ (optind > 0 \/ we = <<>>)
       /\ \A k \in 2 .. Len(we) : we[k] \in Option => k <= optind
       /\ modifiers = OptionsOf(prefix, we, Len(we))
       /\ IsOperand(prefix, we, optind, filename)
  /\ pc \in {"opendir", "list", "stat", "fopen"} => optind = Len(we)

\* While a directory is listed its stream holds a descriptor.
DescriptorPart == pc = "list" => openDirs > 0

\* The inductive invariant of the loop.
ConsoleInvariant ==
  /\ TypeOK
  /\ LoopPart
  /\ LineBuffer
  /\ ScanPart
  /\ DescriptorPart

\* The lines the history is to have, and the place of one among them.
Kept == {n \in 1 .. Len(typed) : typed[n].prefix # ""}
Place(n) == Cardinality({m \in Kept : m <= n})

\* The history is what was typed, in its order, empty lines left out, exit lines
\* included.
HistoryMatchesInput ==
  /\ Len(history) = Cardinality(Kept)
  /\ \A n \in Kept : history[Place(n)] = typed[n]

\* The refinement mapping.  Repl takes in the words of a line when it is
\* typed, and counts a directory when it has been listed.
Abstract ==
  INSTANCE Repl
    WITH words <- IF pc = "line" /\ prefix \in Commands
                    THEN Expansion(typed[line_read]) ELSE we,
         listed <- IF pc = "list" THEN openDirs - 1 ELSE openDirs

\* The console implements Repl, its liveness included.
ImplementsRepl == Abstract!Spec

=============================================================================
