-------------------------------- MODULE Repl --------------------------------
(***************************************************************************)
(* What the console promises: it reads a line, answers it, and reads the   *)
(* next.  The answer is determined by the line, by the words of the last   *)
(* line the shell expansion accepted, and by the file system; an early end *)
(* needs one of the reasons listed in MayFail, MayCrash and ListingCrash.  *)
(***************************************************************************)
EXTENDS CommandLine

VARIABLES
  status,   \* "running", "exited", "failed" (exit(EXIT_FAILURE)) or "crashed"
  fs,       \* the kind of every name
  typed,    \* the lines typed
  answers,  \* one answer for each line
  words,    \* the words of the last line that was accepted, or Junk
  listed    \* the directories listed so far

vars == <<status, fs, typed, answers, words, listed>>

cmd == typed[Len(typed)].prefix

Init ==
  /\ status = "running"
  /\ fs \in FileSystems
  /\ typed = <<>>
  /\ answers = <<>>
  /\ words = Junk
  /\ listed = 0

Waiting == status = "running" /\ Len(answers) = Len(typed)
Busy == status = "running" /\ Len(answers) # Len(typed)

Ask ==
  /\ Waiting
  /\ \E l \in Lines :
       /\ typed' = Append(typed, l)
       /\ words' = IF l.valid /\ l.prefix \in Commands THEN l.words ELSE words
  /\ UNCHANGED <<status, fs, answers, listed>>

\* An answer that no file is needed for.
ReplyAtOnce ==
  /\ Busy
  /\ \/ cmd = "" /\ answers' = Append(answers, [cmd |-> "silent"])
     \/ /\ cmd \in {"man", "dirname", "other"}
        /\ words # Junk
        /\ answers' = Append(answers, Immediate(cmd, words))
  /\ UNCHANGED <<status, fs, typed, words, listed>>

\* A directory listed; each costs a descriptor.
ReplyLs ==
  /\ Busy
  /\ cmd = "ls"
  /\ words # Junk
  /\ listed < FdLimit
  /\ listed' = listed + 1
  /\ \E on \in Name :
       /\ IsOperand(cmd, words, Len(words), on)
       /\ answers' = Append(answers, [cmd |-> "ls", on |-> on,
                                      opts |-> OptionsOf(cmd, words, Len(words))])
  /\ UNCHANGED <<status, fs, typed, words>>

\* The answers tac may give about a name that is of some kind when it looks;
\* the lines are printed of a file, a directory may earn an error.
ReplyTac ==
  /\ Busy
  /\ cmd = "tac"
  /\ words # Junk
  /\ \E on \in Name, out \in SUBSET {"missing", "usage", "read error", "lines"} :
       /\ IsOperand(cmd, words, Len(words), on)
       /\ on = NoName <=> out = {"usage"}
       /\ out = {"missing"} => fs[on] = "none"
       /\ "lines" \in out => fs[on] = "file" /\ listed < FdLimit
       /\ answers' = Append(answers, [cmd |-> "tac", on |-> on, out |-> out,
                                      opts |-> OptionsOf(cmd, words, Len(words))])
  /\ UNCHANGED <<status, fs, typed, words, listed>>

\* A refused line before any was accepted runs on words that were never set.
ReplyJunk ==
  /\ Busy
  /\ cmd \in Commands
  /\ words = Junk
  /\ answers' = Append(answers, [cmd |-> "junk"])
  /\ listed' = listed \/ (cmd = "ls" /\ listed < FdLimit /\ listed' = listed + 1)
  /\ UNCHANGED <<status, fs, typed, words>>

Exit ==
  /\ Busy
  /\ cmd = "exit"
  /\ status' = "exited"
  /\ UNCHANGED <<fs, typed, answers, words, listed>>

\* ls ends the console when its directory cannot be opened, or when as many
\* directories as there are descriptors have been listed.
MayFail ==
  /\ cmd = "ls"
  /\ words # Junk =>
       \/ \E on \in Name : IsOperand("ls", words, Len(words), on) /\ fs[on] # "dir"
       \/ listed = FdLimit

\* tac ends it when its file cannot be opened (any more), or is too long.
MayCrash ==
  /\ cmd \in Commands
  /\ words # Junk =>
       /\ cmd = "tac"
       /\ \E on \in Name \ {NoName} :
            /\ IsOperand("tac", words, Len(words), on)
            /\ fs[on] # "dir" \/ listed = FdLimit

Fail ==
  /\ Busy
  /\ \/ MayFail /\ status' = "failed"
     \/ MayCrash /\ status' = "crashed"
  /\ UNCHANGED <<fs, typed, answers, words, listed>>

\* ls may end it while it lists a directory it has opened: one that changes
\* meanwhile, or that holds a file without owner.
ListingCrash ==
  /\ Busy
  /\ cmd = "ls"
  /\ words # Junk
  /\ listed < FdLimit
  /\ listed' = listed + 1
  /\ status' = "crashed"
  /\ UNCHANGED <<fs, typed, answers, words>>

\* The end of the input.
EndOfInput ==
  /\ Waiting
  /\ status' = "crashed"
  /\ UNCHANGED <<fs, typed, answers, words, listed>>

\* Other programs change the file system.
Change ==
  /\ fs' \in FileSystems
  /\ UNCHANGED <<status, typed, answers, words, listed>>

Respond == ReplyAtOnce \/ ReplyLs \/ ReplyTac \/ ReplyJunk \/ Exit \/ Fail
           \/ ListingCrash

Next == Ask \/ Respond \/ EndOfInput \/ Change

SafeSpec == Init /\ [][Next]_vars

\* A line that was typed is answered, or ends the console.
Spec == SafeSpec /\ WF_vars(Respond)

=============================================================================
