----------------------------- MODULE CommandLine -----------------------------
(***************************************************************************)
(* The lines a user of the console may type and what its commands make of  *)
(* the words of a line.                                                    *)
(*                                                                         *)
(* A line is a record: prefix, the first built-in name it begins with in   *)
(* the order the console compares them ("" for the empty line, "other"     *)
(* when it begins with none); words, what the shell expansion makes of it, *)
(* options before operands, the order in which getopt leaves them; and     *)
(* valid, whether the expansion accepts it (an unquoted | or > makes it    *)
(* fail).                                                                  *)
(***************************************************************************)
EXTENDS Integers, Sequences

CONSTANTS
  Word,        \* the words of a line
  Option,      \* the words that begin with '-'
  Letters,     \* the option letters of such a word
  BeginsWith,  \* for "ls", "tac", "dirname": the words that begin with it
  NoName,      \* the empty word
  Junk,        \* the contents of a variable never set
  Lines,       \* the lines a user may type
  FileSystems, \* what the names may stand for: the kind of every name
  FdLimit      \* the descriptors the process may open, beside those it starts with

Name == Word \ Option
Commands == {"ls", "tac", "man", "dirname", "other"}
Kinds == {"none", "dir", "file", "secret"}   \* a secret name may not be opened

ASSUME CommandLineAssumption ==
  /\ Option \subseteq Word /\ NoName \in Name /\ Junk \notin Seq(Word)
  /\ DOMAIN Letters = Option
  /\ DOMAIN BeginsWith = {"ls", "tac", "dirname"}
  /\ NoName \notin BeginsWith["ls"] \cup BeginsWith["tac"]
  /\ Lines \subseteq [prefix : Commands \cup {"exit", ""},
                      words : Seq(Word), valid : BOOLEAN]
  /\ \A l \in Lines : \A k, m \in 2 .. Len(l.words) :
       l.words[m] \in Option /\ k < m => l.words[k] \in Option
  /\ FileSystems \subseteq [Name -> Kinds]
  /\ FdLimit \in Nat

\* The options a command accepts.
Accepted(cmd) == IF cmd = "ls" THEN {"a", "F", "l", "S"} ELSE {"b", "s"}

\* Those given in words 2 .. n.
OptionsOf(cmd, words, n) ==
  {x \in Accepted(cmd) :
     \E k \in 2 .. n : words[k] \in Option /\ x \in Letters[words[k]]}

\* Whether cmd may operate on word k: an operand that does not begin with the
\* name of the command.
IsTarget(cmd, words, k) ==
  words[k] \notin Option \cup BeginsWith[cmd] \cup {NoName}

\* Whether f is the first such word of 2 .. n, or NoName when there is none.
IsOperand(cmd, words, n, f) ==
  \/ \E k \in 2 .. n :
       /\ IsTarget(cmd, words, k)
       /\ f = words[k]
       /\ \A m \in 2 .. k - 1 : ~IsTarget(cmd, words, m)
  \/ /\ \A k \in 2 .. n : ~IsTarget(cmd, words, k)
     /\ f = NoName

\* The page man prints: the list of commands, one page, or nothing.
ManPage(words) ==
  IF Len(words) = 1 THEN "list"
  ELSE IF Len(words) # 2 THEN "nothing"
  ELSE IF words[2] \in BeginsWith["ls"] THEN "ls"
  ELSE IF words[2] \in BeginsWith["tac"] THEN "tac"
  ELSE IF words[2] \in BeginsWith["dirname"] THEN "dirname"
  ELSE "unknown"

\* What the commands that need no file print for their words.
Immediate(cmd, words) ==
  CASE cmd = "man"     -> [cmd |-> "man", page |-> ManPage(words)]
    [] cmd = "dirname" -> [cmd |-> "dirname", args |-> SubSeq(words, 2, Len(words))]
    [] cmd = "other"   -> [cmd |-> "offending",
                           name |-> IF words = <<>> THEN NoName ELSE words[1]]

=============================================================================
