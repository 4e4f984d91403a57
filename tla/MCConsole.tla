------------------------------ MODULE MCConsole ------------------------------
(***************************************************************************)
(* Model checking Console.  The names are d, a name that begins with ls    *)
(* and one that begins with tac; the option -z is accepted by no command.  *)
(***************************************************************************)
EXTENDS Console

MCWord == {"", "cmd", "-a", "-z", "d", "lsx", "tacx"}
MCOption == {"-a", "-z"}
MCLetters == [w \in MCOption |-> IF w = "-a" THEN {"a", "b"} ELSE {"z"}]
MCBeginsWith ==
  [b \in {"ls", "tac", "dirname"} |->
     CASE b = "ls" -> {"lsx"} [] b = "tac" -> {"tacx"} [] OTHER -> {}]

Line(p, words) == [prefix |-> p, words |-> words, valid |-> TRUE]
Refused(p) == [prefix |-> p, words |-> <<"cmd">>, valid |-> FALSE]

MCLines ==
  { Line("exit", <<"cmd">>), Line("", <<>>),
    Line("man", <<"cmd", "lsx">>),
    Line("dirname", <<"cmd", "d">>),
    Line("other", <<>>),
    Line("ls", <<"cmd", "-a">>),
    Line("ls", <<"cmd", "lsx", "d", "tacx">>),
    Line("tac", <<"cmd", "-z", "-a", "tacx", "", "d">>),
    Line("tac", <<"cmd", "-a", "tacx">>),
    Refused("ls"), Refused("tac") }

FileSystem(cwd, d) ==
  [n \in MCWord \ MCOption |-> CASE n = "" -> cwd [] n = "d" -> d [] OTHER -> "file"]

\* The current directory and d vary, the other names are files.
MCFileSystems ==
  {FileSystem("dir", d) : d \in {"none", "dir", "file"}} \cup
  {FileSystem("secret", "secret")}

=============================================================================
