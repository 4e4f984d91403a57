------------------------------- MODULE Dirname -------------------------------
(***************************************************************************)
(* The dirname command of the console (dirname_command and                 *)
(* dirname_printFirectory in JulioDominguezArjona.c).                      *)
(*                                                                         *)
(* The command walks its arguments.  For each one a loop scans the path    *)
(* with pathIndex and, at every slash, copies into the local array         *)
(* pathName everything between index and pathIndex.  A path is a sequence  *)
(* of characters; the C program's path[i] is path[i+1] here, and its       *)
(* terminating NUL is the end of the sequence.                             *)
(***************************************************************************)
EXTENDS Integers, Sequences

CONSTANTS
  Char,       \* the characters of a path
  Slash,      \* '/'
  Dot,        \* '.'
  NUL,        \* the terminator written after the result
  Junk,       \* a byte of pathName this call has not written
  Paths,      \* the paths a user may give
  MaxArgs,    \* bound: arguments after the command name
  PATH_MAX    \* the size of pathName

\* Every path fits pathName with its NUL and has room for the "." result:
\* a longer argument is outside this model.
ASSUME PathsAssumption ==
  /\ Slash \in Char /\ Dot \in Char /\ Dot # Slash
  /\ NUL \notin Char /\ Junk \notin Char /\ NUL # Junk
  /\ PATH_MAX \in Nat \ {0, 1}
  /\ Paths \subseteq Seq(Char)
  /\ \A p \in Paths : Len(p) < PATH_MAX
  /\ MaxArgs \in Nat

VARIABLES
  argv,       \* the arguments after the command name
  dirnamePc,         \* "start", "scan" or "done"
  arg,        \* the loop variable i of dirname_command
  index,      \* where the next byte of pathName is written
  pathIndex,  \* the next character of the path to scan
  pathName,   \* the local array of the current call
  directories         \* the lines printed

dirnameVars == <<argv, dirnamePc, arg, index, pathIndex, pathName, directories>>

Fresh == [k \in 0 .. PATH_MAX - 1 |-> Junk]

DirnameInit ==
  /\ \E n \in 0 .. MaxArgs : argv \in [1 .. n -> Paths]
  /\ dirnamePc = "start"
  /\ arg = 1
  /\ index = 0
  /\ pathIndex = 0
  /\ pathName = Fresh
  /\ directories = <<>>

\* Without an operand the command prints its usage and returns.
MissingOperand ==
  /\ dirnamePc = "start"
  /\ argv = <<>>
  /\ dirnamePc' = "done"
  /\ UNCHANGED <<argv, arg, index, pathIndex, pathName, directories>>

StartArgs ==
  /\ dirnamePc = "start"
  /\ argv # <<>>
  /\ dirnamePc' = "scan"
  /\ UNCHANGED <<argv, arg, index, pathIndex, pathName, directories>>

\* Mutated form: only the first slash is acted on.
AtFirstSlash == argv[arg][pathIndex + 1] = Slash /\ index = 0
AtSlash == argv[arg][pathIndex + 1] = Slash
Piece == index .. pathIndex - 1

\* One iteration of the scan: at a slash, the inner loop copies what lies
\* between index and the slash and moves index up to it.
ScanChar ==
  /\ dirnamePc = "scan"
  /\ pathIndex < Len(argv[arg])
  /\ \/ /\ AtSlash
        /\ pathName' = [k \in DOMAIN pathName |->
                          IF k \in Piece
                            THEN argv[arg][k + 1] ELSE pathName[k]]
        /\ index' = IF index < pathIndex THEN pathIndex ELSE index
     \/ /\ ~AtSlash
        /\ UNCHANGED <<pathName, index>>
  /\ pathIndex' = pathIndex + 1
  /\ UNCHANGED <<argv, dirnamePc, arg, directories>>

\* Mutated form: no "." for an empty result.
TerminatedNoDot(buf, n) == [buf EXCEPT ![n] = NUL]

\* pathName as it is printed: an empty result becomes "." and a NUL ends it.
Terminated(buf, n) ==
  IF n = 0 THEN [buf EXCEPT ![0] = Dot, ![1] = NUL]
           ELSE [buf EXCEPT ![n] = NUL]

\* What printf("%s") shows: the bytes before the first NUL.
Shown(buf) ==
  LET n == CHOOSE k \in DOMAIN buf :
             buf[k] = NUL /\ \A j \in 0 .. k - 1 : buf[j] # NUL
  IN  [k \in 1 .. n |-> buf[k - 1]]

NextArgument == arg + 1
MoreArguments == NextArgument <= Len(argv)

\* The end of dirname_printFirectory, then the next round of the loop of
\* dirname_command, which enters the next call with fresh locals.
PrintDirectory ==
  /\ dirnamePc = "scan"
  /\ pathIndex = Len(argv[arg])
  /\ directories' = Append(directories, Shown(Terminated(pathName, index)))
  /\ arg' = NextArgument
  /\ dirnamePc' = IF MoreArguments THEN "scan" ELSE "done"
  /\ index' = 0
  /\ pathIndex' = 0
  /\ pathName' = Fresh
  /\ UNCHANGED argv

DirnameFinished == dirnamePc = "done" /\ UNCHANGED dirnameVars

DirnameNext == MissingOperand \/ StartArgs \/ ScanChar \/ PrintDirectory \/ DirnameFinished

DirnameSpec == DirnameInit /\ [][DirnameNext]_dirnameVars /\ WF_dirnameVars(DirnameNext)

-----------------------------------------------------------------------------
(* Properties *)

\* Every variable stays in its range; in particular index never passes
\* pathIndex and no write leaves pathName.
DirnameTypeOK ==
  /\ argv \in Seq(Paths)
  /\ dirnamePc \in {"start", "scan", "done"}
  /\ arg \in 1 .. Len(argv) + 1
  /\ dirnamePc = "scan" => arg <= Len(argv)
  /\ index \in 0 .. PATH_MAX - 1
  /\ pathIndex \in 0 .. PATH_MAX - 1
  /\ pathName \in [0 .. PATH_MAX - 1 -> Char \cup {NUL, Junk}]
  /\ directories \in Seq(Seq(Char))

\* k is the 0-based place of the last slash of p, the root slash aside.
LastSlash(p, k) ==
  /\ k \in 1 .. Len(p) - 1
  /\ p[k + 1] = Slash
  /\ \A j \in k + 1 .. Len(p) - 1 : p[j + 1] # Slash

\* r is what lies before the last slash of p, or "." when no slash follows
\* the first character.
IsDirectoryPart(p, r) ==
  \/ \E k \in 1 .. Len(p) - 1 : LastSlash(p, k) /\ r = SubSeq(p, 1, k)
  \/ /\ \A k \in 1 .. Len(p) - 1 : p[k + 1] # Slash
     /\ r = <<Dot>>

\* The lines printed are, argument by argument and in order, the directory
\* parts: the piecewise copy of the scan loop loses nothing, repeats nothing
\* and never prints a byte that was not written.
PrintsDirectoryParts ==
  /\ Len(directories) = arg - 1
  /\ \A n \in 1 .. Len(directories) : IsDirectoryPart(argv[n], directories[n])

\* The inductive invariant: while a path is scanned, pathName holds the part
\* of it before index, index is the last slash seen (0 if there is none, or
\* only the root), and no slash lies between index and the scan.
ScanInvariant ==
  /\ DirnameTypeOK
  /\ PrintsDirectoryParts
  /\ dirnamePc = "start" => arg = 1 /\ index = 0 /\ pathIndex = 0
  /\ dirnamePc = "scan" =>
       LET path == argv[arg]
       IN  /\ pathIndex <= Len(path)
           /\ index = 0 \/ (index < pathIndex /\ path[index + 1] = Slash)
           /\ \A k \in 0 .. index - 1 : pathName[k] = path[k + 1]
           /\ \A j \in 1 .. pathIndex - 1 : path[j + 1] = Slash => j <= index

\* p without its trailing slashes.
Stripped(p) ==
  LET keep == {n \in 1 .. Len(p) : p[n] # Slash}
  IN  IF keep = {} THEN <<>>
      ELSE SubSeq(p, 1, CHOOSE n \in keep : \A m \in keep : m <= n)

\* p without its last run of characters other than slashes.
WithoutLastComponent(p) ==
  LET cut == {n \in 1 .. Len(p) : p[n] = Slash}
  IN  IF cut = {} THEN <<>>
      ELSE SubSeq(p, 1, CHOOSE n \in cut : \A m \in cut : m <= n)

\* The text of the console's own manual page (man_command): each NAME with
\* its last non-slash component and trailing slashes removed; "." if NAME
\* contains no slash; the root is its own directory.
ManPageDirname(p) ==
  LET dir == Stripped(WithoutLastComponent(Stripped(p)))
  IN  IF dir # <<>> THEN dir
      ELSE IF Len(p) > 0 /\ p[1] = Slash THEN <<Slash>> ELSE <<Dot>>

\* A name whose slashes neither end it, start it nor come doubled.
PlainName(p) ==
  \A k \in 1 .. Len(p) :
     p[k] = Slash => k > 1 /\ k < Len(p) /\ p[k - 1] # Slash

\* On plain names the command prints what the manual page says.
PlainNamesFollowManPage ==
  \A n \in 1 .. Len(directories) :
     PlainName(argv[n]) => directories[n] = ManPageDirname(argv[n])

=============================================================================
