# A formal model of OS_Console

OS_Console is a small shell-like program, `src/JulioDominguezArjona.c`: it reads
lines with GNU readline (a copy of version 8.2 is in `src/readline`) and runs
four commands of its own, `ls`, `tac`, `man` and `dirname`. `src/README.md` is
the assignment it answers. `src/universityExamples` holds laboratory programs
(pipes, signals, threads, cp and mv) that are not linked with it.

This directory holds TLA+ modules of the console, of the parts of readline it
runs on and of four laboratory programs, the TLC configurations that check them
on small instances, and proofs that TLAPS checks for every value of the
constants. `PROJECT.json` lists the runs, the mutants each property catches, the
source lines of each definition, the findings, the hazards and the theorems.

    tlc -workers 2 -config Console.cfg MCConsole.tla      # a run
    tlapm ConsoleProofs.tla                               # a proof

Every module follows the same order: constants and assumptions, variables,
helpers, one action per operation, the specification, the properties. A variable
marked "history" exists in the model only, for a property to speak about what
happened before. Bounds stand in guards and are marked "Bound". Definitions
marked "Mutated form" are used by nothing: they are what a plausible bug would
make of the definition after them, and the property that catches each is named
in `PROJECT.json`.

## 1. Inventory

| Component | State | Hard part | What makes it correct | Modules |
|---|---|---|---|---|
| Console loop (`main`, 545-598) | `line_read`, history list, `wordexp_t`, getopt's `optind` | one buffer and one getopt state shared by all commands; results not looked at | each line is answered from its own words; no buffer lost or freed early; only `exit` ends it | `CommandLine`, `Repl`, `Console` |
| `ls`, opening (424-476) | modifiers, operand, directory stream | descriptors run out; failure ends the console | reports a failure and goes on | `Console` |
| `ls`, listing (236-264, 332-415) | stream position and buffer, `entries`, `totalEntries` | the directory changes between two readings; pointers into a buffer that is reused | every entry once, in order, with its own details | `ListDir` |
| `ls -S` (289-324) | `entries`, `entriesSize` | two arrays in step, loop bounds, width of the sizes | largest first, stable, terminates | `SizeSort` |
| `tac`, opening (172-231) | modifiers, operand, `struct stat` | the file changes between the two calls | a file that cannot be read is reported | `Console` |
| `tac`, reversing (143-166) | the stack of calls, getline's buffers | stack limit, growing file, last line without newline | the lines in the opposite order, none lost, every buffer freed once | `Tac` |
| `dirname` (106-141) | `index`, `pathIndex`, `pathName` | piecewise copy between two indices | what lies before the last slash | `Dirname` |
| `man` (478-542) | none | prefixes of names | its pages say what the commands do | `Console`; the claims of its pages where they are modelled |
| readline: editing, undo, history list (`text.c`, `undo.c`, `misc.c`, `history.c`) | the line, its undo list, the saved line, the entries and their undo lists | lists shared by the line and the entries | an edit of an old line is kept while it is in view and taken back when another is accepted; no record freed early | `LineEditor`, `LineEditing` |
| readline: signals and terminal (`signals.c`, `rltty.c`) | caught signal, handlers, terminal modes | a signal at any point, also while one is handled | handled once, the terminal restored | `RlSignals` |
| readline: input, macros (`input.c`, `macro.c`, `readline.c`) | pending key, push-back ring, macro stack, macro being defined | nesting, prefixes put back, timeouts | keys in order; a macro is what was typed | `KeyInput`, `CommandLoop` |
| readline: kill ring (`kill.c`) | ring of ten, index, "last command was a kill" | merging of kills, the ring wraps | a run of kills is yanked back whole | `CommandLoop` |
| readline: searches (`isearch.c`, `search.c`, `histsearch.c`) | the search context, what is remembered between searches | a search may end anywhere, in any line | the line displayed is the one found; no line is lost | `HistorySearch` |
| readline: display (`display.c`) | visible and invisible line, cursor, wrap offsets | what is written is a difference from what is believed to be shown | the screen shows the line, the cursor is at the point | `Display` |
| readline: completion (`complete.c`) | matches, menu, list, settings | failure or a signal between entries; the pager | nothing is decided for the user; every match is listed | `Completion` |
| readline: vi mode (`vi_mode.c`) | mode, marks, remembered change, undo groups | many paths leave insertion and replace mode | the cursor on a character, undo whole, `.` repeats | `ViMode` |
| readline: history expansion (`histexpand.c`) | search and substitution memory | two scans of a line, quoting | an expansion means what its designators say | `HistoryExpansion` |
| readline: key bindings, init file (`bind.c`, `keymaps.c`) | keymaps, variables, conditions | prefixes shadow shorter sequences; nested conditions and files | a binding changes no other; what is dumped can be read back | `KeyBinding`, `InitFile` |
| laboratory programs | processes, pipes, handlers, threads, two files | ends of pipes kept open, a signal before its handler, a file copied on itself | wc counts the file, the verdict is about the answer, no file lost | `Pipeline`, `Quiz`, `Threads`, `MoveFile` |

How they interact: `main` calls readline and keeps the string it returns in the
static `line_read` until the next call; `wordexp` fills a `wordexp_t` on
`main`'s stack, whose `argc` and `argv` the command gets; `ls` and `tac` share
getopt's globals, which `main_executeCommand` resets; `ls_command` hands an open
stream to `ls_execute`, which hands an array of pointers to `ls_sortEntries`.
Inside readline, keys come from `KeyInput`'s sources and are looked up in the
keymaps that `KeyBinding` and `InitFile` build; the commands change the line
through the functions of `LineEditor`, and after each the line is drawn
(`Display`). Signals interrupt all of it and are handled where `RlSignals` says.
The program has one thread. What runs beside it are other programs that change
the file system between two of its system calls, and signals.

## 2. How the modules are composed

    CommandLine <- Repl (abstract)            Console implements Repl
    CommandLine <- Console <- ConsoleProofs   <- MCConsole
    ListDir <- ListDirProofs                  <- MCListDir
    SizeSort, Tac, Dirname, Pipeline, Quiz, Threads, MoveFile <- CommandProofs
        all seven <- MCCommands, one of them in each behaviour
    LineEditor <- LineEditorProofs
    LineEditor <- LineEditing <- MCLineEditing
    LineEditing, LineEditorProofs <- LineEditingProofs
    LineEditor <- HistorySearch <- MCHistorySearch
    HistorySearch, LineEditorProofs <- HistorySearchProofs
    RlSignals                                 <- MCRlSignals
    Completion                                <- MCCompletion
    RlSignals, Completion <- SignalCompletionProofs
    KeyInput <- CommandLoop <- CommandLoopProofs
    CommandLoop                               <- MCCommandLoop
    Display, ViMode                           <- their MC modules
    HistoryExpansion, KeyBinding, InitFile <- MCLibrary

`<-` reads "is extended by". `MCCommands` and `MCLibrary` compose programs that
do not interact: in each behaviour one runs and the others are idle, so that one
run serves several modules.

What is left: proofs about the display and vi mode (section 9 says what stands
in their way); the history file; the callback interface and the region.

## 3. The console loop: `CommandLine`, `Repl`, `Console`

`Console` has one action per step between two system calls or calls of a
library: `pc` says where the program is, `line_read`, `buffers` and `history`
are the state of `readLineAndAddToHistoryIfNeccesary`, `we` is `main`'s
`wordexp_t`, `optind`, `modifiers` and `filename` the state of the option and
operand loops, `openDirs` the descriptors of streams nobody closes, `fileStat`
what `tac` saw in `stat`. `Environment` lets other programs change the file
system before any step. The end of the program is part of the state: `exited`
(the exit command), `failed` (`exit(EXIT_FAILURE)` in `ls_command`), `crashed`.

A line is a record (`CommandLine`): the name it begins with, its words, whether
the expansion accepts it. What a command prints is reduced to the data it is
computed from, since the other modules say what `ls`, `tac` and `dirname`
print. Words begin with a dash or not, and begin with a command's name or not
(the operand loops skip those that do). Options come before operands because
getopt moves them there. A refused line leaves `we` as it was: glibc restores
the structure. When no line was accepted before, `we` is memory that was never
set, and `UnsetWords` lets the command do anything a stray `argc` and `argv`
may make it do: answer, open a directory, fail or crash.

`Repl` is what the console promises. It has no `pc`, no buffer, no getopt: a
line is asked and answered, and the answer is a function of the last accepted
words and of the file system at some moment. The other ends that are modelled
stand in `MayFail`, `MayCrash` and `ListingCrash`: `ls` on something that is no
directory, or without a descriptor left, ends the console; so does a listing, of
a directory that changes meanwhile or, with `-l`, of a file whose owner or group
is in no database (`ListDir` says when); and so does `tac` on a file it cannot
open, or of so many lines that the recursion leaves the stack (`Tac` says how
many). `Console` has neither the entries nor the lines, so that there any listing
and any file may end it. Not among them are words and names too long for the
buffers of `PATH_MAX` characters (section 10). A line with a pipe runs on the
words of an earlier line, which `Repl` states by speaking of the last *accepted*
words. `Console` implements it under
the mapping `Abstract`: `words` is `we`, taken one step early while the line is
being expanded, and `listed` leaves out the directory that is being listed.

`Console.cfg` checks `ConsoleInvariant` (one line buffer, freed only when
replaced, answers level with the lines, the option and operand loops have seen
exactly the words passed), `HistoryMatchesInput` (the history is what was typed
without empty lines) and `ImplementsRepl` (every answer is one Repl gives, and
every line gets its answer or ends the console). Bounds: three lines (one
command before another, and one more, so that state kept from two commands ago
would show) out of eleven, four file systems, one descriptor, so that the second
listing meets the limit.

Fairness: `WF(Execute)`. A command that runs goes on, since nothing in it waits
for another party. `ReadLine` and `EndOfInput` have none (the user need not
type), nor has `Environment`.

## 4. The commands: `ListDir`, `SizeSort`, `Tac`, `Dirname`

`ListDir` models the directory stream as glibc implements it: a buffer that
getdents fills with at most `BatchSize` entries after the position `pos`, and
that the next getdents overwrites. `Count`, `CountEnd` (which rewinds), `Fill`
and `FillEnd` are the loops of the two readings; `entries` holds slots of the
buffer, as the code holds pointers into it, and `index > total` says that
`ls_fillEntries` wrote past the array. A pointer never stored and memory written
past the array have every outcome the build may give them, a crash among them:
the array is allocated and not cleared, so that an element never stored may hold
a pointer of an earlier `ls` into the buffer of a stream that nobody closed, and
print any name, also one printed elsewhere.
`Create` and `Remove` happen between any two calls of `readdir`. A stat that
fails leaves its structure as it was: any details. `Sort` is one step, because
`SizeSort` is about its inside.

`ListDir.cfg` shows what the command can rely on. `ListDirInvariant`: without
creations the array is never overrun, without removals every pointer in it is
set, and only a change or, under `-l`, a file without owner ends the console.
`ListingComplete`: a directory that fits the buffer and does not change is
listed completely, in order, each entry with its own details; with removals
only, the entries that stay are still listed, once, and again at most as often as
elements of the array were left unset. The hypothesis `Fits` is
needed: of a larger directory the second getdents of the second reading
overwrites the names the array points to, so entries are repeated or cut (a
build of the program lists 3000 files as 1978 names). Bounds: four names, one
hidden, two of the same size, a buffer of three, two changes: enough for an
overrun, a stray pointer, and a batch that overwrites another. `Returns` rests
on `WF(Ls)`, the command runs on, and on the number of changes being finite; a
directory that grows faster than it is read may keep `ls` busy forever.

The other three run in `Commands.cfg` (module `MCCommands`), each in behaviours
of its own.

`SizeSort` is the bubble sort, one comparison a step, over an `int` of
`IntMod` values. `key` remembers the size read for each entry. The run takes
four entries and three sizes, which has every pattern of ties, any of them
removed before lstat. `LargestFirst` is about sizes that fit the `int`, which the
run's sizes do; `ls -S` puts a file of 2 GiB last, because `ToInt` makes its size
negative.

`Tac`: a call of `tac_readLineRecursive` that has read its line is a frame of
`stack`; `buffers` holds the buffers getline has allocated. `Grow` lets another
program append a line or end the last one; getline then sees it unless the
stream has met the end, which it remembers. `out` records for each line whether
a newline is printed before it (`-b`) or after. `TacInvariant`,
`LastLineFirst` and `ReadsWholeFile`: the lines read are on the stack or printed
in the opposite order, every buffer is freed once, every line that was there
when the file was opened is read, and only a file with as many lines as the
stack has room for ends the console (`CrashNeedsLongFile`). Files of five lines
on a stack of four calls meet both ends. Files cut shorter while they are read,
and the NUL bytes at which `printf("%s")` stops, are left out. `-s` is accepted
and ignored by the code, and of several files `tac_command` keeps the first
(`NextOperand` in `Console`), whatever its manual page says.

`Dirname` models the scan character by character, as its subject is which bytes
are copied: every list of at most two paths of at most five characters, which
has every arrangement of leading, doubled and trailing slashes.
`ScanInvariant` holds for all of them; `PlainNamesFollowManPage` compares with
the text of the console's manual page on names without such slashes, because on
the others the program does something else (`dirname /a` prints a dot).

## 5. Laboratory programs: `Pipeline`, `Quiz`, `Threads`, `MoveFile`

The four run in `Commands.cfg` as well. Each keeps its state in one record, so
that they compose: `line`, `quiz`, `team`, `mv`.

* `Pipeline` (`lab9_example_pipe.c`): the descriptors of each process, what the
  pipe holds, and any call failing. A child whose exec failed goes on in the
  code of its parent, hence the process `stray`. Three blocks through a pipe of
  one make both programs wait for each other.
* `Quiz` (`lab10_sig3.c`): SIGUSR1 may arrive before its handler is there, and
  interrupts scanf. Such a signal kills the parent and leaves the child behind;
  `QuizEnds` therefore begins once the handler is installed.
* `Threads` (`lab12_pactice02.c`): five threads that end in any order.
* `MoveFile` (`lab3_consoleCommand.c`): the copy may end early at a byte that as
  a `char` is EOF or at an error of getc, or lose bytes to errors of fputc; nobody
  looks at these, nor whether the source could be opened (reading it then crashes,
  after the destination was emptied) or removed; and both names may mean the same
  file. `FileKept`: unless they do, the file is whole under its old name until mv
  is done, whatever fails; after that it is whole under one of the names, unless
  there was such a byte or an error in reading or writing: then mv has removed a
  file of which it kept a part.

`LabResults` joins what each reports: wc counts the whole file when no call
failed, the verdict is about what was typed, each joined status is the thread's
own, mv keeps the file as `FileKept` says. `LabsEnd`: no process of the pipeline waits forever
whatever fails, and the quiz ends. Fairness: each process of the pipeline runs;
the parent of the quiz runs, its child dies when killed, and the user answers;
the child need not send, and need not be stopped from sending, its reminders.

## 6. readline's line: `LineEditor`, `LineEditing`, `HistorySearch`, `Display`

`LineEditor` has the library's state as a record `Editor` (line, point, undo
list, history with the undo list of each entry, saved line, and the undo records
in memory, linked by pointers and freed) and its functions as operators on it.
`LineEditing` makes actions of the commands and remembers the entries as they
were added (`original`) and the text last seen on each line (`view`).

`LineEditing.cfg` checks `UndoInvariant`. `UndoMemory`: a record is in memory
exactly if some list holds it, and the only lists that share records are the
line's and that of its entry. `UndoRestores`: undoing takes every line back to
what it was. `EditsKept`: an edited line is found again as it was left. The last
two hold while no character was merged into a record that an entry shares
(`merged`); `LineEditingMerge.cfg` is violated and shows why: that character is
lost when the user moves on (`misc.c:335`, see "findings"). `NextEntryShown` is
about operate-and-get-next. Bounds: two characters, lines of two, four records in
memory, two entries, records merged up to two characters: enough for a record
shared by line and entry, a group within it and an edit of a second line.

`HistorySearch` adds the incremental, the non-incremental and the prefix search.
The keys of the first are characters, C-s, C-r, DEL, C-w, C-y, C-g, and those that
end it; of the second characters, DEL, C-w, C-u, C-g and return, and searching
again. Bracketed paste, C-v and changing the keymap in between are left out. The
active region is on, as by default. `SearchInvariant`: what is displayed during an
incremental search has the string at the point (`FoundMatches`; not after a
failed search was corrected with DEL, `missed`), typing a string character by
character finds the nearest place (`NearestFound`), the prefix stays in the line
(`PrefixKept`), and neither the typed line nor an entry is lost (`LinesKept`) -
excepted non-incremental searches begun on an entry, which write their string
over it (`used`, `onEntry`), and prefix searches on an edited entry, after which
a list holds freed records and the model stops (`Dangling`). `AbortRestores`:
C-g gives back line and point. Bounds: two searches, so that the second uses
what the first left; histories of two and three lines with a shared prefix;
strings of two characters.

`Display` keeps the terminal (a VT100 with or without wrapping, insertion and
deletion) and what `display.c` believes of it. `RedisplayInvariant`: after a
redisplay the terminal shows prompt and line and nothing else, with the cursor
at the point. `AcceptedLineStays` is about the end of a line. Both have two
exceptions, which `miscounted` remembers, because there the code miscounts the
invisible characters of a prompt:

* a message takes the place of such a prompt, or gives it back, and not both take
  one row on a terminal that clears to the end of a row (`SwitchMiscounts`):
  `update_line` counts cells that were not visible (display.c:2087, 2556), and
  neither screen nor cursor is claimed to be right;
* a line of several rows behind such a prompt is drawn anew, by
  `rl_forced_update_display` (`MadeAnew`): it forgets how many invisible
  characters the first row had, and the cursor is left in a wrong column. The
  screen is right.

All these redisplays happen in the model. Bound: a display that may be wrong is
followed only to the next clear-screen, which is claimed to mend it, or to the
next line (`Followed`). Three columns, three terminals, three prompts, one
message; lines that wrap, fill a row, and hold control characters or newlines.
The prompt begins in the top row of the screen. `DisplayAssumption` bounds prompts
to those whose invisible characters lie in their first row, and messages to none
of them; beyond it the code's own corrections (display.c:2091, 2562) are off.

## 7. readline's keys: `RlSignals`, `KeyInput`, `CommandLoop`, `ViMode`, `Completion`

`RlSignals`: the handler only notes a signal (`caught`); `frames` is the stack of
signals being handled, one inside another, since the functions that clean up and
set up look for signals themselves; `pc` is where readline() is beside that.
`SignalInvariant`: no signal is given to the application more often than it was
sent, a key is waited for only with the terminal and the handlers ready, a signal
older than a key is handled before the key's command. `LoneSignalArrives`: the
only signal sent is never lost (of two, the later may overwrite the earlier,
signals.c:157). `TerminalRestored`: who returns or dies of a signal that was
given on leaves the terminal as it was, unless a signal was handled while the
terminal was being restored (`again`). `CaughtIsTaken`: a noted signal is handled
at some time unless readline waits for a key or has returned. Fairness:
`WF(Handle)` and `WF(Running)`, the process runs; nobody has to type, send or
call. Four kinds of signals, three sent, two lines: a signal in a handler in a
handler.

`KeyInput` has the sources of keys and the search in the keymaps, `CommandLoop`
the commands whose effect depends on what ran before. `InputInOrder`: no key is
lost, doubled or reordered by push-back, macros and prefixes (not when a sequence
put back began in one macro and went on in its caller, `crossed`).
`MacroIsWhatRan`: a keyboard macro holds the keys that ran while it was defined
(while single commands run, `made.exact`: characters inserted in one go are not
recorded, text.c:957-984). `RingInvariant` contains `KillsYankBack`, a run of
kills is yanked back whole, and `YankPopReplaces`; runs that readline takes for
one though a command came between them, or the other way round, are `excused`
(readline.c:700, kill.c:293). `MacrosRunDry`: macros end, also one that calls
itself. Fairness: `ReadingGoesOn`, keys that are there are read; nobody has to
type. Three keymaps (macros; sequences that shadow shorter ones; kills and
yanks), six keys typed of which three may wait, two nested macros, arguments up
to two, a ring of two, which wraps with the third kill.

`ViMode`: a command with its count, motion and character is one step.
`ViInvariant`: the cursor is on a character in movement mode, undoing everything
gives back the line, groups are closed, motions by words follow the words of the
line. `RedoRepeats`: `.` does what typing the change again would do. `YankTakes`:
`y` takes what `d` would. `%` goes to the partner of the bracket at the point, or
of the first one ahead if that opens; a closing one ahead makes it fail
(vi_mode.c:1917). Where the code differs, the property names it: `b`
passes over a word in the second column, `y%` takes one bracket less, groups
undone from within stay unbalanced (`uneven`), insertions longer than a record
are not repeated (`exact`). Six uses, each lines with the motions and the
commands that matter on them; two commands, counts one and two.

`Completion`: the directory is read entry by entry, and a signal or a failure may
come between (`resized` is the `_rl_caught_signal` of a SIGWINCH).
`NothingExcluded`: completion inserts the longest common beginning, keeps the
rest of the line, and ends only a single name. What was possible stays possible,
and nothing else becomes so but `.` and `..`, which the code passes over for an
empty word only: when every name begins with a dot, the dot inserted for the
user makes the two candidates (the third of the trees).
`EveryMatchListed`: every match is listed once and none leaves the screen unseen.
`MenuComesBack`: a menu offers each match in turn and then the word as it was.
A signal that empties the list of matches loses those before it (`cut`). Eight
columns and three rows make the list longer than the screen.

## 8. readline's tables and files: `HistoryExpansion`, `KeyBinding`, `InitFile`

All three run in `Library.cfg`, in behaviours of their own, over the sessions,
scripts and places that `MCLibrary` names.

* `HistoryExpansion`: `ExpansionMeans` compares `history_expand`'s scan with what
  the designators and modifiers of the request say. The exception is `:G`. Its
  comment (histexpand.c:767-769) and the manual (doc/hsuser.texi:529-531) have it
  substitute once in each word; the code does so only when both strings have one
  length and the first word does not begin with the one replaced. Else it goes on
  from where the word ended before it was changed, and in the first word from its
  second character, so that it passes over words or replaces twice in one
  (histexpand.c:771-815). Such requests are in the run (`ByWords`), and of them the
  property claims the memory, the failures and the line up to the first place
  replaced (`Loosely`), no more. `ScansAgree`, that the first
  scan, which only looks whether there is something to expand, and the second
  agree; `WordsKept`, that the words of a line lie in it one after the other.
  Lines that the code reads beyond their end are not requested.
* `KeyBinding`: `BindingsStay`, a key sequence does what it was bound to last,
  whatever longer or shorter ones were bound since, with the two losses its
  comment names.
* `InitFile`: `LinesInEffect`, a line takes effect exactly when the conditions it
  stands under hold, through nested `$if` and `$include` (after an `$if` that was
  not closed, nothing is claimed: the parser keeps its stack between files).
* `ShownReadsBack`: what dump-functions, dump-macros and dump-variables write can
  be read back, the bindings in one order of their lines. The exceptions are in the
  properties: a shadowed binding is shown as character 0 behind its prefix, an
  unlimited history as one of no entries. Of the string variables only those
  modelled are claimed; of the others the colours of the active region are not
  dumped at all and long isearch-terminators are cut short.

## 9. What is proved, and what is only model-checked

Every theorem is about the specification its runs check, for every value of the
constants that the named assumptions allow.

| Module | Theorems | Assumptions |
|---|---|---|
| `ConsoleProofs` | `ConsoleInvariantHolds`, `HistoryMatchesInputHolds`, `ConsoleImplementsRepl` (`Spec => Abstract!SafeSpec`) | `CommandLineAssumption`, `MaxLinesAssumption` |
| `ListDirProofs` | `ListDirInvariantHolds`, `ListingCompleteHolds` | `ListDirAssumption` |
| `CommandProofs` | `SortInvariantHolds`, `SortedBySizeHolds`, `LargestFirstHolds`; `TacInvariantHolds`, `LastLineFirstHolds`, `ReadsWholeFileHolds`; `ScanInvariantHolds`, `DirectoryPartsCorrect`, `PlainNamesFollowManPageHolds`; `LabResultsHolds` | `SortAssumption`, `TacAssumption`, `PathsAssumption`, `PipelineAssumption`, `ThreadsAssumption`, `MoveAssumption` |
| `SignalCompletionProofs` | `SignalInvariantHolds`, `LoneSignalArrivesHolds`, `TerminalRestoredHolds`; `CompletionInvariantHolds`, `MenuComesBackHolds` | `RlSignalsAssumption`; `CompletionAssumption` |
| `CommandLoopProofs` | `RingInvariantHolds`, `MacroIsWhatRanHolds`, `InputInOrderHolds` | `MaxLevelAssumption`, `CommandLoopAssumption`, `KeymapsAssumption` |
| `LineEditorProofs` | the lemmas about undo lists, the saved line and the moves in the history that the next two share | `LineEditorAssumption` |
| `LineEditingProofs` | `UndoInvariantHolds`, `NextEntryShownHolds` | `LineEditorAssumption`, `LineEditingAssumption` |
| `HistorySearchProofs` | `SearchInvariantHolds`, `AbortRestoresHolds` | `LineEditorAssumption`, `HistorySearchAssumption` |

`LargestFirstHolds` has a hypothesis of its own, that every size fits the `int`
(`2 * size < IntMod`); without it the statement is false. `KeymapsAssumption`
says that keymaps map key sequences that are not empty to commands, and that a
sequence bound to digit-argument ends in a digit, which is how the library binds
it. `CompletionAssumption` says of the environment that a directory has finitely
many names, none of them empty or with a slash in it, that no two characters
collate alike, and that case folding makes no other character a `.` or a `/`; and
that the screen has two lines at least. `RlSignals` and `Completion` share no
variable; their proofs share a module, and no proof of the one cites the other's.
No theorem uses a bound on behaviours (`MaxLines`, `MaxChanges`, `MaxTyped`,
`MaxSignals`, `MaxArgs`, `MaxRecords`, ...) beyond its being a number.

The arguments:

* Console. `TypeOK` alone is not inductive: that an answer is computed from the
  right words needs `ScanPart` (the modifiers are those of the words before
  `optind`, the operand is the first usable one), which needs `LoopPart` (which
  command is at which place) and that words come from a line, where options come
  first. `LineBuffer` ties the buffer to the line being handled. One lemma for
  each part, one case for each action. The history grows by the line read if and
  only if the set of lines kept (`Kept`) does, so the k-th entry is the line of
  the k-th number in that set. The refinement maps `ReadLine` to `Ask`, the
  answering actions to the replies, the rest to a stutter; a reply is right
  because `ScanPart`, at the end of the words, is Repl's definition of the
  operand and the options.
* ListDir. Neither invariant is inductive. What is counted is what the stream is
  still to return: the slots of the buffer not yet read and the names behind it
  (`Coming`). In the first reading `total + Coming`, in the second `index +
  Coming` is at least, or at most, what the directory holds, as long as nothing
  was created, or removed (`AtMost`, `AtLeast`); this needs that creating and
  removing a file change `Coming` by at most one. For completeness: a directory
  that fits the buffer is in it whole after the first getdents of the second
  reading (`Whole`), the pointers follow the stream (`Gathered`), and the sort, a
  permutation, keeps them (`PointsToAll`, `PointsInOrder`). The order that
  `Sort` chooses exists by the lemma `Places`: in a finite set that is ordered,
  the number of elements not above an element is a bijection to its positions.
* SizeSort. `PassPart`: after `i` passes the last `i` places are final, and
  within a pass place `j` holds the smallest size met. `Stable` and
  `IsPermutation` say that the swaps lose and reorder nothing they should not,
  `InStep` that the sizes compared are those of the entries swapped.
* Tac. `StackAndOutput` says where each line read is; `ReadsPrefix` and
  `GrowthPart` tie the lines read to the beginning of a file that grows, and the
  end-of-file mark to having read all that was there.
* Dirname. `ScanInvariant`: `pathName` holds the path up to `index`, which is the
  last slash seen, and no slash lies between `index` and the scan. On a plain
  name, what lies before that slash is what the manual page's two strippings
  leave.
* Laboratory programs. One invariant for each, and no step of one touches the
  others. Pipeline: while no call has failed, who holds which end of the pipe is
  a function of where each process is (`Forked`, `Ends`), so that nobody but cat
  holds the writing end when wc runs to its end, and cat lets go of it only when
  everything is written (`Flow`). Quiz: from the end of scanf on, `x` is what was
  typed. Threads: a thread's number is its own from its first step. MoveFile: the
  copy is a prefix of the file, and all of it when the file is removed after no
  error; until then nothing touches the source.
* RlSignals. `Counted`: the application's signals, those being handled before the
  resend and the one noted add up to no more than were sent, and to one if only
  one was sent. A signal noted at the very step that will forget it
  (`Forgetting`) is the delicate case, and is why `LoneSignalArrives` is not
  inductive. `Ready` and `Restoration` say for every frame of the stack, not just
  the innermost, what the terminal will be when control returns to it; `Nested`
  says at which steps frames have others inside; `Fresh`, that a signal older
  than the key is noted until it is handled.
* CommandLoop. `MacroPart`: the macro being defined is what ran followed by the
  keys of the sequence being read, which is why `path` occurs in it.
  `KillRun`: `_rl_last_command_was_kill` is set in a run of kills and, outside
  one, only where the run is excused; in a run the last slot restores the line,
  which for appended and prepended kills is a fact about cutting a text and
  putting parts of it back (`CutOut`, `PutIn`, `KilledForward`,
  `KilledBackward`). `YankPlace` adds to `YankPopReplaces` that the point stands
  right behind what was yanked, without which yank-pop would replace something
  else. One lemma for each branch of `ReadKey`. That the longest shadowed
  sequence exists comes from well-founded induction on the numbers.
* The order of the keys. What is to be read is one text: the pending key, what is
  left of each macro, the keys put back, those typed. The invariant of
  `RingInvariant` gets two conjuncts more. `PendingAlone`: a key is pending only
  when no macro is executed and no sequence begun, so that reading it first
  reorders nothing. `PathInMacro`: the keys of the sequence are the last ones read
  of the innermost macro, so that winding that macro back puts exactly them in
  front again; this fails once a sequence has crossed from one macro into its
  caller, which is the case the property excludes. Then one lemma for what each
  operation makes of that text (`ReadIsNext`, `PutBackStream`, `InsertStream`,
  `EffectFeeds`) and one for each branch of `ReadKey`. `FlattenSeq`, which joins
  the macros, is recursive: its laws (`FlattenMore`, `FlattenTwo`) are proved
  without induction, from the least number of texts for which they could fail.
* Editing and undo. The invariant is `Kept`. `InOrder`: every record in use is on
  the list of the line in view or of exactly one line that is not, an entry in
  view holds a tail of the line's list, and a line being typed is saved exactly
  while an entry is in view. `Tells`, while nothing was merged: each list takes
  the text of its line back to what the line was (`Takes`), undoing the line in
  view comes past the very text its entry holds where the two lists meet
  (`Meets`), and the lines out of view are as last seen (`Shows`).
  `UndoInvariant` is not inductive without `Meets`: `rl_maybe_replace_line`
  compares lists and not texts (`misc.c:336`), so the edits kept are right only
  because a line that holds its entry's list has its entry's text, which an undo
  down to that list must bring about. The folds of `LineEditor`
  (`Reverted`, `DoUndo`, `RevertLine`, `RevertedEntries`) and the recursive
  function `Chain` are first shown to be what they are meant to be for lists of
  any length, by the least number of records for which they could fail. Each
  command is then a chain of changes, a record noted before each
  (`AddUndoChanges`, `TextChanges`), and the texts are compared character by
  character (`InsertionUndone`, `DeletionUndone`, `MergedUndone`). Accepting a
  line reverts its entry or every entry while another list is held for later,
  frees both, and begins the next line (`AcceptedKept`).
* Searching. LineEditing's `InOrder` does not survive a search: the line is
  replaced, the saved line dropped without its list, so that records stay in use
  that no list holds, and a list may be held after it was freed once a search
  began with an entry in view. What remains in every state is `Fine`, a memory in
  which every pointer leads to an end, and each operation is shown to need no
  more. On this rests `Good`, by mode: between two commands, the line typed is in
  view or saved (`TypedHere`), and after a search for the beginning of the line
  the line has it (`Prefixed`); in an incremental search the line and the point
  it began with can be put back (`Before`), which is `AbortRestores`, and what is
  displayed was found (`Searching`). `NearestFound` is not inductive: a place
  passed over for a shorter string must not hold a longer one (`Nearing`,
  `LongerPlaces`), and the loop over the lines, a fold, stops at the first line
  that has the string. `EntriesRestorable` needs `Entries`: as long as no search
  other than an incremental one began with an entry in view, the lists of the
  entries, of the line and of the saved line are apart and nothing of them was
  freed (`Spread`, `Clear`), and each takes its entry back to what was added; with
  an entry in view, nothing else is in use (`Intact`), which is where accepting
  the line can use what LineEditing's invariant says of it.
* Completion. The invariant is `CompletionInductive`. `Commands`: what was read of
  the directory and what is still to be read are together the candidates of the
  word, unless the reading was cut short, and until it ends the line is as it was.
  `Decided` says of the line, in every phase but the reading, what
  `NothingExcluded` says when the command is done, for a list may be shown in
  between. `Offering` says the same of a menu, and that its matches are those of
  the word that stood in the line (`OnWord`). `Listed` says that the numbers
  printed and those in the rows left are all the numbers, each once (`Held`), and
  how far the screen is filled, which is not what `EveryMatchListed` says and is
  needed for it. The common beginning: the largest length to which all agree
  exists, the candidates of that beginning are the candidates of the word and
  perhaps the dots, and one more character loses one of them
  (`BeginningExcludesNone`), with and without case folding, where the beginning
  is taken from a name that begins as it was typed. The sorted matches exist
  because the order is total and they are finitely many; a listing of `n` matches
  in `count` rows is a division with remainder, down the columns or across.
  `insert-completions` joins all matches, and the line is still a line of
  characters (`FlattenIs`).

Only model-checked:

* Liveness (`Returns`, `LabsEnd`, `CaughtIsTaken`, `MacrosRunDry`, the fairness
  of `ImplementsRepl`): out of the prover's reach, as ENABLED is.
* `AllUndone` in `ViInvariant`,
  `RedoRepeats`, and `Shows` in `RedisplayInvariant` and `AcceptedLineStays`: what
  a redo or a refresh computes is an induction over its data (the place of a cell
  is a recursive function of the cells before it), which the library's theorems
  offer only with an operator as parameter.
* `YankTakes` and the rest of `ViInvariant`: not attempted.
* All of `Library.cfg`: the modules declare RECURSIVE operators, which the code's
  own recursion (conditions within conditions, substitution within
  substitution) called for.

## 10. What is not modelled, and why

* The texts of messages and pages, colours, the layout of `ls -l` and `-F`.
* Lengths of names against `PATH_MAX`: words are abstract.
* `utils_openDir`, `utils_getFileSize`, `utils_printArgcArgv` and
  `ls_getFileSize`, which nothing calls.
* Multibyte characters, everywhere in readline.
* Input: the callback interface and timeouts of a whole line, which the console
  does not use. Kill ring: the region, yank-nth-arg, bracketed paste.
* Editing: overwrite mode. History: stifling, removal, time stamps, the history
  file (`histfile.c`, read and written only by the application's calls, none of
  which the console makes), the inhibit function and `history_offset` of history
  expansion.
* Display: horizontal scrolling, the region and faces, tabs, prompts of several
  lines, lines taller than the screen, the capabilities database
  (`terminal.c`). Completion: quoting, tilde, user names, the application's own
  functions, colours. Vi mode: its searches, completion, digit loops, negative
  counts. Key bindings: the names of keys in unquoted bindings. Init file: the
  variables that only switch a display or completion feature.
* Portability and utilities (`xmalloc.c`, `util.c`, `shell.c`, ...): small
  helpers without state of their own. Build files, documentation and examples.
* The laboratory programs that make one or two system calls in a row, and the
  recursive copy of a directory in `lab3_consoleCommand.c`.
* What glibc and the kernel do (getopt, wordexp, readdir, getline, the stack) is
  modelled from how the code uses it and marked external.
