------------------------------- MODULE InitFile -------------------------------
(***************************************************************************)
(* The init file (inputrc; bind.c): its conditions and included files, the *)
(* variables it sets, and the lines that show the variables and can be     *)
(* read back.  What a line binds is only noted: see KeyBinding.            *)
(***************************************************************************)
EXTENDS Integers, FiniteSets, SequencesExt

CONSTANTS
  Surroundings,  \* names of the surroundings readline runs in
  Files(_),      \* the files there, by name, each a sequence of lines
  Inputrc(_),    \* the file that the variable INPUTRC names, or "none"
  Calls(_, _),   \* what the application and its user call as their n-th
  Application,   \* rl_readline_name
  Terminal,      \* the names rl_terminal_name goes by, with and without its suffix
  Version        \* RL_VERSION_MAJOR * 10 + RL_VERSION_MINOR

VARIABLES
  place,     \* its name, and the calls so far
  call,      \* the call under way, and the settings and the parser it began with
  reading,   \* the files being read, innermost last, and the place in each
  parser,    \* _rl_parsing_conditionalized_out and if_stack
  settings,  \* the variables, and the bindings made so far
  last       \* last_readline_init_file

initVars == <<place, call, reading, parser, settings, last>>

-----------------------------------------------------------------------------
(* Variables *)

\* boolean_varlist and string_varlist, as far as they matter, in their order.
Booleans == <<"convert-meta", "enable-active-region", "enable-bracketed-paste", "prefer-visible-bell">>
Strings == <<"bell-style", "editing-mode", "history-size", "keymap", "keyseq-timeout">>
IsBoolean(name) == name \in ToSet(Booleans)
IsVariable(name) == name \in ToSet(Booleans \o Strings)

\* The first name of each builtin keymap.
KeymapName == [name \in {"emacs", "emacs-standard", "emacs-meta", "emacs-ctlx", "vi", "vi-move", "vi-command", "vi-insert"} |->
  CASE name = "emacs-standard" -> "emacs" [] name \in {"vi-move", "vi-command"} -> "vi" [] OTHER -> name]
FromEditMode(s) == [s EXCEPT !.keymap = IF s.mode = "vi" THEN "vi-insert" ELSE "emacs"]

Defaults ==
  [mode |-> "emacs", keymap |-> "emacs", bell |-> "audible", timeout |-> 500,
   size |-> -1,   \* history_max_entries when the history is stifled
   history |-> 3, \* entries in the history
   on |-> [name \in ToSet(Booleans) |-> name # "prefer-visible-bell"], bindings |-> <<>>]

\* A value is a text, and the number atoi makes of it.
Worded(text) == [text |-> text, number |-> 0]
Counted(n) == [text |-> "number", number |-> n]
Given(value) == value.text # ""

\* rl_variable_value
Shows(s, name) ==
  CASE IsBoolean(name) -> Worded(IF s.on[name] THEN "on" ELSE "off")
    [] name = "bell-style" -> Worded(s.bell)
    [] name = "editing-mode" -> Worded(s.mode)
    [] name = "history-size" -> Counted(IF s.size >= 0 THEN s.size ELSE 0)
    [] name = "keymap" -> Worded(s.keymap)
    [] name = "keyseq-timeout" -> Counted(s.timeout)

\* Mutated form: a variable that hangs on another is left alone.
SetAlone(s, name, value) == [s EXCEPT !.on[name] = value.text \in {"", "on", "1"}]
\* rl_variable_bind: hack_special_boolean_var and the sv_ functions.  An unknown
\* name or value is reported and changes nothing.
SetBoolean(s, name, value) ==
  LET on == value.text \in {"", "on", "1"}
      set == [s EXCEPT !.on[name] = on]
  IN  CASE name = "prefer-visible-bell" -> [set EXCEPT !.bell = IF on THEN "visible" ELSE "audible"]
        [] name = "enable-bracketed-paste" -> [set EXCEPT !.on["enable-active-region"] = on]
        [] OTHER -> set
Bells == [v \in {"", "none", "off", "audible", "on", "visible"} |->
            CASE v \in {"none", "off"} -> "none" [] v = "visible" -> "visible" [] OTHER -> "audible"]
AtLeast(n, least) == IF n < least THEN least ELSE n
AtMost(n, most) == IF n > most THEN most ELSE n
SetString(s, name, value) ==
  CASE name = "bell-style" /\ value.text \in DOMAIN Bells -> [s EXCEPT !.bell = Bells[value.text]]
    [] name = "editing-mode" /\ value.text \in {"vi", "emacs"} -> FromEditMode([s EXCEPT !.mode = value.text])
    [] name = "keymap" /\ value.text \in DOMAIN KeymapName -> [s EXCEPT !.keymap = KeymapName[value.text]]
    [] name = "keyseq-timeout" -> [s EXCEPT !.timeout = IF Given(value) THEN AtLeast(value.number, 0) ELSE 0]
    [] name = "history-size" /\ Given(value) /\ value.number < 0 -> [s EXCEPT !.size = -1]
    [] name = "history-size" /\ ~(Given(value) /\ value.number < 0) ->
         LET max == IF Given(value) THEN value.number ELSE 500
         IN  [s EXCEPT !.size = max, !.history = AtMost(@, max)]
    [] OTHER -> s
SetVariable(s, name, value) == IF IsBoolean(name) THEN SetBoolean(s, name, value) ELSE SetString(s, name, value)

\* What a line does that is no directive (rl_parse_and_bind).
Done(s, line) ==
  IF line.kind = "set" THEN SetVariable(s, line.name, line.value)
  ELSE [s EXCEPT !.bindings = Append(@, <<s.keymap, line.name>>)]

\* rl_variable_dumper
DumpedVariables(s) ==
  [i \in DOMAIN (Booleans \o Strings) |->
     LET name == (Booleans \o Strings)[i] IN [kind |-> "set", name |-> name, value |-> Shows(s, name)]]

-----------------------------------------------------------------------------
(* Conditions *)

\* The test of an $if; a comparison that cannot be read fails.
Compares(op, a, b) ==
  CASE op = "==" -> a = b [] op = "!=" -> a # b [] op = "<" -> a < b [] op = ">" -> a > b
    [] op = "<=" -> a <= b [] op = ">=" -> a >= b [] OTHER -> FALSE
Holds(s, test) ==
  CASE test.on = "term" -> test.word \in Terminal
    [] test.on = "mode" -> test.word = s.mode
    [] test.on = "version" -> Compares(test.op, Version, test.number)
    [] test.on = "word" /\ test.word = Application -> TRUE
    [] test.on = "word" /\ test.word # Application /\ IsVariable(test.word) ->
         /\ test.op \in {"==", "!="} /\ Given(test.value)
         /\ Compares(test.op, Shows(s, test.word), test.value)
    [] OTHER -> FALSE

\* Mutated form: an outer condition that fails is not looked at.
ElseAlone(p) == IF p.stack = <<>> THEN p ELSE [p EXCEPT !.out = ~@]
If(p, s, test) == [out |-> p.out \/ ~Holds(s, test), stack |-> Append(p.stack, p.out)]
Else(p) == IF p.stack = <<>> \/ \E i \in DOMAIN p.stack : p.stack[i] THEN p ELSE [p EXCEPT !.out = ~@]
EndIf(p) == IF p.stack = <<>> THEN p ELSE [out |-> Last(p.stack), stack |-> Front(p.stack)]

-----------------------------------------------------------------------------
(* Calls, and the files they read *)

FilesHere == Files(place.name)
BeginAt(name) ==
  /\ place = [name |-> name, calls |-> 0]
  /\ call = [op |-> "none", file |-> "none", line |-> [kind |-> "bind", name |-> "none"], began |-> Defaults,
             parser |-> [out |-> FALSE, stack |-> <<>>]]
  /\ reading = <<>>
  /\ parser = [out |-> FALSE, stack |-> <<>>]
  /\ settings = Defaults
  /\ last = "none"
Begin == \E name \in Surroundings : BeginAt(name)

Called(op) ==
  /\ call.op \in {"none", "ended"}
  /\ \E c \in Calls(place.name, place.calls + 1) :
       c.op = op /\ call' = [op |-> op, file |-> c.file, line |-> c.line, began |-> settings, parser |-> parser]
  /\ place' = [place EXCEPT !.calls = @ + 1]

\* rl_read_init_file: the file that is read, if there is one.
Candidates(file) ==
  IF file # "none" THEN <<file>> ELSE IF last # "none" THEN <<last>>
  ELSE IF Inputrc(place.name) # "none" THEN <<Inputrc(place.name)>> ELSE <<"~/.inputrc", "/etc/inputrc">>
Existing == SelectSeq(Candidates(call'.file), LAMBDA file : file \in DOMAIN FilesHere)
Open ==
  /\ reading' = IF Existing = <<>> THEN <<>> ELSE <<[file |-> Head(Existing), at |-> 1]>>
  /\ last' = IF Existing = <<>> THEN last ELSE Head(Existing)

\* The first rl_initialize, rl_re_read_init_file, and rl_read_init_file.
Initialize == place.calls = 0 /\ Called("initialize") /\ Open /\ UNCHANGED <<parser, settings>>
ReRead == Called("reread") /\ Open /\ UNCHANGED <<parser, settings>>
ReadFile == Called("read") /\ Open /\ UNCHANGED <<parser, settings>>
\* rl_initialize for a later line.
NextLineRead ==
  /\ Called("line") /\ parser' = [parser EXCEPT !.out = FALSE]
  /\ UNCHANGED <<reading, settings, last>>
\* rl_parse_and_bind, called by the application.
Parse ==
  /\ Called("parse") /\ settings' = IF parser.out THEN settings ELSE Done(settings, call'.line)
  /\ UNCHANGED <<reading, parser, last>>

Innermost == reading[Len(reading)]
ThisLine == FilesHere[Innermost.file][Innermost.at]
AtLine(kinds) ==
  /\ call.op # "ended" /\ reading # <<>> /\ Innermost.at <= Len(FilesHere[Innermost.file])
  /\ ThisLine.kind \in kinds
OnToNext == [reading EXCEPT ![Len(reading)].at = @ + 1]

ParserIf ==
  /\ AtLine({"if"}) /\ parser' = If(parser, settings, ThisLine.test) /\ reading' = OnToNext
  /\ UNCHANGED <<place, call, settings, last>>
ParserElse ==
  /\ AtLine({"else"}) /\ parser' = Else(parser) /\ reading' = OnToNext
  /\ UNCHANGED <<place, call, settings, last>>
ParserEndIf ==
  /\ AtLine({"endif"}) /\ parser' = EndIf(parser) /\ reading' = OnToNext
  /\ UNCHANGED <<place, call, settings, last>>
Include ==   \* parser_include
  /\ AtLine({"include"})
  /\ reading' = IF parser.out \/ ThisLine.name \notin DOMAIN FilesHere THEN OnToNext
                ELSE Append(OnToNext, [file |-> ThisLine.name, at |-> 1])
  /\ UNCHANGED <<place, call, parser, settings, last>>
SetOrBind ==
  /\ AtLine({"set", "bind"})
  /\ settings' = IF parser.out THEN settings ELSE Done(settings, ThisLine)
  /\ reading' = OnToNext
  /\ UNCHANGED <<place, call, parser, last>>
EndOfFile ==
  /\ reading # <<>> /\ Innermost.at > Len(FilesHere[Innermost.file])
  /\ reading' = Front(reading)
  /\ UNCHANGED <<place, call, parser, settings, last>>
Return ==
  /\ call.op \notin {"none", "ended"} /\ reading = <<>>
  /\ settings' = IF call.op \in {"initialize", "reread"} THEN FromEditMode(settings) ELSE settings
  /\ parser' = IF call.op = "initialize" THEN [parser EXCEPT !.out = FALSE] ELSE parser
  /\ call' = [call EXCEPT !.op = "ended"]
  /\ UNCHANGED <<place, reading, last>>

NextInit ==
  \/ Initialize \/ ReRead \/ ReadFile \/ NextLineRead \/ Parse
  \/ ParserIf \/ ParserElse \/ ParserEndIf \/ Include \/ SetOrBind \/ EndOfFile \/ Return

-----------------------------------------------------------------------------
(* Properties *)

\* The lines of a file with those of the files it includes.
RECURSIVE Whole(_)
Whole(name) ==
  FlattenSeq([i \in DOMAIN FilesHere[name] |->
    LET line == FilesHere[name][i]
    IN  IF line.kind # "include" THEN <<line>>
        ELSE IF line.name \in DOMAIN FilesHere THEN Whole(line.name) ELSE <<>>])
Depth(lines, k) ==
  FoldLeft(LAMBDA n, line : n + IF line.kind = "if" THEN 1 ELSE IF line.kind = "endif" THEN -1 ELSE 0,
           0, SubSeq(lines, 1, k))
\* The $if, before k, whose conditions k stands under; and the $else of one.
Opened(lines, k) ==
  {i \in 1 .. k - 1 : lines[i].kind = "if" /\ \A j \in i .. k - 1 : Depth(lines, j) >= Depth(lines, i)}
ElsesOf(lines, i, k) ==
  {j \in i + 1 .. k - 1 : lines[j].kind = "else" /\ Depth(lines, j) = Depth(lines, i)
                          /\ i \in Opened(lines, j)}
WellFormed(lines) ==
  /\ Depth(lines, Len(lines)) = 0
  /\ \A k \in DOMAIN lines :
       /\ Depth(lines, k) >= 0
       /\ lines[k].kind = "else" => Opened(lines, k) # {}
       /\ \A i \in Opened(lines, k) : Cardinality(ElsesOf(lines, i, k + 1)) <= 1

RECURSIVE Sound(_)
Sound(name) ==
  name \in DOMAIN FilesHere =>
    /\ WellFormed(FilesHere[name])
    /\ \A k \in DOMAIN FilesHere[name] :
         FilesHere[name][k].kind = "include" => Sound(FilesHere[name][k].name)

\* What the lines make of settings: a line counts when each condition it stands
\* under held, where its $if stood, or did not and the line is behind the $else.
RECURSIVE Meant(_, _, _)
Meant(s, lines, k) ==
  IF k = 0 THEN s
  ELSE LET counts == \A i \in Opened(lines, k) :
                       Holds(Meant(s, lines, i - 1), lines[i].test) <=> ElsesOf(lines, i, k) = {}
       IN  IF lines[k].kind \in {"set", "bind"} /\ counts
           THEN Done(Meant(s, lines, k - 1), lines[k]) ELSE Meant(s, lines, k - 1)

\* A file that is read has done what its lines say when their conditions held,
\* however $if, $else, $endif and $include lie in each other and whatever the
\* lines before changed that the conditions are about; and what the application
\* binds itself is never taken for a part of a file.  An $if that was not closed
\* when an earlier file ended can spoil both.
Unspoilt(p) == ~p.out /\ \A i \in DOMAIN p.stack : ~p.stack[i]
Read == IF call.op \notin {"initialize", "reread", "read"} THEN "none"
        ELSE IF call.file # "none" THEN call.file ELSE last
LinesInEffect ==
  [][call'.op = "ended" /\ call.op # "ended" /\ Unspoilt(call.parser) /\ Sound(Read) =>
       LET lines == IF Read \in DOMAIN FilesHere THEN Whole(Read)
                    ELSE IF call.op = "parse" THEN <<call.line>> ELSE <<>>
           meant == Meant(call.began, lines, Len(lines))
       IN  settings' = IF call.op \in {"initialize", "reread"} THEN FromEditMode(meant) ELSE meant]_initVars

\* The lines that show the variables can be read back and give the same values
\* (dump-variables with an argument), for the variables modelled here.  Of those
\* that hold a string, the colours of the active region, which are not shown at
\* all, and the characters that end a search, which are cut short, are not among
\* them.  Two of those modelled are shown so that they do not come back:
\* enable-active-region, which the line of enable-bracketed-paste behind it sets
\* again, and a history without a limit, which is shown as one of no entries.
VariablesReadBack ==
  LET unlimited == settings.size = -1
      back == FoldLeft(Done, [Defaults EXCEPT !.history = settings.history], DumpedVariables(settings))
  IN  back = [settings EXCEPT !.bindings = <<>>,
                !.on["enable-active-region"] = settings.on["enable-bracketed-paste"],
                !.size = IF unlimited THEN 0 ELSE @, !.history = IF unlimited THEN 0 ELSE @]

=============================================================================
