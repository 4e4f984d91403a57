----------------------------- MODULE MCLibrary ------------------------------
(***************************************************************************)
(* Three parts of the library for TLC, each in behaviours of its own in    *)
(* which the others are idle: sessions of one to three lines with history  *)
(* expansion, scripts that bind keys, and places with init files.          *)
(***************************************************************************)
EXTENDS HistoryExpansion, KeyBinding, InitFile, TLC

-----------------------------------------------------------------------------
(* History expansion *)

C(string) == [i \in 1 .. Len(string) |-> SubSeq(string, i, i)]
MCDigit == [c \in {"0", "1", "2", "3"} |-> CASE c = "0" -> 0 [] c = "1" -> 1 [] c = "2" -> 2 [] c = "3" -> 3]

Text(string) == [kind |-> "text", chars |-> C(string)]
Raw(chars) == <<[kind |-> "raw", chars |-> chars]>>
Ask(event, word, mods) == [kind |-> "expansion", event |-> event, word |-> word, mods |-> mods]
Event(kind, n, string) == [kind |-> kind, n |-> n, string |-> C(string)]
Word(kind, n, to) == [kind |-> kind, n |-> n, to |-> to]
Previous == Event("previous", 0, "")
AllOfThem == Word("whole", 0, 0)
Mod(kind) == [kind |-> kind]
Subst(flag, lhs, rhs) == [kind |-> "substitute", flag |-> C(flag), lhs |-> C(lhs), rhs |-> rhs]
Again(flag) == [kind |-> "again", flag |-> C(flag)]
One(x) == <<Text("a "), x, Text(" b")>>

Events == {Event("number", n, "") : n \in 0 .. 3} \cup {Event("back", n, "") : n \in 0 .. 3}
  \cup {Event("prefix", 0, s) : s \in {"a", "b", "c", "a/b"}}
  \cup {Event("inside", 0, s) : s \in {"", "b", "b c", ";", " ", "z"}} \cup {Previous}
SomeWords == {AllOfThem} \cup {Word(k, 0, 0) : k \in {"first", "last", "match", "all"}}
  \cup {Word(k, n, 0) : k \in {"nth", "from", "but last"}, n \in 0 .. 3}
  \cup {Word("range", n, to) : n \in 0 .. 2, to \in 0 .. 3}
Plain == {Mod(k) : k \in {"h", "t", "r", "e", "p"}}
Substs == {Subst(f, l, r) : f \in {"", "g"}, l \in {"", "b", "bb", "/", "z"},
             r \in {<<>>, C("a"), C("/"), C("&"), <<LhsMark, LhsMark>>, C("bb")}}
  \cup {Again(""), Again("g")}
\* :G, once in each word: replaced by as much, by more and by less, in lines whose
\* first word begins with what is replaced and in lines whose does not.
ByWords == {One(Ask(e, w, <<m>>)) :
              e \in {Previous, Event("back", 2, ""), Event("number", 1, "")}, w \in {AllOfThem, Word("last", 0, 0)},
              m \in {Subst("G", l, r) : l \in {"a", "b", "c", ".b", "bb", "/"}, r \in {<<>>, C("c"), C("/a"), <<LhsMark, LhsMark>>}}
                    \cup {Again("G")}}

FirstLines == <<C("c"), C("a/b.c b/bb.b"), C("a \"b c\";a.b bb")>>
Second == {<<Ask(Previous, Word("match", 0, 0), <<>>)>>, <<Ask(Previous, AllOfThem, <<Again("")>>)>>, <<Ask(Previous, AllOfThem, <<>>)>>,
           <<Ask(Previous, Word("last", 0, 0), <<Subst("", "", C("x")), Mod("h")>>)>>}

Bang == Ask(Previous, AllOfThem, <<>>)
Hidden(kind, x) == [x EXCEPT !.kind = kind]
Quoting ==
  {<<Text(q), x, Text(q), Text(t), y>> : q \in {"\"", "\" ", " "}, x \in {Bang, Hidden("escaped", Bang), Hidden("single", Bang)},
     t \in {"", "\" ", "! ", "!="}, y \in {Hidden("single", Bang), Ask(Event("so far", 0, ""), AllOfThem, <<>>)}}

StringsOf(chars, n) == UNION {[1 .. k -> chars] : k \in 0 .. n}
Even(s, c) == Cardinality({i \in DOMAIN s : s[i] = c}) % 2 = 0
Scanned == {s \in StringsOf({"!", "\\", "'", "\"", "a", " ", "#"}, 5) : Even(s, "'")}
Split2 == {s \in StringsOf({"a", "1", "<", ">", "&", "(", ")", "\"", " "}, 4) : s = <<>> \/ s[1] # " "}

MCSessions == ({"words", "modifiers", "quick"} \X {FALSE}) \cup ({"quotes", "scans"} \X BOOLEAN) \cup {<<"split", FALSE>>}
MCHistories(name) == IF name = "split" THEN {<<s>> : s \in Split2} ELSE {FirstLines}
MCRequests(name, n) ==
  CASE n = 2 /\ name \in {"words", "modifiers", "quick"} -> Second
    [] n = 1 /\ name = "words" -> {One(Ask(e, w, <<>>)) : e \in Events, w \in SomeWords}
    [] n = 1 /\ name = "modifiers" ->
         {One(Ask(e, w, <<m>>)) : e \in {Previous, Event("back", 2, ""), Event("inside", 0, "b")},
                                  w \in {AllOfThem, Word("last", 0, 0)}, m \in Plain \cup Substs} \cup ByWords
    [] n = 1 /\ name = "quick" ->
         {<<Ask(Event("quick", 0, ""), AllOfThem, <<m>>), Text(" c")>> :
            m \in {s \in Substs : s.kind = "substitute" /\ s.flag = <<>>}}
    [] n = 1 /\ name = "quotes" -> Quoting
    [] n = 1 /\ name = "scans" -> {Raw(s) : s \in Scanned}
    [] OTHER -> {}

-----------------------------------------------------------------------------
(* Key bindings *)

\* The codes of the printing characters.
Low == " !\"#$%&'()*+,-./0123456789:;<=>?@ABCDEFGHIJKLMNOPQRSTUVWXYZ[\\]^_"
High == "abcdefghijklmnopqrstuvwxyz{|}~"
CodesFrom(string, first) ==
  [c \in {SubSeq(string, i, i) : i \in 1 .. Len(string)} |->
     first + CHOOSE i \in 0 .. Len(string) - 1 : SubSeq(string, i + 1, i + 1) = c]
Code == CodesFrom(Low, 32) @@ CodesFrom(High, 97)
K(string) == [i \in 1 .. Len(string) |-> Code[SubSeq(string, i, i)]]

F == Function("f")
G == Function("g")
Req(op, in, keys, data) == [op |-> op, in |-> in, keys |-> keys, data |-> data]
Sequences(op, texts, all) == {Req(op, <<>>, K(text), data) : text \in texts, data \in all}

MCScripts == {"keys", "names", "few", "meta"}
MCConverts(name) == BOOLEAN
Standard == [maps |-> {<<>>, <<Esc>>}, bound |-> <<97>> :> F @@ <<65>> :> Lowercase @@ <<Esc, 98>> :> G]
MCKeymaps(name) == IF name \in {"keys", "names"} THEN {Bare} ELSE {Standard}
NameChars == {Backslash, 67, 77, Minus, 101, 49, 56, 120, Quote}
Few == {"a", "A", "ab", "abc", "Ab"}
Meta == {"\\eb", "\\M-b", "\\ebc", "\\e", "\\e\\eb"}
MCBinds(name, n) ==
  CASE name = "keys" /\ n = 1 -> {Req(op, <<>>, <<c>>, F) : op \in {"key", "key if unbound"}, c \in 0 .. 255}
    [] name = "names" /\ n = 1 ->
         {Req("sequence", <<>>, s, F) : s \in UNION {[1 .. k -> NameChars] : k \in 1 .. 4}}
         \cup {Req("macro", <<>>, K("x"), Macro(<<c>>)) : c \in 1 .. 255}
         \cup {Req("macro", <<>>, K("x"), Macro(K(text))) : text \in {"a\\000b", "\\M-\\C-", "\\"}}
    [] name = "few" /\ n <= 4 ->
         Sequences("sequence", Few, {G, Null}) \cup Sequences("if unbound", Few, {G})
         \cup Sequences("macro", {"a", "ab"}, {Macro(K("a\\C-x"))})
         \cup Sequences("key", {"a"}, {G, Null}) \cup {Req("unbind", <<>>, <<>>, f) : f \in {F, G}}
    [] name = "meta" /\ n <= 3 ->
         Sequences("sequence", Meta, {F, Null}) \cup Sequences("if unbound", Meta, {F})
         \cup {Req("sequence", <<>>, <<226>>, f) : f \in {F, Null}}
         \cup Sequences("macro", {"\\e\\eb"}, {Macro(K("a"))})
         \cup {Req("unbind", in, <<>>, f) : f \in {F, G}, in \in {<<>>, <<Esc>>}}
         \cup {Req("key", in, <<c>>, f) : in \in {<<>>, <<Esc>>}, c \in {98, 226, Esc}, f \in {G, Null}}
         \cup {Req("key if unbound", in, <<c>>, F) : in \in {<<>>, <<Esc>>}, c \in {98, 226}}
    [] OTHER -> {}

-----------------------------------------------------------------------------
(* Init files *)

InMode(mode) == [on |-> "mode", word |-> mode]
InWord(word) == [on |-> "word", word |-> word, op |-> "none", value |-> Worded("")]
IfLine(test) == [kind |-> "if", test |-> test]
Directive(kind) == [kind |-> kind]
SetLine(name, value) == [kind |-> "set", name |-> name, value |-> value]
ElseLine == Directive("else")
EndIfLine == Directive("endif")
BindLine == [kind |-> "bind", name |-> "f"]
FileLines == {IfLine(InMode("vi")), ElseLine, EndIfLine, BindLine, SetLine("editing-mode", Worded("vi")),
              [kind |-> "include", name |-> "included"]}
Short == UNION {[1 .. n -> FileLines] : n \in 0 .. 4}
         \cup {<<IfLine(InMode("vi"))>> \o lines : lines \in [1 .. 4 -> FileLines]}
Tests ==
  {[on |-> "term", word |-> word] : word \in {"xterm", "xterm-256color", "vt100"}}
  \cup {InWord(word) : word \in {"app", "other", "convert-meta"}} \cup {InMode("emacs")}
  \cup {[on |-> "version", op |-> op, number |-> n] : op \in {"==", "!=", "<", ">", "<=", ">=", "none"}, n \in 81 .. 83}
  \cup {[on |-> "word", word |-> word, op |-> op, value |-> Worded(value)] :
          word \in {"convert-meta", "keymap", "editing-mode"}, op \in {"==", "!=", "<"},
          value \in {"on", "off", "", "vi", "emacs", "vi-command"}}
Nested(value, map, test) ==
  <<SetLine("convert-meta", Worded(value)), SetLine("keymap", Worded(map)),
    IfLine(test), BindLine, IfLine(InMode("vi")), BindLine, ElseLine, BindLine, EndIfLine,
    ElseLine, IfLine(InMode("vi")), ElseLine, BindLine, EndIfLine, BindLine, EndIfLine, BindLine>>
Long == {Nested(value, map, test) : value \in {"on", "off"}, map \in {"vi", "vi-command"}, test \in Tests}
Included == <<IfLine(InMode("vi")), BindLine, ElseLine, SetLine("keymap", Worded("vi-command")), EndIfLine, BindLine>>

Where(kind, lines) == [kind |-> kind, lines |-> lines]
MCSurroundings == {Where("files", lines) : lines \in Short \cup Long}
                  \cup {Where(kind, <<BindLine>>) : kind \in {"variables", "named", "system"}}
MCFiles(name) == (IF name.kind = "system" THEN "/etc/inputrc" ELSE "~/.inputrc") :> name.lines @@ "included" :> Included
MCInputrc(name) == IF name.kind = "named" THEN "included" ELSE "none"

Call(op) == [op |-> op, file |-> "none", line |-> BindLine]
ReadCall(file) == [Call("read") EXCEPT !.file = file]
ParseCall(line) == [Call("parse") EXCEPT !.line = line]
SetLines ==
  {SetLine(name, Worded(value)) : name \in ToSet(Booleans), value \in {"", "1", "off"}}
  \cup {SetLine("bell-style", Worded(value)) : value \in {"", "none", "visible", "?"}}
  \cup {SetLine("editing-mode", Worded(value)) : value \in {"vi", "emacs", "?"}}
  \cup {SetLine("keymap", Worded(value)) : value \in {"vi-move", "emacs-meta", "?"}}
  \cup {SetLine(name, value) : name \in {"history-size", "keyseq-timeout"},
                               value \in {Worded(""), Counted(-1), Counted(0), Counted(2)}}
MCCalls(name, n) ==
  CASE n = 1 /\ name.kind # "none" -> {Call("initialize")}
    [] name.kind = "files" /\ n = 2 -> {Call("reread")} \cup IF Len(name.lines) > 4 THEN {} ELSE {Call("line")}
    [] name.kind = "files" /\ n = 3 /\ Len(name.lines) <= 4 -> {Call("parse"), Call("reread"), ReadCall("included")}
    [] name.kind = "variables" /\ n <= 3 -> {ParseCall(line) : line \in SetLines}
    [] name.kind \in {"named", "system"} /\ n <= 4 ->
         {ReadCall(file) : file \in {"~/.inputrc", "included", "missing"}} \cup {Call("reread"), Call("line")}
    [] OTHER -> {}

-----------------------------------------------------------------------------
(* One part at a time *)

ExpansionIdle ==
  /\ session = [name |-> "none", inhibit |-> FALSE, typed |-> 0]
  /\ history = <<>>
  /\ memory = [search |-> <<>>, match |-> <<>>, lhs |-> <<>>, rhs |-> <<>>]
  /\ answer = [request |-> <<>>, result |-> Result(0, <<>>, memory, "none")]
BindingIdle == script = [name |-> "none", convert |-> FALSE, steps |-> 0] /\ keymap = Bare /\ asked = NotAsked
FilesIdle == BeginAt(Where("none", <<>>))

LibraryInit ==
  \/ ExpandInit /\ BindingIdle /\ FilesIdle
  \/ ExpansionIdle /\ StartBinding /\ FilesIdle
  \/ ExpansionIdle /\ BindingIdle /\ Begin

NotExpanding == UNCHANGED expandVars
NotBinding == UNCHANGED bindVars
NoFiles == UNCHANGED initVars
LibraryNext ==
  \/ ExpandNext /\ NotBinding /\ NoFiles
  \/ Bind /\ NotExpanding /\ NoFiles
  \/ BindSequence /\ NotExpanding /\ NoFiles
  \/ BindMacro /\ NotExpanding /\ NoFiles
  \/ BindUnbound /\ NotExpanding /\ NoFiles
  \/ BindKeyUnbound /\ NotExpanding /\ NoFiles
  \/ Unbind /\ NotExpanding /\ NoFiles
  \/ Initialize /\ NotExpanding /\ NotBinding
  \/ ReRead /\ NotExpanding /\ NotBinding
  \/ ReadFile /\ NotExpanding /\ NotBinding
  \/ NextLineRead /\ NotExpanding /\ NotBinding
  \/ Parse /\ NotExpanding /\ NotBinding
  \/ ParserIf /\ NotExpanding /\ NotBinding
  \/ ParserElse /\ NotExpanding /\ NotBinding
  \/ ParserEndIf /\ NotExpanding /\ NotBinding
  \/ Include /\ NotExpanding /\ NotBinding
  \/ SetOrBind /\ NotExpanding /\ NotBinding
  \/ EndOfFile /\ NotExpanding /\ NotBinding
  \/ Return /\ NotExpanding /\ NotBinding
LibrarySpec == LibraryInit /\ [][LibraryNext]_<<expandVars, bindVars, initVars>>

-----------------------------------------------------------------------------
\* What is shown to be read back, bindings or variables, can be read back.
ShownReadsBack == DumpsReadBack /\ VariablesReadBack

=============================================================================
