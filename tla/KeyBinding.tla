------------------------------ MODULE KeyBinding ------------------------------
(***************************************************************************)
(* Binding of key sequences to functions and macros (bind.c, keymaps.c),   *)
(* and the lines that show the bindings and can be read back.              *)
(*                                                                         *)
(* A keymap and the keymaps it leads to are a set of paths, the sequences  *)
(* of keys that lead to a keymap, and the function or macro at the end of  *)
(* each other path.  What a longer sequence shadows is at the key AnyOther of   *)
(* its keymap.  Keys and the characters of key sequences are numbers.      *)
(***************************************************************************)
EXTENDS Integers, SequencesExt

CONSTANTS
  Scripts,       \* names of what an application and its user bind
  Converts(_),   \* _rl_convert_meta_chars_to_ascii in each
  Keymaps(_),    \* the keymaps it may begin with
  Binds(_, _)    \* what its n-th step may bind: see Request

VARIABLES
  script,  \* its name, convert-meta, and the steps so far
  keymap,  \* the current keymap and those below it
  asked    \* the last request

bindVars == <<script, keymap, asked>>

-----------------------------------------------------------------------------
(* Characters and their names *)

Esc == 27
Rubout == 127
AnyOther == 256                             \* ANYOTHERKEY
Quote == 34
Backslash == 92
Minus == 45
Query == 63
Chr(s, i) == IF i \in DOMAIN s THEN s[i] ELSE 0
IsControl(c) == c < 32                 \* CTRL_CHAR
IsMeta(c) == c > 127 /\ c < 256        \* META_CHAR
UnMeta(c) == c % 128
Upper(c) == IF c \in 97 .. 122 THEN c - 32 ELSE c
Lower(c) == IF c \in 65 .. 90 THEN c + 32 ELSE c
Octal == 48 .. 55
Hex == [c \in (48 .. 57) \cup (65 .. 70) \cup (97 .. 102) |->
          IF c <= 57 THEN c - 48 ELSE IF c <= 70 THEN c - 55 ELSE c - 87]
Escapes == [c \in {97, 98, 100, 101, 102, 110, 114, 116, 118} |->   \* abdefnrtv
  CASE c = 97 -> 7 [] c = 98 -> 8 [] c = 100 -> Rubout [] c = 101 -> Esc [] c = 102 -> 12
    [] c = 110 -> 10 [] c = 114 -> 13 [] c = 116 -> 9 [] c = 118 -> 11]

\* The character at i behind a backslash, and where it ends.
Digits(s, i, most, digit) ==
  CHOOSE n \in 0 .. most :
    (\A k \in 0 .. n - 1 : Chr(s, i + k) \in digit) /\ (n = most \/ Chr(s, i + n) \notin digit)
Value(s, i, n, base) == FoldLeft(LAMBDA v, c : base * v + Hex[c], 0, SubSeq(s, i, i + n - 1)) % 256
AfterBackslash(s, i) ==
  LET c == Chr(s, i)
      octal == Digits(s, i, 3, Octal)
      hex == Digits(s, i + 1, 2, DOMAIN Hex)
  IN  CASE c \in DOMAIN Escapes -> [c |-> Escapes[c], to |-> i + 1]
        [] c \in Octal -> [c |-> Value(s, i, octal, 8), to |-> i + octal]
        [] c = 120 /\ hex > 0 -> [c |-> Value(s, i + 1, hex, 16), to |-> i + 1 + hex]
        [] OTHER -> [c |-> c, to |-> i + 1]

\* rl_translate_keyseq: from the text of a key sequence to its keys.  A prefix
\* \C- or \M- with nothing behind it is one of the character 0.
WithModifiers(c, control, meta) ==
  LET d == IF ~control THEN c ELSE IF c = Query THEN Rubout ELSE Upper(c) % 32
  IN  IF meta THEN 128 + (d % 128) ELSE d
Emitted(c, convert) == IF IsMeta(c) /\ convert THEN <<Esc, UnMeta(c)>> ELSE <<c>>
RECURSIVE TranslateFrom(_, _, _, _, _)
TranslateFrom(s, i, control, meta, convert) ==
  LET escaped == Chr(s, i) = Backslash /\ Chr(s, i + 1) # 0
      prefix(c) == escaped /\ Chr(s, i + 1) = c /\ Chr(s, i + 2) = Minus
      x == IF escaped THEN AfterBackslash(s, i + 1) ELSE [c |-> Chr(s, i), to |-> i + 1]
  IN  IF i > Len(s) /\ ~control /\ ~meta THEN <<>>
      ELSE IF prefix(67) THEN TranslateFrom(s, i + 3, TRUE, meta, convert)
      ELSE IF prefix(77) THEN TranslateFrom(s, i + 3, control, TRUE, convert)
      ELSE Emitted(WithModifiers(x.c, control, meta), convert)
             \o IF i > Len(s) THEN <<>> ELSE TranslateFrom(s, x.to, FALSE, FALSE, convert)
Translate(s, convert) == TranslateFrom(s, 1, FALSE, FALSE, convert)

\* rl_untranslate_keyseq, and _rl_untranslate_macro_value for each character of
\* a macro, in which a character beyond 127 is negative and has no name.
Control(c) == <<Backslash, 67, Minus, c>>
\* Mutated form: a double quote has no backslash before it.
QuoteBare(c) == IF c = Esc THEN <<Backslash, 101>> ELSE IF c = Backslash THEN <<Backslash, c>> ELSE <<c>>
Named(c) == IF c = Esc THEN <<Backslash, 101>> ELSE IF c \in {Backslash, Quote} THEN <<Backslash, c>> ELSE <<c>>
UnControl(c) == Lower(c + 64)
Untranslate(c) ==
  IF IsMeta(c) THEN <<Backslash, 77, Minus>> \o Named(UnMeta(c))
  ELSE IF c = Esc THEN Named(c)
  ELSE IF IsControl(c) THEN <<Backslash, 67, Minus>> \o Named(UnControl(c))
  ELSE IF c = Rubout THEN Control(Query)
  ELSE Named(c)
\* A macro ends at the first character 0 among its keys.
CString(s) == LET ends == {i \in DOMAIN s : s[i] = 0}
              IN  SubSeq(s, 1, IF ends = {} THEN Len(s) ELSE (CHOOSE i \in ends : \A j \in ends : i <= j) - 1)
MacroValue(s) == FlattenSeq([i \in DOMAIN s |-> IF IsMeta(s[i]) THEN <<s[i]>> ELSE Untranslate(s[i])])

\* _rl_get_keyname: AnyOther is taken for a character beyond 159, and its name is
\* that of the character 0.
OctalDigit(n) == 48 + n
KeyName(c) ==
  IF c = Esc THEN <<Backslash, 101>>
  ELSE IF c = Rubout THEN Control(Query)
  ELSE IF c >= 128 THEN <<Backslash, OctalDigit((c % 256) \div 64), OctalDigit((c \div 8) % 8), OctalDigit(c % 8)>>
  ELSE IF IsControl(c) THEN <<Backslash, 67, Minus>> \o Named(UnControl(c))
  ELSE Named(c)

-----------------------------------------------------------------------------
(* Keymaps *)

Function(name) == [type |-> "function", what |-> name]
Macro(keys) == [type |-> "macro", what |-> keys]
Null == Function("null")                    \* no function
NullFunction == Function("_rl_null_function")
Lowercase == Function("do-lowercase-version")
Movement == Function("vi-movement-mode")

\* rl_make_bare_keymap
Bare == [maps |-> {<<>>}, bound |-> [path \in {} |-> Null]]
Bound(m, path) == IF path \in DOMAIN m.bound THEN m.bound[path] ELSE Null
Set(m, path, data) ==
  LET paths == (DOMAIN m.bound \cup {path}) \ IF data = Null THEN {path} ELSE {}
  IN  [m EXCEPT !.bound = [p \in paths |-> IF p = path THEN data ELSE m.bound[p]]]
Prefixing(in, keys) == {in \o SubSeq(keys, 1, n) : n \in 1 .. Len(keys) - 1}

\* Mutated form: what is shadowed is forgotten.
Forgetful(m, path) ==
  IF path \in m.maps THEN m ELSE Set([m EXCEPT !.maps = @ \cup {path}], path, Null)
\* rl_generic_bind, for the keys it makes of the sequence: a prefix that is
\* bound becomes a keymap that remembers what it shadows; a sequence that is a
\* prefix is bound in its keymap; a keymap from which all is unbound is given up
\* for what it shadows.
WithPrefix(m, path) ==
  IF path \in m.maps THEN m
  ELSE LET shadowed == IF Bound(m, path) = Lowercase THEN Null ELSE Bound(m, path)
       IN  Set(Set([m EXCEPT !.maps = @ \cup {path}], path, Null), Append(path, AnyOther), shadowed)
Below(m, path) == {p \in m.maps \cup DOMAIN m.bound : Len(p) > Len(path) /\ IsPrefix(path, p)}
Unshadowed(m, path) ==
  LET over == Append(path, AnyOther)
  IN  IF Below(m, path) \subseteq {over} /\ Bound(m, over).type = "function"
      THEN Set(Set([m EXCEPT !.maps = @ \ {path}], over, Null), path, Bound(m, over))
      ELSE m
GenericBind(m, in, keys, data) ==
  LET made == FoldLeft(LAMBDA x, n : WithPrefix(x, in \o SubSeq(keys, 1, n)), m,
                       [n \in 1 .. Len(keys) - 1 |-> n])
      path == in \o keys
      over == path \in made.maps
      value == IF over /\ data = Null THEN NullFunction ELSE data
      set == Set(made, IF over THEN Append(path, AnyOther) ELSE path, value)
  IN  IF value = Null /\ Len(keys) > 1 THEN Unshadowed(set, Front(path)) ELSE set

\* rl_bind_key_in_map; without a function, rl_unbind_key_in_map.
KeySequence(c) == IF c = Backslash THEN <<Backslash, Backslash>> ELSE IF c = 0 THEN <<Backslash, 48>> ELSE <<c>>
BindKey(m, in, c, data, convert) ==
  LET esc == Append(in, Esc)
      bind(sequence) == GenericBind(m, in, Translate(sequence, convert), data)
  IN  IF IsMeta(c) /\ convert
      THEN IF esc \notin m.maps THEN bind(<<Esc>> \o KeySequence(UnMeta(c)))
           ELSE LET path == Append(esc, UnMeta(c))   \* a keymap there is lost
                    lost == Below(m, path)
                IN  Set([maps |-> m.maps \ ({path} \cup lost),
                         bound |-> [p \in DOMAIN m.bound \ lost |-> m.bound[p]]], path, data)
      ELSE IF Append(in, c) \in m.maps THEN bind(KeySequence(c))
      ELSE Set(m, Append(in, c), data)

\* rl_function_of_keyseq_len: a keymap counts as a function.
IsKeymap == Function("keymap")
RECURSIVE FunctionOf(_, _, _, _)
FunctionOf(m, in, keys, convert) ==
  IF keys = <<>> THEN Null
  ELSE LET meta == IsMeta(Head(keys)) /\ convert
           esc == Append(in, Esc)
           path == Append(IF meta THEN esc ELSE in, IF meta THEN UnMeta(Head(keys)) ELSE Head(keys))
       IN  IF meta /\ esc \notin m.maps THEN Bound(m, esc)
           ELSE IF path \notin m.maps THEN IF Len(keys) > 1 THEN Null ELSE Bound(m, path)
           ELSE IF Len(keys) = 1 THEN IsKeymap
           ELSE FunctionOf(m, path, Tail(keys), convert)

\* rl_bind_keyseq_if_unbound_in_map
BindIfUnbound(m, in, sequence, data, convert) ==
  LET keys == Translate(sequence, convert)
  IN  IF FunctionOf(m, in, keys, convert) \in {Null, Lowercase, Movement}
      THEN GenericBind(m, in, keys, data) ELSE m

\* rl_unbind_function_in_map
UnbindFunction(m, in, function) ==
  [m EXCEPT !.bound =
     [p \in {p \in DOMAIN @ : ~(IsPrefix(in, p) /\ p # in /\ @[p] = function)} |-> @[p]]]

-----------------------------------------------------------------------------
(* What is bound, as lines to be read back *)

\* rl_invoking_keyseqs_in_map and rl_function_dumper; _rl_macro_dumper_internal.
PrefixName(c, convert) ==
  IF c = Esc THEN IF convert THEN <<Backslash, 77, Minus>> ELSE <<Backslash, 101>>
  ELSE IF c >= 128 THEN <<c>> ELSE KeyName(c)
FunctionKeys(path, convert) ==
  FlattenSeq([i \in DOMAIN path |-> IF i = Len(path) THEN KeyName(path[i]) ELSE PrefixName(path[i], convert)])
MacroKeys(path) == FlattenSeq([i \in DOMAIN path |-> KeyName(path[i])])
BindingLine(path, data, convert) ==
  IF data.type = "macro" THEN [keys |-> MacroKeys(path) \o <<Quote>>, macro |-> MacroValue(data.what) \o <<Quote>>, data |-> Null]
  ELSE [keys |-> FunctionKeys(path, convert) \o <<Quote>>, macro |-> <<>>, data |-> data]
Dumped(m, convert) == {BindingLine(p, m.bound[p], convert) : p \in {p \in DOMAIN m.bound : m.bound[p] # NullFunction}}

\* rl_parse_and_bind of a line with a quoted key sequence: _rl_skip_to_delim
\* and what follows it.
RECURSIVE ToQuote(_, _)
ToQuote(s, i) == IF Chr(s, i) \in {0, Quote} THEN i
                 ELSE ToQuote(s, i + IF s[i] = Backslash /\ Chr(s, i + 1) # 0 THEN 2 ELSE 1)
ToClosingQuote(s) == SubSeq(s, 1, ToQuote(s, 1) - 1)
ParseAndBind(m, line, convert) ==
  GenericBind(m, <<>>, Translate(ToClosingQuote(line.keys), convert),
    IF line.macro = <<>> THEN line.data ELSE Macro(CString(Translate(ToClosingQuote(line.macro), convert))))

-----------------------------------------------------------------------------
(* An application and its user bind keys *)

\* A request: op, the keymap in (a path), the key or the sequence, and the data.
NotAsked == [op |-> "none", in |-> <<>>, keys |-> <<>>, data |-> Null]
StartBinding ==
  /\ \E name \in Scripts : \E convert \in Converts(name) :
       script = [name |-> name, convert |-> convert, steps |-> 0]
  /\ keymap \in Keymaps(script.name)
  /\ asked = NotAsked

Request(op) ==
  /\ asked' \in {r \in Binds(script.name, script.steps + 1) : r.op = op /\ r.in \in keymap.maps}
  /\ script' = [script EXCEPT !.steps = @ + 1]
Key(r) == r.keys[1]

Bind == Request("key") /\ keymap' = BindKey(keymap, asked'.in, Key(asked'), asked'.data, script.convert)
BindSequence ==
  /\ Request("sequence")
  /\ keymap' = GenericBind(keymap, asked'.in, Translate(asked'.keys, script.convert), asked'.data)
BindMacro ==   \* rl_macro_bind
  /\ Request("macro")
  /\ keymap' = GenericBind(keymap, asked'.in, Translate(asked'.keys, script.convert),
                           Macro(CString(Translate(asked'.data.what, script.convert))))
BindUnbound ==
  /\ Request("if unbound")
  /\ keymap' = BindIfUnbound(keymap, asked'.in, asked'.keys, asked'.data, script.convert)
BindKeyUnbound ==   \* rl_bind_key_if_unbound_in_map
  /\ Request("key if unbound")
  /\ keymap' = BindIfUnbound(keymap, asked'.in, Untranslate(Key(asked')), asked'.data, script.convert)
Unbind == Request("unbind") /\ keymap' = UnbindFunction(keymap, asked'.in, asked'.data)

NextBinding == Bind \/ BindSequence \/ BindMacro \/ BindUnbound \/ BindKeyUnbound \/ Unbind

-----------------------------------------------------------------------------
(* Properties *)

\* What a key sequence does: the function or macro at its end, or what its
\* keymap shadows.
Does(m, path) ==
  LET data == IF path \in m.maps THEN Bound(m, Append(path, AnyOther)) ELSE Bound(m, path)
  IN  IF data = NullFunction THEN Null ELSE data
Paths(m) == {IF Last(p) = AnyOther THEN Front(p) ELSE p : p \in DOMAIN m.bound}
\* The sequence a request is about, and what it is to do.
About(r) ==
  r.in \o IF r.op \in {"key", "key if unbound"} THEN Emitted(Key(r), script.convert)
          ELSE Translate(r.keys, script.convert)
Wanted(r) == IF r.op = "macro" THEN Macro(CString(Translate(r.data.what, script.convert))) ELSE r.data
\* Only what is unbound is bound "if unbound"; a sequence that was unbound while
\* it was a prefix, and no longer is one, is bound to _rl_null_function.
Leaves(r, path) ==
  /\ r.op \in {"if unbound", "key if unbound"}
  /\ path \in keymap.maps \/ Bound(keymap, path) \notin {Null, Lowercase, Movement}

\* A key sequence does what it was bound to last, whatever longer or shorter
\* sequences were bound and unbound since (rl_generic_bind, rl_bind_key and
\* their variants).  Two things are lost: do-lowercase-version on a key that
\* becomes a prefix, and with convert-meta the sequences behind a meta key that
\* rl_bind_key binds, because it does not look whether they have a keymap.
LongerLost(r, path) ==
  /\ r.op = "key" /\ IsMeta(Key(r)) /\ script.convert
  /\ IsPrefix(About(r), path) /\ Append(r.in, Esc) \in keymap.maps
BindingsStay ==
  [][\A path \in Paths(keymap) \cup Paths(keymap') \cup {About(asked')} :
       Does(keymap', path) =
         IF asked'.op = "unbind"
         THEN IF Does(keymap, path) = asked'.data /\ IsPrefix(asked'.in, path)
              THEN Null ELSE Does(keymap, path)
         ELSE IF path = About(asked')
         THEN IF Leaves(asked', path) THEN Does(keymap, path) ELSE Wanted(asked')
         ELSE IF LongerLost(asked', path) THEN Null
         ELSE IF Does(keymap, path) = Lowercase /\ path \in Prefixing(<<>>, About(asked')) THEN Does(keymap', path)
         ELSE Does(keymap, path)]_bindVars

\* The lines that show the bindings can be read back, in the one order in which
\* SetToSeq puts them, and give the same bindings (dump-functions and dump-macros
\* with an argument; the code orders the functions by name and the macros by key,
\* and which of these orders is taken is not what this is about).  Two kinds of
\* lines name another sequence: that of what a longer sequence shadows names the
\* character 0 behind the prefix, and with convert-meta that of a function behind
\* two ESC names only one.
ReadAs(m, path, convert) ==
  LET keys == [i \in DOMAIN path |-> IF path[i] = AnyOther THEN 0 ELSE path[i]]
      lost(i) == convert /\ m.bound[path].type = "function"
                 /\ i < Len(path) - 1 /\ path[i] = Esc /\ path[i + 1] = Esc
  IN  FlattenSeq([i \in DOMAIN path |-> IF lost(i) THEN <<>> ELSE <<keys[i]>>])
Shown(m) == {p \in DOMAIN m.bound : m.bound[p] # NullFunction}
ReadBack(m, convert) == FoldLeft(LAMBDA x, line : ParseAndBind(x, line, convert), Bare, SetToSeq(Dumped(m, convert)))
DumpsReadBack ==
  LET back == ReadBack(keymap, script.convert)
      as == [p \in Shown(keymap) |-> ReadAs(keymap, p, script.convert)]
  IN  /\ \A p \in DOMAIN as :
           Does(back, as[p]) = keymap.bound[p] \/ \E q \in DOMAIN as \ {p} : as[q] = as[p]
      /\ Paths(back) = {as[p] : p \in DOMAIN as}

=============================================================================
