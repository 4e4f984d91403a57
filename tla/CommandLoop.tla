----------------------------- MODULE CommandLoop -----------------------------
(***************************************************************************)
(* readline_internal_charloop: keys are read and looked up, commands run.  *)
(* The commands are those whose effect depends on what ran before them or  *)
(* on what was typed after them: inserting (which reads on while there is  *)
(* input), numeric arguments, keyboard macros, kills and yanks, abort.     *)
(***************************************************************************)
EXTENDS KeyInput

CONSTANTS
  Key,       \* the keys
  Digit,     \* the value of the keys that are digits, a function
  Keymaps,   \* the keymaps to begin with, functions from key sequences to commands
  Lines,     \* the lines to begin with
  MaxTyped,  \* bound: how many keys are typed
  MaxAhead,  \* bound: how many keys wait in the terminal
  MaxArg,    \* the largest numeric argument (a million in the code)
  MaxKills   \* rl_max_kills (10 in the code)

ASSUME CommandLoopAssumption ==
  /\ MaxTyped \in Nat /\ MaxAhead \in Nat /\ MaxArg \in Nat /\ MaxKills \in Nat \ {0}
  /\ None \notin Key /\ Lines \subseteq Seq(Key)
  /\ DOMAIN Digit \subseteq Key /\ \A key \in DOMAIN Digit : Digit[key] \in 0 .. MaxArg

VARIABLES
  bound,     \* _rl_keymap
  input,     \* the sources of keys
  path,      \* the keys of the key sequence being read
  macro,     \* current_macro and RL_STATE_MACRODEF
  arg,       \* rl_numeric_arg, and the length of the sequence that began it
  line,      \* rl_line_buffer
  point,     \* rl_point
  ring,      \* rl_kill_ring
  index,     \* rl_kill_index
  lastKill,  \* _rl_last_command_was_kill, nonzero
  lastFunc,  \* rl_last_func
  typed,     \* history: how many keys were typed
  step,      \* history: the keys that the last step used and put in front
  crossed,   \* history: does the sequence begin in one macro and go on in another?
  made,      \* history: the keys that ran since the definition began
  killing,   \* history: the line before the run of kills
  yanked     \* history: the line and the point before the text was yanked

keys == <<input, path, macro, arg>>
text == <<line, point, ring, index, lastKill, lastFunc>>
vars == <<bound, keys, text, typed, step, crossed, made, killing, yanked>>

Kills == {"kill-line", "unix-line-discard", "kill-whole-line"}
Yanks == {"yank", "yank-pop"}
Commands == Kills \cup Yanks \cup {"self-insert", "digit-argument", "abort", "left",
  "macro", "start-kbd-macro", "end-kbd-macro", "call-last-kbd-macro"}

\* A keymap: what runs when keys are typed. The keys of a macro are its text, and a
\* digit argument begins with a digit.
ASSUME KeymapsAssumption ==
  \A map \in Keymaps :
    /\ DOMAIN map \subseteq Seq(Key) \ {<<>>}
    /\ \A s \in DOMAIN map :
         /\ map[s] \in [cmd : Commands, text : Seq(Key)]
         /\ map[s].cmd = "digit-argument" => Last(s) \in DOMAIN Digit

NoArg == [count |-> 1, length |-> 0]
Explicit == arg.length > 0

Nothing == [used |-> <<>>, front |-> <<>>, aborted |-> FALSE]

-----------------------------------------------------------------------------
(* The line and the kill ring *)

Splice(t, at, new) == SubSeq(t, 1, at) \o new \o SubSeq(t, at + 1, Len(t))
Cut(t, from, to) == SubSeq(t, 1, from) \o SubSeq(t, to + 1, Len(t))

\* Where a kill begins and where it ends: FROM is the point, as kill.c asks,
\* but for kill-whole-line, which begins at 0.
Extent(cmd) ==
  CASE cmd = "kill-line" -> <<point, Len(line)>>
    [] cmd = "unix-line-discard" -> <<point, 0>>
    [] cmd = "kill-whole-line" -> <<0, Len(line)>>

\* Does the command kill? kill-line and unix-line-discard do not call
\* rl_kill_text when there is nothing to kill, kill-whole-line always does.
IsKill(cmd) ==
  cmd \in Kills /\ (cmd = "kill-whole-line" \/ Extent(cmd)[1] # Extent(cmd)[2])

\* Mutated form: text killed backwards is appended too.
AlwaysAppended(slots, new, append, more) ==
  IF more /\ slots # <<>> THEN [slots EXCEPT ![Len(slots)] = @ \o new]
  ELSE (IF Len(slots) = MaxKills THEN Tail(slots) ELSE slots) \o <<new>>

\* _rl_copy_to_kill_ring: a slot of its own, or more of the last slot.
CopyToKillRing(slots, new, append, more) ==
  IF more /\ slots # <<>>
    THEN [slots EXCEPT ![Len(slots)] = IF append THEN @ \o new ELSE new \o @]
    ELSE (IF Len(slots) = MaxKills THEN Tail(slots) ELSE slots) \o <<new>>

\* The kill commands, and rl_kill_text.
Kill(cmd) ==
  LET from == Extent(cmd)[1]
      to == Extent(cmd)[2]
      low == Min({from, to})
      high == Max({from, to})
  IN  /\ line' = Cut(line, low, high)
      /\ point' = low
      /\ IF low = high
           THEN UNCHANGED <<ring, index>>
           ELSE /\ ring' = CopyToKillRing(ring, SubSeq(line, low + 1, high),
                                          from < to, lastKill)
                /\ index' = Len(ring')

\* What the ring offers next: the slot before, from the first one the last one.
Before(i) == IF i = 1 THEN Len(ring) ELSE i - 1

\* Is the text that yank-pop would replace there?
YankIsThere ==
  LET n == Len(ring[index])
  IN  point >= n /\ SubSeq(line, point - n + 1, point) = ring[index]

\* rl_yank and rl_yank_pop, when they do not abort.
Yank(cmd) ==
  LET at == IF cmd = "yank" THEN point ELSE point - Len(ring[index])
      i == IF cmd = "yank" THEN index ELSE Before(index)
  IN  /\ line' = Splice(Cut(line, at, point), at, ring[i])
      /\ point' = at + Len(ring[i])
      /\ index' = i
      /\ UNCHANGED ring

\* rl_yank and rl_yank_pop abort when there is nothing to yank, or to replace.
YankFails(cmd) ==
  \/ ring = <<>>
  \/ cmd = "yank-pop" /\ (lastFunc \notin Yanks \/ ~YankIsThere)

-----------------------------------------------------------------------------
(* Inserting reads on, while only keys that are inserted are typed *)

\* What rl_insert reads ahead: the keys it inserts too, and the key after them.
Inserting(key) ==
  <<key>> \in DOMAIN bound /\ bound[<<key>>].cmd = "self-insert"
    /\ ~IsKeymap(bound, <<key>>)

Ahead(in) ==
  IF in.macros # <<>> \/ in.ungot # <<>> THEN <<>>
  ELSE SubSeq(in.typed, 1, Max({n \in 0 .. Len(in.typed) :
                                  \A i \in 1 .. n : Inserting(in.typed[i])}))

\* The sources when rl_insert is done: the key after is made the next command.
AfterInsert(in) ==
  LET left == SubSeq(in.typed, Len(Ahead(in)) + 1, Len(in.typed))
  IN  IF in.macros # <<>> \/ in.ungot # <<>> \/ left = <<>>
        THEN [in EXCEPT !.typed = left]
        ELSE [in EXCEPT !.pending = Head(left), !.typed = Tail(left)]

-----------------------------------------------------------------------------
(* A command *)

\* What the command does with the sources and the macro.
Effect(c, in, m, length) ==
  CASE c.cmd = "self-insert" -> Does(AfterInsert(in), m)
    [] c.cmd = "macro" -> WithMacroInput(in, m, 1, c.text)
    [] c.cmd = "start-kbd-macro" -> StartMacro(in, m, Explicit)
    [] c.cmd = "end-kbd-macro" -> EndMacro(in, m, arg.count, length)
    [] c.cmd = "call-last-kbd-macro" -> CallMacro(in, m, arg.count)
    [] c.cmd = "abort" \/ (c.cmd \in Yanks /\ YankFails(c.cmd)) -> Aborts(in)
    [] OTHER -> Does(in, m)

\* rl_last_func after the command: rl_insert sets it itself when a key is pending.
LastFunc(cmd, pending) == cmd

\* What the command does with the line.
Edit(c, key, in) ==
  /\ lastKill' = (IsKill(c.cmd)
                    \/ (lastKill /\ (c.cmd = "digit-argument" \/ input'.pending # None)))
  /\ lastFunc' = IF c.cmd \in {"digit-argument", "macro"} THEN lastFunc
                 ELSE LastFunc(c.cmd, input'.pending)
  /\ IF c.cmd \in Kills THEN Kill(c.cmd)
     ELSE IF c.cmd \in Yanks THEN Yank(c.cmd)
     ELSE /\ UNCHANGED <<ring, index>>
          /\ IF c.cmd = "self-insert"
               THEN LET new == [i \in 1 .. arg.count |-> key] \o Ahead(in)
                    IN  line' = Splice(line, point, new) /\ point' = point + Len(new)
               ELSE /\ line' = line
                    /\ point' = IF c.cmd = "left" THEN Max({0, point - 1}) ELSE point

\* A command has run: the argument and the key sequence begin anew.
Reset(c, key, length) ==
  /\ path' = <<>>
  /\ arg' = IF c.cmd = "digit-argument" THEN [count |-> Digit[key], length |-> length]
            ELSE NoArg

\* History: what is recorded is what runs, unless keys are read ahead, put back,
\* come from a macro or belong to an argument. Calling the macro that is being
\* defined is no part of it.
Note(c, used, in, exact) ==
  made' = IF c.cmd = "start-kbd-macro" THEN [keys |-> <<>>, exact |-> ~Explicit]
          ELSE IF ~macro.on THEN made
          ELSE [keys |-> IF c.cmd \in {"call-last-kbd-macro", "end-kbd-macro"}
                           THEN made.keys ELSE made.keys \o used,
                exact |-> made.exact /\ exact /\ used = path \o <<Last(used)>>
                          /\ input.macros = <<>> /\ in.macros = <<>> /\ ~Explicit
                          /\ (c.cmd = "call-last-kbd-macro" => Len(used) = 1)]

\* History: the run of kills goes on, begins, or is over. excused says that
\* another command ran in it, and that readline did not notice.
NoteKills(c, aborted) ==
  killing' =
    IF IsKill(c.cmd)
      THEN [on |-> TRUE,
            line |-> IF killing.on THEN killing.line ELSE line,
            excused |-> killing.excused
                          \/ (killing.on /\ c.cmd = "kill-whole-line" /\ point > 0)]
    ELSE IF c.cmd = "digit-argument" THEN killing
      ELSE [on |-> FALSE, line |-> <<>>,
            excused |-> (killing.on \/ killing.excused)
                          /\ (aborted \/ input'.pending # None)]

\* The command c runs: keys were used for it, those in recorded in the macro
\* being defined; length is rl_key_sequence_length.
Run(c, used, in, recorded, length, exact) ==
  LET key == Last(used)
      e == Effect(c, in, AddMacroChars(macro, recorded), length)
  IN  /\ input' = e.input /\ macro' = e.macro
      /\ step' = [used |-> used \o (IF c.cmd = "self-insert" THEN Ahead(in) ELSE <<>>),
                  front |-> LET after == MacroStream(e.input.macros)
                            IN  SubSeq(after, 1, Len(after) - Len(MacroStream(in.macros))),
                  aborted |-> e.abort]
      /\ IF e.abort
           THEN /\ path' = <<>> /\ arg' = NoArg /\ lastFunc' = None
                /\ UNCHANGED <<line, point, ring, index, lastKill, yanked>>
           ELSE /\ Reset(c, key, length) /\ Edit(c, key, in)
                /\ yanked' = IF c.cmd = "yank" THEN [line |-> line, point |-> point]
                             ELSE yanked
      /\ Note(c, used \o (IF c.cmd = "self-insert" THEN Ahead(in) ELSE <<>>), in, exact)
      /\ NoteKills(c, e.abort)

-----------------------------------------------------------------------------
(* Reading a key *)

\* The user types a key of the keymap, up to MaxAhead before one is read.
Type ==
  /\ typed < MaxTyped /\ Len(input.typed) < MaxAhead
  /\ \E key \in UNION {ToSet(s) : s \in DOMAIN bound} : input' = [input EXCEPT !.typed = Append(@, key)]
  /\ typed' = typed + 1 /\ step' = Nothing
  /\ UNCHANGED <<bound, path, macro, arg, text, crossed, made, killing, yanked>>

InArgument == Explicit /\ path = <<>>

\* rl_digit_loop reads another digit; an argument too large is dropped.
MoreDigits(key, in) ==
  LET n == arg.count * 10 + Digit[key]
  IN  /\ input' = in
      /\ step' = [Nothing EXCEPT !.used = <<key>>]
      /\ made' = [made EXCEPT !.exact = FALSE]
      /\ IF n > MaxArg
           THEN arg' = NoArg /\ lastKill' = FALSE /\ NoteKills([cmd |-> "none"], FALSE)
           ELSE /\ arg' = [arg EXCEPT !.count = n]
                /\ UNCHANGED <<lastKill, killing>>
      /\ UNCHANGED <<path, macro, line, point, ring, index, lastFunc, yanked>>

\* The key leads to a keymap: readline waits for the next key of the sequence.
MoreKeys(key, in) ==
  /\ input' = in
  /\ path' = Append(path, key)
  /\ macro' = AddMacroChars(macro, <<key>>)
  /\ step' = Nothing
  /\ UNCHANGED <<arg, text, made, killing, yanked>>

\* The keys run the shadow function of the first n of them; the others are put
\* back. The last key of the shadow function is dispatched, and recorded, again.
FallBack(all, in, recorded, n) ==
  LET used == SubSeq(all, 1, n)
  IN  Run(bound[used], used, PutBack(in, SubSeq(all, n + 1, Len(all))),
          recorded \o <<Last(used)>>, arg.length + n, FALSE)

\* No command is bound to the sequence or to a beginning of it.
NotBound(key, in) ==
  LET e == Aborts(in)
  IN  /\ input' = e.input /\ macro' = e.macro
      /\ path' = <<>> /\ arg' = NoArg /\ lastFunc' = None
      /\ step' = [Nothing EXCEPT !.used = Append(path, key), !.aborted = TRUE]
      /\ NoteKills([cmd |-> "abort"], TRUE)
      /\ UNCHANGED <<line, point, ring, index, lastKill, made, yanked>>

ReadKey ==
  /\ HasKey(input)
  /\ LET key == NextKey(input)
         in == Read(input)
         all == Append(path, key)
         n == Shadowed(bound, path)
     IN  /\ crossed' = (path # <<>> /\ (crossed \/ Len(in.macros) \notin {0, Len(input.macros)}))
         /\ IF InArgument /\ key \in DOMAIN Digit THEN MoreDigits(key, in)
            ELSE IF IsKeymap(bound, all) THEN MoreKeys(key, in)
            ELSE IF all \in DOMAIN bound
              THEN Run(bound[all], all, in, <<key>>, arg.length + Len(all), TRUE)
            ELSE IF n # {} THEN \E i \in n : FallBack(all, in, <<key>>, i)
            ELSE NotBound(key, in)
  /\ UNCHANGED <<bound, typed>>

\* keyseq-timeout: no key came, and the sequence so far is a command.
Timeout ==
  /\ path \in DOMAIN bound /\ input.macros = <<>> /\ ~HasKey(input)
  /\ FallBack(path, input, <<>>, Len(path))
  /\ crossed' = FALSE
  /\ UNCHANGED <<bound, typed>>

Init ==
  /\ bound \in Keymaps
  /\ input = [pending |-> None, macros |-> <<>>, ungot |-> <<>>, typed |-> <<>>]
  /\ path = <<>> /\ macro = NoMacro /\ arg = NoArg
  /\ line \in Lines /\ point \in {0, Len(line)}
  /\ ring = <<>> /\ index = 0 /\ lastKill = FALSE /\ lastFunc = None
  /\ typed = 0 /\ step = Nothing /\ crossed = FALSE
  /\ made = [keys |-> <<>>, exact |-> FALSE]
  /\ killing = [on |-> FALSE, line |-> <<>>, excused |-> FALSE]
  /\ yanked = [line |-> <<>>, point |-> 0]

Next == Type \/ ReadKey \/ Timeout

\* Weak fairness of ReadKey, which is enabled while there is a key, and which is
\* then the only step but Type. Nobody has to type.
ReadingGoesOn == []<>~HasKey(input) \/ []<><<typed' = typed>>_vars

Spec == Init /\ [][Next]_vars /\ ReadingGoesOn

-----------------------------------------------------------------------------
(* Properties *)

MacroKeys == Seq(Key \cup {None})

TypeOK ==
  /\ bound \in Keymaps
  /\ input.pending \in Key \cup {None}
  /\ \A m \in ToSet(input.macros) : m.keys \in Seq(Key) /\ m.at \in 0 .. Len(m.keys)
  /\ Len(input.macros) <= MaxLevel + 1
  /\ input.ungot \in Seq(Key) /\ input.typed \in Seq(Key) /\ path \in Seq(Key)
  /\ macro.keys \in MacroKeys /\ macro.on \in BOOLEAN
  /\ arg.count \in 0 .. MaxArg \cup {1} /\ arg.length \in Nat
  /\ line \in Seq(Key) /\ point \in 0 .. Len(line)
  /\ ring \in Seq(Seq(Key) \ {<<>>}) /\ Len(ring) <= MaxKills
  /\ index \in (IF ring = <<>> THEN {0} ELSE 1 .. Len(ring))
  /\ lastKill \in BOOLEAN /\ lastFunc \in Commands \cup {None}
  /\ typed \in 0 .. MaxTyped

\* Whatever the source of the keys, their order is kept and none is lost or read
\* twice: a command takes its keys from the front, a macro called goes in front of
\* what is still to be read, and an abort drops macros and at most one key of
\* those typed ahead. (Not so when a sequence that is put back began in one macro
\* and went on in the one that called it.)
InputInOrder ==
  [][LET before == path \o Stream(input)
         after == path' \o Stream(input')
         used == step'.used
     IN  \/ crossed'
         \/ typed' # typed /\ after = Append(before, Last(after))
         \/ step'.aborted /\ IsSuffix(after, before)
              /\ Len(after) >= Len(input.ungot \o input.typed) - 1
         \/ typed' = typed /\ ~step'.aborted /\ IsPrefix(used, before)
              /\ after = step'.front \o SubSeq(before, Len(used) + 1, Len(before))]_vars

\* While only single commands run, one at a time, a keyboard macro holds their
\* keys: the keys that begin it, end it or call it are no part of it.
MacroIsWhatRan ==
  macro.keys # <<None>> /\ made.exact =>
    macro.keys = made.keys \o (IF macro.on THEN path ELSE <<>>)

\* Yanking after a run of kills gives back what they all removed, in its order:
\* the last slot, put in at the point, restores the line before the run.
KillsYankBack ==
  killing.on /\ ~killing.excused /\ line # killing.line =>
    Splice(line, point, ring[Len(ring)]) = killing.line

\* After yank and any number of yank-pops, the line is the one before the yank
\* with the slot of the ring in it, and nothing else is replaced.
YankPopReplaces ==
  lastFunc \in Yanks => line = Splice(yanked.line, yanked.point, ring[index])

\* The ring: types, and what its slots stand for.
RingInvariant == TypeOK /\ KillsYankBack /\ YankPopReplaces

\* Macros end: also one that calls itself, which the limit on nesting stops.
MacrosRunDry == Live(input.macros) # <<>> ~> Live(input.macros) = <<>>

=============================================================================
