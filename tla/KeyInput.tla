------------------------------ MODULE KeyInput ------------------------------
(***************************************************************************)
(* Where readline's keys come from and what they are bound to: rl_read_key *)
(* and its buffers (input.c), the keyboard macros that are executed and    *)
(* defined (macro.c), and the search of the keymaps (readline.c).          *)
(***************************************************************************)
EXTENDS Integers, Sequences, SequencesExt, FiniteSets, FiniteSetsExt

CONSTANTS
  MaxLevel  \* MAX_MACRO_LEVEL (16 in the code)

ASSUME MaxLevelAssumption == MaxLevel \in Nat

None == "none"

-----------------------------------------------------------------------------
(* The sources of keys, a record:                                           *)
(*   pending  rl_pending_input, a key or None                               *)
(*   macros   the macros being executed, the innermost first; each has its  *)
(*            keys and how many were read (rl_executing_macro, macro_list)  *)
(*   ungot    ibuffer, the keys put back, in the order of reading           *)
(*   typed    what the terminal has                                         *)

\* rl_executing_macro is left exhausted until the next key is read.
Live(macros) ==
  LET left == {i \in DOMAIN macros : macros[i].at < Len(macros[i].keys)}
  IN  IF left = {} THEN <<>> ELSE SubSeq(macros, Min(left), Len(macros))

HasKey(in) ==
  in.pending # None \/ Live(in.macros) # <<>> \/ in.ungot # <<>> \/ in.typed # <<>>

\* The key rl_read_key returns.
NextKey(in) ==
  LET macros == Live(in.macros)
  IN  IF in.pending # None THEN in.pending
      ELSE IF macros # <<>> THEN macros[1].keys[macros[1].at + 1]
      ELSE Head(in.ungot \o in.typed)

\* The sources once rl_read_key has returned.
Read(in) ==
  LET macros == Live(in.macros)
  IN  IF in.pending # None THEN [in EXCEPT !.pending = None]
      ELSE IF macros # <<>> THEN [in EXCEPT !.macros = [macros EXCEPT ![1].at = @ + 1]]
      ELSE IF in.ungot # <<>> THEN [in EXCEPT !.macros = <<>>, !.ungot = Tail(@)]
      ELSE [in EXCEPT !.macros = <<>>, !.typed = Tail(@)]

\* Mutated form: the last key put back is read after the others.
PutBackReversed(in, keys) ==
  IF in.macros # <<>> THEN [in EXCEPT !.macros[1].at = Max({0, @ - Len(keys)})]
  ELSE [in EXCEPT !.ungot = Reverse(keys) \o @]

\* _rl_prev_macro_key or _rl_unget_char for each key, the last one first.
PutBack(in, keys) ==
  IF in.macros # <<>> THEN [in EXCEPT !.macros[1].at = Max({0, @ - Len(keys)})]
  ELSE [in EXCEPT !.ungot = keys \o @]

\* All that is still to be read of the macros, and of every source, in order.
MacroStream(macros) ==
  FlattenSeq([i \in DOMAIN macros |->
    SubSeq(macros[i].keys, macros[i].at + 1, Len(macros[i].keys))])

Stream(in) ==
  (IF in.pending = None THEN <<>> ELSE <<in.pending>>)
  \o MacroStream(in.macros) \o in.ungot \o in.typed

-----------------------------------------------------------------------------
(* Macros: a macro being defined, or the last one, has keys (None before    *)
(* there is one) and a flag (RL_STATE_MACRODEF).                            *)

NoMacro == [keys |-> <<None>>, on |-> FALSE]

\* _rl_add_macro_char, for each of the keys, while a macro is being defined.
AddMacroChars(macro, keys) ==
  IF ~macro.on THEN macro
  ELSE [macro EXCEPT !.keys = IF @ = <<None>> THEN keys ELSE @ \o keys]

\* What a command makes of the sources and the macro, when it does not abort.
Does(in, macro) == [abort |-> FALSE, input |-> in, macro |-> macro]

\* _rl_abort_internal: pending input and all macros are discarded.
Aborts(in) ==
  [abort |-> TRUE, input |-> [in EXCEPT !.pending = None, !.macros = <<>>],
   macro |-> NoMacro]

\* Mutated form: a macro that has been read to its end is dropped first.
WithMacroInputDropping(in, macro, count, keys) ==
  LET in1 == [in EXCEPT !.macros = Live(in.macros)]
  IN  IF count < 0 \/ Len(in1.macros) + count > MaxLevel + 1 THEN Aborts(in)
      ELSE Does([in1 EXCEPT !.macros =
             [i \in 1 .. count |-> [keys |-> keys, at |-> 0]] \o @], macro)

\* _rl_with_macro_input, count times (counted down to zero): macros nest to a limit.
WithMacroInput(in, macro, count, keys) ==
  IF count < 0 \/ Len(in.macros) + count > MaxLevel + 1 THEN Aborts(in)
  ELSE Does([in EXCEPT !.macros =
         [i \in 1 .. count |-> [keys |-> keys, at |-> 0]] \o @], macro)

\* rl_start_kbd_macro: a numeric argument runs and extends the old macro.
StartMacro(in, macro, explicit) ==
  IF macro.on THEN Aborts(in)
  ELSE LET on == [macro EXCEPT !.on = TRUE]
       IN  IF ~explicit THEN Does(in, [on EXCEPT !.keys = <<>>])
           ELSE IF macro = NoMacro THEN Does(in, on)
           ELSE WithMacroInput(in, on, 1, macro.keys)

\* rl_call_last_kbd_macro; while a macro is defined it only erases its own key.
CallMacro(in, macro, count) ==
  IF macro = NoMacro THEN Aborts(in)
  ELSE IF macro.on THEN Does(in, [macro EXCEPT !.keys = Front(@)])
  ELSE WithMacroInput(in, macro, count, macro.keys)

\* Mutated form: the keys that end the definition stay in it.
EndMacroWithKeys(in, macro, count, length) ==
  IF ~macro.on THEN Aborts(in) ELSE CallMacro(in, [macro EXCEPT !.on = FALSE], count - 1)

\* rl_end_kbd_macro: the key sequence that ends it is no part of the macro.
EndMacro(in, macro, count, length) ==
  IF ~macro.on THEN Aborts(in)
  ELSE LET keys == SubSeq(macro.keys, 1, Len(macro.keys) - length)
       IN  CallMacro(in, [keys |-> keys, on |-> FALSE], count - 1)

-----------------------------------------------------------------------------
(* Keymaps: a function from key sequences to commands. A sequence that is   *)
(* bound and begins a longer one is the shadow function (ANYOTHERKEY) of    *)
(* the keymap that the longer one needs.                                    *)

\* map[key].type = ISKMAP, after the keys before it.
IsKeymap(bound, keys) == \E s \in DOMAIN bound : IsStrictPrefix(keys, s)

\* How many of the keys read the shadow function takes that _rl_subseq_result
\* falls back on, in a set that is empty when there is none.
Shadowed(bound, keys) ==
  {n \in 1 .. Len(keys) : SubSeq(keys, 1, n) \in DOMAIN bound
     /\ \A m \in n + 1 .. Len(keys) : SubSeq(keys, 1, m) \notin DOMAIN bound}

=============================================================================
