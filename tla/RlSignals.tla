------------------------------ MODULE RlSignals ------------------------------
(***************************************************************************)
(* Signals while readline reads a line: signals.c, the reading of a key in *)
(* input.c, and where readline() prepares and restores the terminal.       *)
(*                                                                         *)
(* A signal handler only notes its signal in one variable.  The program    *)
(* looks at that variable here and there, and then cleans up, gives the    *)
(* signal to the application with kill(), and sets up again.  The places   *)
(* where it looks include the functions that clean up and set up, so one   *)
(* signal may be handled in the middle of another.                         *)
(***************************************************************************)
EXTENDS Integers, Sequences, SequencesExt, FiniteSets, FiniteSetsExt

CONSTANTS
  Signal,      \* the signals that may come
  MaxSignals,  \* bound: how many come
  MaxLines     \* bound: the calls of readline()

\* The signals while which SIGTTOU is blocked.
Blocking == {"INT", "TSTP"}

ASSUME RlSignalsAssumption ==
  /\ Signal \subseteq Blocking \cup {"QUIT", "TERM", "HUP", "WINCH"}
  /\ MaxSignals \in Nat /\ MaxLines \in Nat

VARIABLES
  handled,    \* the signals the application has a handler for
  caught,     \* _rl_caught_signal
  raw,        \* is the terminal in readline's mode? terminal_prepped
  installed,  \* signals_set_flag: are readline's handlers installed?
  ttou,       \* is SIGTTOU blocked?
  frames,     \* the signals being handled, the last one inside the others
  pc,         \* where readline() is, handling signals aside
  done,       \* has the line ended, by a signal or by its key?
  dead,       \* has a signal ended the process, and how?
  lines,      \* the calls of readline() that returned
  sent,       \* history: how often each signal was sent to the process
  got,        \* history: how often the application, or the screen, had it
  stale,      \* history: is caught a signal older than the key last read?
  again       \* history: was the terminal prepared again while being restored?

vars == <<handled, caught, raw, installed, ttou, frames, pc, done, dead, lines,
          sent, got, stale, again>>

None == "none"

\* A signal being handled: the step to take, and the mask saved before.
Frame == [sig : Signal, ttou : BOOLEAN,
          step : {"forget", "cleanup", "clear", "resend", "prep", "set"}]

Places == {"app", "set", "check", "select", "interrupted", "checkKey",
           "command", "checkCommand", "teardown", "deprep", "clear"}

Top == Last(frames)
GoOn(step) == [frames EXCEPT ![Len(frames)].step = step]

\* RL_CHECK_SIGNALS: the signal caught is to be handled, before anything else.
Taken(fs) ==
  IF caught = None THEN fs
  ELSE Append(fs, [sig |-> caught, ttou |-> FALSE, step |-> "forget"])

-----------------------------------------------------------------------------
(* Signals that come *)

Total(count) == MapThenSumSet(LAMBDA s : count[s], Signal)

\* What a signal does that readline's handlers do not catch.
Reaches(sig, how) ==
  /\ got' = [got EXCEPT ![sig] = @ + 1]
  /\ dead' = IF sig \in handled \cup {"TSTP", "WINCH"} THEN dead ELSE how

\* rl_signal_handler and rl_sigwinch_handler, or the application's disposition.
\* A signal caught ends the wait for a key.
Send ==
  /\ dead = None /\ Total(sent) < MaxSignals
  /\ \E sig \in Signal :
       /\ sent' = [sent EXCEPT ![sig] = @ + 1]
       /\ IF installed
            THEN /\ caught' = sig
                 /\ pc' = IF pc = "select" /\ frames = <<>> THEN "interrupted" ELSE pc
                 /\ UNCHANGED <<got, dead>>
            ELSE /\ Reaches(sig, "direct")
                 /\ UNCHANGED <<caught, pc>>
  /\ UNCHANGED <<handled, raw, installed, ttou, frames, done, lines, stale, again>>

-----------------------------------------------------------------------------
(* Handling a signal: _rl_signal_handler and _rl_handle_signal *)

Step(step) == dead = None /\ frames # <<>> /\ Top.step = step

\* Mutated form: the signal is still noted when it has been handled.
StillCaught(c) == c

\* What _rl_caught_signal is after it has been taken.
Forgotten(c) == None

\* _rl_caught_signal is set to zero after it was read; SIGWINCH only resizes.
Forget ==
  /\ Step("forget")
  /\ caught' = Forgotten(caught)
  /\ stale' = FALSE
  /\ IF Top.sig = "WINCH"
       THEN /\ frames' = Front(frames)
            /\ got' = [got EXCEPT !["WINCH"] = @ + 1]
       ELSE frames' = GoOn("cleanup") /\ UNCHANGED got
  /\ UNCHANGED <<handled, raw, installed, ttou, pc, done, dead, lines, sent, again>>

\* rl_deprep_terminal, from rl_cleanup_after_signal: SIGTTOU is blocked for
\* some signals, and signals are looked at once the terminal is back.
Cleanup ==
  /\ Step("cleanup")
  /\ LET left == [frames EXCEPT ![Len(frames)].step = "clear",
                                ![Len(frames)].ttou = ttou]
     IN  frames' = IF raw THEN Taken(left) ELSE left
  /\ ttou' = (ttou \/ Top.sig \in Blocking)
  /\ raw' = FALSE
  /\ UNCHANGED <<handled, caught, installed, pc, done, dead, lines, sent, got,
                 stale, again>>

\* rl_clear_signals, and then the signals of the mask saved are unblocked.
Clear ==
  /\ Step("clear")
  /\ installed' = FALSE
  /\ ttou' = IF Top.sig \in Blocking /\ Top.ttou THEN FALSE ELSE ttou
  /\ frames' = GoOn("resend")
  /\ UNCHANGED <<handled, caught, raw, pc, done, dead, lines, sent, got, stale, again>>

\* kill(getpid(), sig).
Resend ==
  /\ Step("resend")
  /\ Reaches(Top.sig, "resent")
  /\ frames' = GoOn("prep")
  /\ UNCHANGED <<handled, caught, raw, installed, ttou, pc, done, lines, sent,
                 stale, again>>

\* Is another function restoring the terminal, and yet to clear the signals?
Restoring == pc = "clear" \/ \E k \in 1 .. Len(frames) - 1 : frames[k].step = "clear"

\* rl_prep_terminal, from rl_reset_after_signal.
Prep ==
  /\ Step("prep")
  /\ frames' = IF raw THEN GoOn("set") ELSE Taken(GoOn("set"))
  /\ raw' = TRUE
  /\ again' = (again \/ Restoring)
  /\ UNCHANGED <<handled, caught, installed, ttou, pc, done, dead, lines, sent,
                 got, stale>>

\* Mutated form: handling ends only when no other signal has come meanwhile.
EndWhenQuiet(fs) == IF caught = None THEN Front(fs) ELSE fs

\* The handling of the innermost signal ends.
Ended(fs) == Front(fs)

\* What rl_set_signals makes of signals_set_flag.
Installed == TRUE

\* rl_set_signals, and back to where the signal was looked at.
SetAgain ==
  /\ Step("set")
  /\ installed' = Installed
  /\ frames' = Ended(frames)
  /\ UNCHANGED <<handled, caught, raw, ttou, pc, done, dead, lines, sent, got,
                 stale, again>>

Handle == Forget \/ Cleanup \/ Clear \/ Resend \/ Prep \/ SetAgain

-----------------------------------------------------------------------------
(* readline() *)

At(place) == dead = None /\ frames = <<>> /\ pc = place

\* Go to a place, looking at the signals on the way.
CheckAndGo(place) == frames' = Taken(frames) /\ pc' = place

Call ==
  /\ At("app") /\ lines < MaxLines
  /\ frames' = IF raw THEN frames ELSE Taken(frames)
  /\ pc' = "set"
  /\ raw' = TRUE /\ done' = FALSE
  /\ UNCHANGED <<handled, caught, installed, ttou, dead, lines, sent, got, stale,
                 again>>

SetSignals ==
  /\ At("set")
  /\ installed' = Installed /\ pc' = "check"
  /\ UNCHANGED <<handled, caught, raw, ttou, frames, done, dead, lines, sent, got,
                 stale, again>>

\* The end of readline_internal_setup, and the top of the loop of rl_getc.
CheckBeforeKey ==
  /\ At("check")
  /\ CheckAndGo("select")
  /\ UNCHANGED <<handled, caught, raw, installed, ttou, done, dead, lines, sent,
                 got, stale, again>>

\* pselect and read return a key.
Key ==
  /\ At("select")
  /\ stale' = (caught # None)
  /\ pc' = "checkKey"
  /\ UNCHANGED <<handled, caught, raw, installed, ttou, frames, done, dead, lines,
                 sent, got, again>>

\* pselect was interrupted: SIGHUP and SIGTERM end the line, others are looked
\* at and the wait begins again.
Interrupted ==
  /\ At("interrupted")
  /\ IF caught \in {"HUP", "TERM"}
       THEN pc' = "checkKey" /\ done' = TRUE /\ UNCHANGED frames
       ELSE CheckAndGo("check") /\ UNCHANGED done
  /\ UNCHANGED <<handled, caught, raw, installed, ttou, dead, lines, sent, got,
                 stale, again>>

\* rl_read_key looks at the signals once rl_getc has returned.
LookedAt(fs) == Taken(fs)

CheckKey ==
  /\ At("checkKey")
  /\ frames' = LookedAt(frames)
  /\ pc' = IF done THEN "teardown" ELSE "command"
  /\ UNCHANGED <<handled, caught, raw, installed, ttou, done, dead, lines, sent,
                 got, stale, again>>

\* The command of the key, which may be accept-line.
Command ==
  /\ At("command")
  /\ done' \in BOOLEAN
  /\ pc' = "checkCommand"
  /\ UNCHANGED <<handled, caught, raw, installed, ttou, frames, dead, lines, sent,
                 got, stale, again>>

CheckCommand ==
  /\ At("checkCommand")
  /\ CheckAndGo(IF done THEN "teardown" ELSE "check")
  /\ UNCHANGED <<handled, caught, raw, installed, ttou, done, dead, lines, sent,
                 got, stale, again>>

\* readline_internal_teardown begins by looking at the signals.
Teardown ==
  /\ At("teardown")
  /\ CheckAndGo("deprep")
  /\ UNCHANGED <<handled, caught, raw, installed, ttou, done, dead, lines, sent,
                 got, stale, again>>

\* Mutated form: the terminal is left alone when a signal ended the line.
RestoredUnlessSignal == raw /\ caught # None

\* The mode rl_deprep_terminal leaves.
Restored == FALSE

Deprep ==
  /\ At("deprep")
  /\ raw' = Restored
  /\ frames' = IF raw THEN Taken(frames) ELSE frames
  /\ pc' = "clear"
  /\ UNCHANGED <<handled, caught, installed, ttou, done, dead, lines, sent, got,
                 stale, again>>

\* Mutated form: a signal noted too late is forgotten.
CaughtForgotten(c) == None

\* What rl_clear_signals leaves of the signal noted since the last look.
LeftOver(c) == c

\* rl_clear_signals, and readline() returns.
Return ==
  /\ At("clear")
  /\ caught' = LeftOver(caught)
  /\ installed' = FALSE /\ pc' = "app" /\ lines' = lines + 1
  /\ UNCHANGED <<handled, raw, ttou, frames, done, dead, sent, got, stale, again>>

\* The steps readline() takes by itself; Key waits for the keyboard.
Running ==
  \/ SetSignals \/ CheckBeforeKey \/ Interrupted \/ CheckKey
  \/ Command \/ CheckCommand \/ Teardown \/ Deprep \/ Return

Init ==
  /\ handled \in SUBSET (Signal \ {"WINCH"})
  /\ caught = None /\ raw = FALSE /\ installed = FALSE /\ ttou = FALSE
  /\ frames = <<>> /\ pc = "app" /\ done = FALSE /\ dead = None /\ lines = 0
  /\ sent = [s \in Signal |-> 0] /\ got = [s \in Signal |-> 0]
  /\ stale = FALSE /\ again = FALSE

Next == Send \/ Handle \/ Call \/ Key \/ Running

\* The process runs; nobody has to type, to send signals or to ask for a line.
Spec == Init /\ [][Next]_vars /\ WF_vars(Handle) /\ WF_vars(Running)

-----------------------------------------------------------------------------
(* Properties *)

TypeOK ==
  /\ handled \subseteq Signal
  /\ caught \in Signal \cup {None}
  /\ raw \in BOOLEAN /\ installed \in BOOLEAN /\ ttou \in BOOLEAN
  /\ frames \in Seq(Frame)
  /\ pc \in Places /\ done \in BOOLEAN /\ dead \in {None, "direct", "resent"}
  /\ lines \in 0 .. MaxLines
  /\ sent \in [Signal -> Nat] /\ got \in [Signal -> Nat]
  /\ stale \in BOOLEAN /\ again \in BOOLEAN

\* The steps that come before the signal is given to the application.
Owing == {"forget", "cleanup", "clear", "resend"}

\* Which of some signals being handled, and how many of those that are, the
\* application is still to have.
OwedIn(fs, sig) == {k \in DOMAIN fs : fs[k].sig = sig /\ fs[k].step \in Owing}
Owed(sig) == Cardinality(OwedIn(frames, sig))

\* Handling one signal inside another gives no signal to the application more
\* often than it was sent: _rl_caught_signal is forgotten before the rest.
ResentOnce == \A sig \in Signal : got[sig] + Owed(sig) <= sent[sig]

\* A signal that is the only one is never lost, whenever it comes: the
\* application has it, or it is noted or being handled. (Of two signals that
\* come together, the second may take the place of the first.)
Lone(sig) == sent[sig] = 1 /\ \A other \in Signal \ {sig} : sent[other] = 0
LoneSignalArrives ==
  \A sig \in Signal : Lone(sig) => got[sig] = 1 \/ caught = sig \/ Owed(sig) = 1

\* Unless a signal was handled while the terminal was being restored, a process
\* that dies of a signal given to it again, and one that has its line, have the
\* terminal as it was before readline().
TerminalRestored ==
  ~again =>
    /\ dead = "resent" => ~raw
    /\ pc = "app" /\ frames = <<>> => ~raw /\ ~installed

\* While a key is waited for, the terminal is in readline's mode and readline's
\* handlers are installed, however many signals were handled before, and inside
\* one another.
ReadyForKey == pc = "select" /\ frames = <<>> => raw /\ installed

\* A signal that came before the key was read is handled before the command of
\* the key runs: rl_read_key looks once more when rl_getc returns.
HandledBeforeCommand == pc = "command" /\ frames = <<>> => ~stale

\* The state of the handlers and of the terminal fits the place readline is at.
SignalInvariant == TypeOK /\ ResentOnce /\ ReadyForKey /\ HandledBeforeCommand

\* A signal caught is taken, unless a key is being waited for or readline() has
\* returned: no signal stays noted while lines are edited.
CaughtIsTaken ==
  caught # None ~> caught = None \/ pc \in {"select", "app"} \/ dead # None

=============================================================================
