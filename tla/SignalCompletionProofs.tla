---------------------- MODULE SignalCompletionProofs ----------------------
(***************************************************************************)
(* What is proved of RlSignals, for any signals, any number of them and    *)
(* any number of lines: SignalInvariant, LoneSignalArrives and             *)
(* TerminalRestored; and of Completion, which a signal may cut short, for  *)
(* any directories, lines and settings: CompletionInvariant and            *)
(* MenuComesBack.  None is inductive; what they rest on is said below of   *)
(* every state, also in the middle of nested handling, of reading and of   *)
(* listing.                                                                *)
(***************************************************************************)
EXTENDS RlSignals, Completion, FiniteSetTheorems, SequenceTheorems, WellFoundedInduction, TLAPS

-----------------------------------------------------------------------------
(* The inductive invariant *)

\* Is the innermost handling at its first step, where caught is still the
\* signal it was begun for, or a later one that will be forgotten with it?
Forgetting == frames # <<>> /\ frames[Len(frames)].step = "forget"

\* Handling goes on inside another handling only from the functions that clean
\* up and set up.
Nested == \A k \in 1 .. Len(frames) - 1 : frames[k].step \in {"clear", "set"}

\* readline() has been called, and less often than it may be.
InCall ==
  /\ pc = "app" => frames = <<>>
  /\ pc # "app" => lines < MaxLines

\* Every signal sent is accounted for at most once, every one being handled was
\* sent, and a signal that is the only one is accounted for.
Noted(sig) == IF caught = sig /\ ~Forgetting THEN 1 ELSE 0
Accounted(sig) == got[sig] + Owed(sig) + Noted(sig)
Counted ==
  /\ \A sig \in Signal : Accounted(sig) <= sent[sig]
  /\ \A k \in 1 .. Len(frames) : sent[frames[k].sig] >= 1
  /\ \A sig \in Signal : Lone(sig) => Accounted(sig) = 1

\* Nothing is being handled, or handling has just begun.
Outside == frames = <<>> \/ (Len(frames) = 1 /\ frames[1].step = "forget")

\* Handling that ends leaves the terminal prepared and the handlers installed.
Ready ==
  /\ \A k \in 1 .. Len(frames) :
       frames[k].step = "set" /\ (k = Len(frames) \/ (k + 1 = Len(frames) /\ Forgetting)) => raw
  /\ Outside /\ pc \notin {"app", "clear"} => raw
  /\ Outside /\ pc \notin {"app", "clear", "set"} => installed

\* A signal older than the key is noted until it is being handled.
Fresh ==
  /\ stale => caught # None
  /\ stale /\ pc = "command" => Len(frames) = 1 /\ frames[1].step = "forget"

\* While the terminal was not prepared again behind the back of a function that
\* restores it, what was restored is still restored.
Restoration ==
  ~again =>
    /\ Restoring => ~raw
    /\ frames # <<>> /\ frames[Len(frames)].step \in {"clear", "resend", "prep"} => ~raw
    /\ pc = "clear" => \A k \in 1 .. Len(frames) : frames[k].step # "set"
    /\ \A j, k \in 1 .. Len(frames) : j < k /\ frames[j].step = "clear" => frames[k].step # "set"
    /\ dead = "resent" => ~raw
    /\ pc = "app" => ~raw /\ ~installed

IInv == TypeOK /\ Nested /\ InCall /\ Counted /\ Ready /\ Fresh /\ Restoration

-----------------------------------------------------------------------------
(* Frames *)

\* The names of signals are not the mark for none.
LEMMA NoneIsNoSignal == None \notin Signal
BY RlSignalsAssumption DEF Blocking, None

\* What RL_CHECK_SIGNALS begins with: the signal caught.
Begun == [sig |-> caught, ttou |-> FALSE, step |-> "forget"]

\* RL_CHECK_SIGNALS begins to handle the signal caught, if there is one, inside
\* whatever is being handled.
LEMMA TakenFacts ==
  ASSUME NEW fs \in Seq(Frame), caught \in Signal \cup {None}
  PROVE  /\ Taken(fs) \in Seq(Frame)
         /\ caught = None => Taken(fs) = fs
         /\ caught # None => /\ Len(Taken(fs)) = Len(fs) + 1
                             /\ Taken(fs)[Len(fs) + 1] = Begun
                             /\ \A k \in 1 .. Len(fs) : Taken(fs)[k] = fs[k]
<1>1. CASE caught = None
  BY <1>1 DEF Taken
<1>2. CASE caught # None
  <2>1. Begun \in Frame
    BY <1>2 DEF Begun, Frame
  <2> QED
    BY <1>2, <2>1 DEF Taken, Begun
<1> QED
  BY <1>1, <1>2

\* Ending the innermost handling leaves those around it.
LEMMA FrontFacts ==
  ASSUME NEW fs \in Seq(Frame), fs # <<>>
  PROVE  /\ Front(fs) \in Seq(Frame)
         /\ Len(Front(fs)) = Len(fs) - 1
         /\ \A k \in 1 .. Len(fs) - 1 : Front(fs)[k] = fs[k]
<1>1. Len(fs) \in Nat /\ Len(fs) >= 1
  OBVIOUS
<1>2. Front(fs) = [k \in 1 .. Len(fs) - 1 |-> fs[k]]
  BY <1>1 DEF Front
<1>3. \A k \in 1 .. Len(fs) - 1 : fs[k] \in Frame
  BY <1>1
<1> QED
  BY <1>1, <1>2, <1>3

\* A step of the innermost handling changes neither its signal nor those around.
Moved(gs, step) ==
  /\ gs \in Seq(Frame) /\ Len(gs) = Len(frames)
  /\ gs[Len(frames)].step = step /\ gs[Len(frames)].sig = frames[Len(frames)].sig
  /\ \A k \in 1 .. Len(frames) - 1 : gs[k] = frames[k]

\* The innermost handling is one of a signal.
LEMMA TopFacts ==
  ASSUME frames \in Seq(Frame), frames # <<>>
  PROVE  /\ Len(frames) \in 1 .. Len(frames) /\ frames[Len(frames)] \in Frame
         /\ frames[Len(frames)].sig \in Signal /\ Top = frames[Len(frames)]
<1>1. Len(frames) \in 1 .. Len(frames)
  OBVIOUS
<1>2. frames[Len(frames)] \in Frame
  BY <1>1
<1> QED
  BY <1>1, <1>2 DEF Frame, Top, Last

\* Going on to a step is such a step.
LEMMA GoOnFacts ==
  ASSUME frames \in Seq(Frame), frames # <<>>,
         NEW step \in {"forget", "cleanup", "clear", "resend", "prep", "set"}
  PROVE  Moved(GoOn(step), step)
<1>1. Len(frames) \in 1 .. Len(frames) /\ frames[Len(frames)] \in Frame
  OBVIOUS
<1>2. [frames[Len(frames)] EXCEPT !.step = step] \in Frame
  BY <1>1 DEF Frame
<1> QED
  BY <1>1, <1>2 DEF GoOn, Frame, Moved

\* So is cleaning up, which saves the mask too.
LEMMA CleanupFacts ==
  ASSUME TypeOK, Cleanup
  PROVE  \E gs : Moved(gs, "clear") /\ frames' = IF raw THEN Taken(gs) ELSE gs
<1> DEFINE top == [frames[Len(frames)] EXCEPT !.step = "clear", !.ttou = ttou]
           gs == [frames EXCEPT ![Len(frames)].step = "clear", ![Len(frames)].ttou = ttou]
<1>1. /\ frames \in Seq(Frame) /\ ttou \in BOOLEAN
      /\ Len(frames) \in 1 .. Len(frames) /\ frames[Len(frames)] \in Frame
  BY DEF TypeOK, Cleanup, Step
<1>2. top \in Frame /\ top.step = "clear" /\ top.sig = frames[Len(frames)].sig
  BY <1>1 DEF Frame
<1>3. gs = [frames EXCEPT ![Len(frames)] = top]
  BY <1>1
<1> HIDE DEF top, gs
<1>4. Moved(gs, "clear")
  BY <1>1, <1>2, <1>3 DEF Moved
<1>5. frames' = IF raw THEN Taken(gs) ELSE gs
  BY DEF Cleanup, gs
<1> QED
  BY <1>4, <1>5

-----------------------------------------------------------------------------
(* How many signals are owed *)

\* What one handling counts for.
One(frame, sig) == IF frame.sig = sig /\ frame.step \in Owing THEN 1 ELSE 0

\* The handlings that owe the application a signal can be counted.
LEMMA OwedFinite ==
  ASSUME NEW fs \in Seq(Frame), NEW sig
  PROVE  IsFiniteSet(OwedIn(fs, sig)) /\ Cardinality(OwedIn(fs, sig)) \in Nat
<1>1. IsFiniteSet(1 .. Len(fs))
  BY FS_Interval
<1>2. OwedIn(fs, sig) \in SUBSET (1 .. Len(fs))
  BY DEF OwedIn
<1> QED
  BY <1>1, <1>2, FS_Subset, FS_CardinalityType

\* The innermost handling adds what it counts for to those around it.
LEMMA OwedLast ==
  ASSUME NEW fs \in Seq(Frame), fs # <<>>, NEW gs \in Seq(Frame), NEW sig,
         Len(gs) = Len(fs) - 1, \A k \in 1 .. Len(gs) : gs[k] = fs[k]
  PROVE  Cardinality(OwedIn(fs, sig))
           = Cardinality(OwedIn(gs, sig)) + One(fs[Len(fs)], sig)
<1>1. CASE One(fs[Len(fs)], sig) = 1
  <2>1. Len(fs) \notin OwedIn(gs, sig) /\ OwedIn(fs, sig) = OwedIn(gs, sig) \cup {Len(fs)}
    BY <1>1 DEF One, OwedIn
  <2> QED
    BY <1>1, <2>1, OwedFinite, FS_AddElement
<1>2. CASE One(fs[Len(fs)], sig) = 0
  <2>1. OwedIn(fs, sig) = OwedIn(gs, sig)
    BY <1>2 DEF One, OwedIn
  <2> QED
    BY <1>2, <2>1, OwedFinite
<1> QED
  BY <1>1, <1>2 DEF One

\* A step of the innermost handling changes what it alone counts for.
LEMMA OwedMoved ==
  ASSUME NEW fs \in Seq(Frame), fs # <<>>, NEW gs \in Seq(Frame), NEW sig,
         Len(gs) = Len(fs), \A k \in 1 .. Len(fs) - 1 : gs[k] = fs[k]
  PROVE  Cardinality(OwedIn(gs, sig)) + One(fs[Len(fs)], sig)
           = Cardinality(OwedIn(fs, sig)) + One(gs[Len(fs)], sig)
<1> DEFINE below == Front(fs)
<1>1. /\ below \in Seq(Frame) /\ Len(below) = Len(fs) - 1
      /\ \A k \in 1 .. Len(below) : below[k] = fs[k] /\ below[k] = gs[k]
  BY FrontFacts
<1>2. gs # <<>>
  OBVIOUS
<1> HIDE DEF below
<1>3. Cardinality(OwedIn(fs, sig)) = Cardinality(OwedIn(below, sig)) + One(fs[Len(fs)], sig)
  BY <1>1, OwedLast
<1>4. Cardinality(OwedIn(gs, sig)) = Cardinality(OwedIn(below, sig)) + One(gs[Len(gs)], sig)
  BY <1>1, <1>2, OwedLast
<1>5. /\ Cardinality(OwedIn(below, sig)) \in Nat
      /\ One(fs[Len(fs)], sig) \in Nat /\ One(gs[Len(gs)], sig) \in Nat
  BY <1>1, OwedFinite DEF One
<1> QED
  BY <1>3, <1>4, <1>5

-----------------------------------------------------------------------------
(* Types *)

\* Every step keeps the types; what holds of the frames of Taken is above.
LEMMA TypeStep == TypeOK /\ InCall /\ [Next]_vars => TypeOK'
<1> SUFFICES ASSUME TypeOK, InCall, [Next]_vars PROVE TypeOK'
  OBVIOUS
<1>1. /\ frames \in Seq(Frame) /\ caught \in Signal \cup {None} /\ MaxLines \in Nat
      /\ None \notin Signal
  BY NoneIsNoSignal, RlSignalsAssumption DEF TypeOK
<1>2. Taken(frames) \in Seq(Frame)
  BY <1>1, TakenFacts
<1>3. \A gs, step : Moved(gs, step) => gs \in Seq(Frame) /\ Taken(gs) \in Seq(Frame)
  BY <1>1, TakenFacts DEF Moved
<1>4. CASE Send
  <2>1. PICK sig \in Signal :
          /\ sent' = [sent EXCEPT ![sig] = @ + 1]
          /\ IF installed THEN caught' = sig /\ (pc' = "interrupted" \/ pc' = pc) /\ UNCHANGED <<got, dead>>
             ELSE Reaches(sig, "direct") /\ UNCHANGED <<caught, pc>>
    BY <1>4 DEF Send
  <2>2. sent' \in [Signal -> Nat]
    BY <2>1 DEF TypeOK
  <2>3. caught' \in Signal \cup {None} /\ pc' \in Places
    BY <2>1 DEF TypeOK, Places
  <2>4. got' \in [Signal -> Nat] /\ dead' \in {None, "direct", "resent"}
    <3>1. CASE installed
      BY <2>1, <3>1 DEF TypeOK
    <3>2. CASE ~installed
      <4>1. got' \in [Signal -> Nat]
        BY <2>1, <3>2 DEF TypeOK, Reaches
      <4>2. dead' \in {None, "direct", "resent"}
        BY <2>1, <3>2 DEF TypeOK, Reaches
      <4> QED
        BY <4>1, <4>2
    <3> QED
      BY <3>1, <3>2
  <2> QED
    BY <1>4, <2>2, <2>3, <2>4 DEF Send, TypeOK
<1>5. CASE Forget
  <2>1. frames # <<>> /\ Top.sig \in Signal
    BY <1>1, <1>5, TopFacts DEF Forget, Step
  <2>2. Front(frames) \in Seq(Frame) /\ Moved(GoOn("cleanup"), "cleanup")
    BY <1>1, <2>1, FrontFacts, GoOnFacts
  <2>3. frames' \in Seq(Frame)
    BY <1>3, <1>5, <2>2 DEF Forget
  <2>4. got' \in [Signal -> Nat]
    <3>1. CASE Top.sig = "WINCH"
      BY <1>5, <2>1, <3>1 DEF Forget, TypeOK
    <3>2. CASE Top.sig # "WINCH"
      BY <1>5, <3>2 DEF Forget, TypeOK
    <3> QED
      BY <3>1, <3>2
  <2> QED
    BY <1>5, <2>3, <2>4 DEF Forget, Forgotten, TypeOK
<1>6. CASE Cleanup
  <2>1. frames' \in Seq(Frame)
    BY <1>3, <1>6, CleanupFacts
  <2>2. (ttou \/ Top.sig \in Blocking) \in BOOLEAN
    OBVIOUS
  <2> QED
    BY <1>6, <2>1, <2>2 DEF Cleanup, TypeOK
<1>7. CASE Clear
  <2>1. frames' \in Seq(Frame)
    BY <1>1, <1>3, <1>7, GoOnFacts DEF Clear, Step
  <2> QED
    BY <1>7, <2>1 DEF Clear, TypeOK
<1>8. CASE Resend
  <2>1. frames' \in Seq(Frame)
    BY <1>1, <1>3, <1>8, GoOnFacts DEF Resend, Step
  <2>2. frames # <<>> /\ Top.sig \in Signal
    BY <1>1, <1>8, TopFacts DEF Resend, Step
  <2>3. got' \in [Signal -> Nat] /\ dead' \in {None, "direct", "resent"}
    BY <1>8, <2>2 DEF Resend, Reaches, TypeOK
  <2> QED
    BY <1>8, <2>1, <2>3 DEF Resend, TypeOK
<1>9. CASE Prep
  <2>1. frames' \in Seq(Frame)
    BY <1>1, <1>3, <1>9, GoOnFacts DEF Prep, Step
  <2>2. (again \/ Restoring) \in BOOLEAN
    OBVIOUS
  <2> QED
    BY <1>9, <2>1, <2>2 DEF Prep, TypeOK
<1>10. CASE SetAgain
  <2>1. frames' \in Seq(Frame)
    BY <1>1, <1>10, FrontFacts DEF SetAgain, Ended, Step
  <2> QED
    BY <1>10, <2>1 DEF SetAgain, Installed, TypeOK
<1>11. CASE Call
  BY <1>1, <1>2, <1>11 DEF Call, At, TypeOK, Places
<1>12. CASE SetSignals
  BY <1>12 DEF SetSignals, Installed, At, TypeOK, Places
<1>13. CASE CheckBeforeKey
  BY <1>2, <1>13 DEF CheckBeforeKey, CheckAndGo, At, TypeOK, Places
<1>14. CASE Key
  BY <1>14 DEF Key, At, TypeOK, Places
<1>15. CASE Interrupted
  BY <1>2, <1>15 DEF Interrupted, CheckAndGo, At, TypeOK, Places
<1>16. CASE CheckKey
  BY <1>2, <1>16 DEF CheckKey, LookedAt, At, TypeOK, Places
<1>17. CASE Command
  BY <1>17 DEF Command, At, TypeOK, Places
<1>18. CASE CheckCommand
  BY <1>2, <1>18 DEF CheckCommand, CheckAndGo, At, TypeOK, Places
<1>19. CASE Teardown
  BY <1>2, <1>19 DEF Teardown, CheckAndGo, At, TypeOK, Places
<1>20. CASE Deprep
  BY <1>2, <1>20 DEF Deprep, Restored, At, TypeOK, Places
<1>21. CASE Return
  <2>1. lines < MaxLines
    BY <1>21 DEF Return, At, InCall
  <2>2. lines' \in 0 .. MaxLines
    BY <1>1, <1>21, <2>1 DEF Return, TypeOK
  <2> QED
    BY <1>21, <2>2 DEF Return, LeftOver, TypeOK, Places
<1>22. CASE UNCHANGED vars
  BY <1>22 DEF vars, TypeOK
<1> QED
  BY <1>4, <1>5, <1>6, <1>7, <1>8, <1>9, <1>10, <1>11, <1>12, <1>13, <1>14, <1>15,
     <1>16, <1>17, <1>18, <1>19, <1>20, <1>21, <1>22 DEF Next, Handle, Running

-----------------------------------------------------------------------------
(* How the frames change *)

\* The innermost handling ends.
Popped ==
  /\ frames' \in Seq(Frame) /\ Len(frames') = Len(frames) - 1
  /\ \A k \in 1 .. Len(frames') : frames'[k] = frames[k]

\* The signal caught begins to be handled inside some others.
Pushed(gs) ==
  /\ caught \in Signal
  /\ frames' \in Seq(Frame) /\ Len(frames') = Len(gs) + 1
  /\ frames'[Len(frames')] = Begun
  /\ \A k \in 1 .. Len(gs) : frames'[k] = gs[k]

\* What looking at the signals makes of the frames.
LEMMA LookFacts ==
  ASSUME TypeOK, NEW gs \in Seq(Frame), frames' = Taken(gs)
  PROVE  IF caught = None THEN frames' = gs ELSE Pushed(gs)
BY TakenFacts DEF TypeOK, Pushed

\* What each step of handling makes of the frames.
LEMMA ForgetFrames == ASSUME TypeOK, Forget PROVE IF Top.sig = "WINCH" THEN Popped ELSE Moved(frames', "cleanup")
BY FrontFacts, GoOnFacts DEF TypeOK, Forget, Step, Popped

\* Cleaning up ends with a look at the signals.
LEMMA CleanupFrames ==
  ASSUME TypeOK, Cleanup
  PROVE  \E gs : Moved(gs, "clear") /\ (frames' = gs \/ Pushed(gs))
<1>1. PICK gs : Moved(gs, "clear") /\ frames' = IF raw THEN Taken(gs) ELSE gs
  BY CleanupFacts
<1> QED
  BY <1>1, LookFacts DEF Moved

\* Clearing the signals, giving the signal on, and ending look at nothing.
LEMMA ClearFrames == ASSUME TypeOK, Clear PROVE Moved(frames', "resend")
BY GoOnFacts DEF TypeOK, Clear, Step

\* Giving the signal to the application is one step of its handling.
LEMMA ResendFrames == ASSUME TypeOK, Resend PROVE Moved(frames', "prep")
BY GoOnFacts DEF TypeOK, Resend, Step

\* Preparing the terminal ends with a look at the signals.
LEMMA PrepFrames ==
  ASSUME TypeOK, Prep
  PROVE  \E gs : Moved(gs, "set") /\ (frames' = gs \/ Pushed(gs))
<1>1. Moved(GoOn("set"), "set")
  BY GoOnFacts DEF TypeOK, Prep, Step
<1>2. frames' = GoOn("set") \/ frames' = Taken(GoOn("set"))
  BY DEF Prep
<1> QED
  BY <1>1, <1>2, LookFacts DEF Moved

\* Setting the handlers again ends the handling.
LEMMA SetAgainFrames == ASSUME TypeOK, SetAgain PROVE Popped
BY FrontFacts DEF TypeOK, SetAgain, Ended, Step, Popped

\* readline() goes on when nothing is being handled, and may look at the signals.
LEMMA ReadlineFrames ==
  ASSUME TypeOK, Call \/ Key \/ Running
  PROVE  frames = <<>> /\ (frames' = <<>> \/ Pushed(<<>>))
<1>1. frames = <<>> /\ (frames' = frames \/ frames' = Taken(frames))
  BY DEF Running, Call, Key, SetSignals, CheckBeforeKey, Interrupted, CheckKey, Command,
         CheckCommand, Teardown, Deprep, Return, CheckAndGo, LookedAt, At
<1> QED
  BY <1>1, LookFacts DEF TypeOK

-----------------------------------------------------------------------------
(* What goes on inside what *)

\* Handling is nested only where functions look at the signals.
LEMMA NestedStep == TypeOK /\ Nested /\ [Next]_vars => Nested'
<1> SUFFICES ASSUME TypeOK, Nested, [Next]_vars PROVE Nested'
  OBVIOUS
<1> USE DEF Nested
<1>1. frames \in Seq(Frame)
  BY DEF TypeOK
<1>2. CASE Send \/ UNCHANGED vars
  BY <1>2 DEF Send, vars
<1>3. CASE Forget
  BY <1>1, <1>3, ForgetFrames DEF Popped, Moved
<1>4. CASE Cleanup
  BY <1>1, <1>4, CleanupFrames DEF Pushed, Moved
<1>5. CASE Clear
  BY <1>1, <1>5, ClearFrames DEF Moved
<1>6. CASE Resend
  BY <1>1, <1>6, ResendFrames DEF Moved
<1>7. CASE Prep
  BY <1>1, <1>7, PrepFrames DEF Pushed, Moved
<1>8. CASE SetAgain
  BY <1>1, <1>8, SetAgainFrames DEF Popped
<1>9. CASE Call \/ Key \/ Running
  BY <1>9, ReadlineFrames DEF Pushed
<1> QED
  BY <1>2, <1>3, <1>4, <1>5, <1>6, <1>7, <1>8, <1>9 DEF Next, Handle

\* readline() begins and returns when nothing is being handled.
LEMMA InCallStep == TypeOK /\ InCall /\ [Next]_vars => InCall'
<1> SUFFICES ASSUME TypeOK, InCall, [Next]_vars PROVE InCall'
  OBVIOUS
<1>1. CASE Send
  BY <1>1 DEF Send, InCall
<1>2. CASE UNCHANGED vars
  BY <1>2 DEF vars, InCall
<1>3. CASE Handle
  BY <1>3 DEF Handle, Forget, Cleanup, Clear, Resend, Prep, SetAgain, Step, InCall
<1>4. CASE Call \/ Key \/ Running
  BY <1>4 DEF Call, Key, Running, SetSignals, CheckBeforeKey, Interrupted, CheckKey,
              Command, CheckCommand, Teardown, Deprep, Return, CheckAndGo, At, InCall
<1> QED
  BY <1>1, <1>2, <1>3, <1>4 DEF Next

-----------------------------------------------------------------------------
(* The terminal and the handlers while keys are read *)

\* Whatever is handled, the terminal is prepared and the handlers are installed
\* when it ends.
LEMMA ReadyStep == TypeOK /\ Nested /\ InCall /\ Ready /\ [Next]_vars => Ready'
<1> SUFFICES ASSUME TypeOK, Nested, InCall, Ready, [Next]_vars PROVE Ready'
  OBVIOUS
<1> USE DEF Ready, Outside, Forgetting
<1>1. frames \in Seq(Frame)
  BY DEF TypeOK
<1>2. CASE Send
  BY <1>1, <1>2 DEF Send
<1>3. CASE UNCHANGED vars
  BY <1>3 DEF vars
<1>4. CASE Forget
  <2>1. Top = frames[Len(frames)] /\ Top.step = "forget" /\ UNCHANGED <<raw, installed, pc>>
    BY <1>1, <1>4, TopFacts DEF Forget, Step
  <2>2. CASE Popped
    <3>1. Len(frames) \in Nat \ {0} /\ frames[Len(frames)].step = "forget"
      BY <1>1, <1>4, <2>1 DEF Forget, Step
    <3>2. frames' # <<>> => frames'[Len(frames')].step \in {"clear", "set"}
      BY <2>2, <3>1 DEF Popped, Nested
    <3>3. Outside' => Outside
      BY <1>1, <2>2, <3>1, <3>2 DEF Popped
    <3>4. \A k \in 1 .. Len(frames') :
            frames'[k].step = "set" /\ (k = Len(frames') \/ (k + 1 = Len(frames') /\ Forgetting')) => raw
      BY <2>2, <3>1, <3>2 DEF Popped
    <3> HIDE DEF Outside, Forgetting
    <3> QED
      BY <2>1, <3>3, <3>4
  <2>3. CASE Moved(frames', "cleanup")
    BY <1>1, <2>1, <2>3 DEF Moved, Nested
  <2> QED
    BY <1>4, <2>2, <2>3, ForgetFrames
<1>5. CASE Cleanup
  <2>1. PICK gs : Moved(gs, "clear") /\ (frames' = gs \/ Pushed(gs))
    BY <1>5, CleanupFrames
  <2>2. frames # <<>> /\ UNCHANGED <<installed, pc>>
    BY <1>5 DEF Cleanup, Step
  <2>3. Len(frames) \in Nat \ {0} /\ frames'[Len(frames)].step = "clear"
    BY <1>1, <2>1, <2>2 DEF Moved, Pushed
  <2>4. CASE frames' = gs
    BY <2>1, <2>2, <2>3, <2>4 DEF Moved
  <2>5. CASE Pushed(gs)
    BY <2>1, <2>2, <2>3, <2>5 DEF Moved, Pushed, Begun
  <2> QED
    BY <2>1, <2>4, <2>5
<1>6. CASE Clear
  <2>1. Moved(frames', "resend")
    BY <1>6, ClearFrames
  <2>2. Len(frames) \in Nat \ {0} /\ UNCHANGED <<raw, pc>>
    BY <1>1, <1>6 DEF Clear, Step
  <2> QED
    BY <2>1, <2>2 DEF Moved
<1>7. CASE Resend
  BY <1>1, <1>7, ResendFrames DEF Resend, Step, Moved
<1>8. CASE Prep
  <2>1. PICK gs : Moved(gs, "set") /\ (frames' = gs \/ Pushed(gs))
    BY <1>8, PrepFrames
  <2>2. frames # <<>> /\ raw' = TRUE /\ UNCHANGED <<installed, pc>>
    BY <1>8 DEF Prep, Step
  <2>3. Len(frames) \in Nat \ {0} /\ frames'[Len(frames)].step = "set"
    BY <1>1, <2>1, <2>2 DEF Moved, Pushed
  <2>4. CASE frames' = gs
    BY <2>1, <2>2, <2>3, <2>4 DEF Moved
  <2>5. CASE Pushed(gs)
    BY <2>1, <2>2, <2>3, <2>5 DEF Moved, Pushed, Begun
  <2> QED
    BY <2>1, <2>4, <2>5
<1>9. CASE SetAgain
  <2>1. frames # <<>> /\ Top.step = "set" /\ Top = frames[Len(frames)]
        /\ installed' = TRUE /\ UNCHANGED <<raw, pc>>
    BY <1>1, <1>9, TopFacts DEF SetAgain, Step, Installed
  <2>2. raw
    BY <1>1, <2>1
  <2> QED
    BY <1>1, <1>9, <2>1, <2>2, SetAgainFrames DEF Popped
<1>10. CASE Call \/ Key \/ Running
  <2>1. frames = <<>> /\ (frames' = <<>> \/ Pushed(<<>>))
    BY <1>10, ReadlineFrames
  <2>2. \A k \in 1 .. Len(frames') : frames'[k].step # "set"
    BY <2>1 DEF Pushed, Begun
  <2>3. pc' \notin {"app", "clear"} => raw'
    BY <1>10, <2>1
    DEF Call, Key, Running, SetSignals, CheckBeforeKey, Interrupted, CheckKey, Command,
        CheckCommand, Teardown, Deprep, Return, CheckAndGo, At
  <2>4. pc' \notin {"app", "clear", "set"} => installed'
    BY <1>10, <2>1
    DEF Call, Key, Running, SetSignals, CheckBeforeKey, Interrupted, CheckKey, Command,
        CheckCommand, Teardown, Deprep, Return, CheckAndGo, At, Installed
  <2> QED
    BY <2>2, <2>3, <2>4
<1> QED
  BY <1>2, <1>3, <1>4, <1>5, <1>6, <1>7, <1>8, <1>9, <1>10 DEF Next, Handle

\* A stale signal is taken before the command of the key.
LEMMA FreshStep == TypeOK /\ Fresh /\ [Next]_vars => Fresh'
<1> SUFFICES ASSUME TypeOK, Fresh, [Next]_vars PROVE Fresh'
  OBVIOUS
<1> USE DEF Fresh
<1>1. frames \in Seq(Frame) /\ None \notin Signal
  BY NoneIsNoSignal DEF TypeOK
<1>2. CASE Send
  <2>1. caught' # caught => caught' # None
    BY <1>1, <1>2 DEF Send
  <2> QED
    BY <1>1, <1>2, <2>1 DEF Send
<1>3. CASE UNCHANGED vars
  BY <1>3 DEF vars
<1>4. CASE Forget
  BY <1>4 DEF Forget
<1>5. CASE Cleanup \/ Clear \/ Resend \/ Prep \/ SetAgain
  <2>1. frames # <<>> /\ frames[Len(frames)].step # "forget" /\ UNCHANGED <<stale, caught, pc>>
    BY <1>1, <1>5, TopFacts DEF Cleanup, Clear, Resend, Prep, SetAgain, Step
  <2> QED
    BY <1>1, <2>1
<1>6. CASE CheckKey
  <2>1. frames = <<>> /\ frames' = Taken(frames) /\ UNCHANGED <<stale, caught>>
    BY <1>6 DEF CheckKey, LookedAt, At
  <2>2. caught # None => Pushed(<<>>)
    BY <1>1, <2>1, LookFacts
  <2> QED
    BY <2>1, <2>2 DEF Pushed, Begun
<1>7. CASE Call \/ Key \/ Running
  <2>1. pc' = "command" => CheckKey
    BY <1>7 DEF Call, Key, Running, SetSignals, CheckBeforeKey, Interrupted, CheckKey, Command,
                CheckCommand, Teardown, Deprep, Return, CheckAndGo, At
  <2>2. stale' => caught' # None
    BY <1>7 DEF Call, Key, Running, SetSignals, CheckBeforeKey, Interrupted, CheckKey, Command,
                CheckCommand, Teardown, Deprep, Return, CheckAndGo, At, LeftOver
  <2> QED
    BY <1>6, <2>1, <2>2
<1> QED
  BY <1>2, <1>3, <1>4, <1>5, <1>7 DEF Next, Handle

-----------------------------------------------------------------------------
(* The terminal when the line ends or the process dies *)

\* What was restored stays restored, unless it is prepared again meanwhile.
LEMMA RestorationStep ==
  TypeOK /\ Nested /\ InCall /\ Restoration /\ [Next]_vars => Restoration'
<1> SUFFICES ASSUME TypeOK, Nested, InCall, Restoration, [Next]_vars, ~again' PROVE Restoration'
  BY DEF Restoration
<1> USE DEF Restoration
<1>1. frames \in Seq(Frame) /\ again \in BOOLEAN
  BY DEF TypeOK
<1>2. CASE Send
  <2>1. UNCHANGED <<frames, raw, installed, again>>
    BY <1>2 DEF Send
  <2>2. pc' = pc \/ (pc = "select" /\ pc' = "interrupted")
    BY <1>2 DEF Send
  <2>3. dead' # "resent"
    BY <1>2 DEF Send, Reaches, None
  <2> QED
    BY <2>1, <2>2, <2>3 DEF Restoring
<1>3. CASE UNCHANGED vars
  BY <1>3 DEF vars, Restoring
<1>4. ~again
  BY <1>1, <1>2, <1>3
  DEF Next, Handle, Running, Send, Forget, Cleanup, Clear, Resend, Prep, SetAgain, Call, Key,
      SetSignals, CheckBeforeKey, Interrupted, CheckKey, Command, CheckCommand, Teardown,
      Deprep, Return, vars
<1>5. CASE Handle
  <2>1. /\ dead = None /\ frames # <<>> /\ pc' = pc /\ pc # "app"
        /\ Len(frames) \in Nat \ {0} /\ Top = frames[Len(frames)]
    <3>1. dead = None /\ frames # <<>> /\ pc' = pc
      BY <1>5 DEF Handle, Forget, Cleanup, Clear, Resend, Prep, SetAgain, Step
    <3> QED
      BY <1>1, <3>1, TopFacts DEF InCall
  <2>2. CASE Forget
    <3>1. Top.step = "forget" /\ UNCHANGED <<raw, dead>>
      BY <2>2 DEF Forget, Step
    <3>2. CASE Popped
      <4>1. frames' # <<>> => frames'[Len(frames')].step \in {"clear", "set"}
        BY <2>1, <3>2 DEF Popped, Nested
      <4>2. frames' # <<>> /\ frames'[Len(frames')].step = "clear" => Restoring
        BY <2>1, <3>2 DEF Popped, Restoring
      <4>3. Restoring' => Restoring
        BY <2>1, <3>2 DEF Popped, Restoring
      <4>4. /\ pc = "clear" => \A k \in 1 .. Len(frames') : frames'[k].step # "set"
            /\ \A j, k \in 1 .. Len(frames') :
                 j < k /\ frames'[j].step = "clear" => frames'[k].step # "set"
        BY <1>4, <2>1, <3>2 DEF Popped
      <4> QED
        BY <1>4, <2>1, <3>1, <4>1, <4>2, <4>3, <4>4 DEF None
    <3>3. CASE Moved(frames', "cleanup")
      BY <1>4, <2>1, <3>1, <3>3 DEF Moved, Restoring, None
    <3> QED
      BY <2>2, <3>2, <3>3, ForgetFrames
  <2>3. CASE Cleanup
    <3>1. PICK gs : Moved(gs, "clear") /\ (frames' = gs \/ Pushed(gs))
      BY <2>3, CleanupFrames
    <3>2. raw' = FALSE /\ dead' = dead
      BY <2>3 DEF Cleanup
    <3>3. CASE frames' = gs
      BY <1>4, <2>1, <3>1, <3>2, <3>3 DEF Moved, None
    <3>4. CASE Pushed(gs)
      <4>1. /\ Len(frames') = Len(frames) + 1 /\ frames'[Len(frames) + 1].step = "forget"
            /\ frames'[Len(frames)].step = "clear"
            /\ \A k \in 1 .. Len(frames) - 1 : frames'[k].step = frames[k].step
        BY <2>1, <3>1, <3>4 DEF Moved, Pushed, Begun
      <4>2. \A k \in 1 .. Len(frames) + 1 :
              k \in 1 .. Len(frames) - 1 \/ k = Len(frames) \/ k = Len(frames) + 1
        BY <2>1
      <4>3. pc = "clear" => \A k \in 1 .. Len(frames) + 1 : frames'[k].step # "set"
        BY <1>4, <2>1, <4>1, <4>2
      <4>4. \A j, k \in 1 .. Len(frames) + 1 :
              j < k /\ frames'[j].step = "clear" => frames'[k].step # "set"
        <5> TAKE j, k \in 1 .. Len(frames) + 1
        <5>1. CASE k \in 1 .. Len(frames) - 1
          <6>1. j < k => j \in 1 .. Len(frames) - 1
            BY <2>1, <5>1
          <6> QED
            BY <1>4, <2>1, <4>1, <5>1, <6>1
        <5>2. CASE k = Len(frames) \/ k = Len(frames) + 1
          BY <4>1, <5>2
        <5> QED
          BY <4>2, <5>1, <5>2
      <4> QED
        BY <2>1, <3>2, <4>1, <4>3, <4>4 DEF None
    <3> QED
      BY <3>1, <3>3, <3>4
  <2>4. CASE Clear
    <3>1. Top.step = "clear" /\ UNCHANGED <<raw, dead>>
      BY <2>4 DEF Clear, Step
    <3> QED
      BY <1>4, <2>1, <2>4, <3>1, ClearFrames DEF Moved, Restoring, None
  <2>5. CASE Resend
    <3>1. Top.step = "resend" /\ UNCHANGED raw
      BY <2>5 DEF Resend, Step
    <3> QED
      BY <1>4, <2>1, <2>5, <3>1, ResendFrames DEF Moved, Restoring
  <2>6. CASE Prep
    <3>1. PICK gs : Moved(gs, "set") /\ (frames' = gs \/ Pushed(gs))
      BY <2>6, PrepFrames
    <3>2. ~Restoring /\ dead' = dead
      BY <2>6 DEF Prep
    <3>3. pc # "clear" /\ \A k \in 1 .. Len(gs) : gs[k].step # "clear"
      BY <2>1, <3>1, <3>2 DEF Moved, Restoring
    <3>4. CASE frames' = gs
      <4>1. frames'[Len(frames')].step = "set"
        BY <2>1, <3>1, <3>4 DEF Moved
      <4> QED
        BY <2>1, <3>2, <3>3, <3>4, <4>1 DEF Restoring, None
    <3>5. CASE Pushed(gs)
      <4>1. frames'[Len(frames')].step = "forget" /\ Len(gs) \in Nat /\ Len(frames') = Len(gs) + 1
        BY <3>1, <3>5 DEF Pushed, Moved, Begun
      <4>2. \A k \in 1 .. Len(frames') : frames'[k].step # "clear"
        BY <3>3, <3>5, <4>1 DEF Pushed
      <4> QED
        BY <2>1, <3>2, <3>3, <4>1, <4>2 DEF Restoring, None
    <3> QED
      BY <3>1, <3>4, <3>5
  <2>7. CASE SetAgain
    <3>1. Top.step = "set" /\ UNCHANGED <<raw, dead>> /\ Popped
      BY <2>7, SetAgainFrames DEF SetAgain, Step
    <3>2. pc # "clear" /\ \A k \in 1 .. Len(frames) - 1 : frames[k].step # "clear"
      BY <1>4, <2>1, <3>1
    <3>3. \A k \in 1 .. Len(frames') : frames'[k].step = "set"
      BY <2>1, <3>1, <3>2 DEF Popped, Nested
    <3> QED
      BY <2>1, <3>1, <3>2, <3>3 DEF Popped, Restoring, None
  <2> QED
    BY <1>5, <2>2, <2>3, <2>4, <2>5, <2>6, <2>7 DEF Handle
<1>6. CASE Call \/ Key \/ Running
  <2>1. frames = <<>> /\ (frames' = <<>> \/ Pushed(<<>>))
    BY <1>6, ReadlineFrames
  <2>2. /\ Len(frames') <= 1 /\ Len(frames') \in Nat
        /\ \A k \in 1 .. Len(frames') : frames'[k].step = "forget"
    BY <2>1 DEF Pushed, Begun
  <2>3. dead' # "resent"
    BY <1>6 DEF Call, Key, Running, SetSignals, CheckBeforeKey, Interrupted, CheckKey, Command,
                CheckCommand, Teardown, Deprep, Return, At, None
  <2>4. pc = "clear" => ~raw
    BY <1>4 DEF Restoring
  <2>5. pc' = "clear" => ~raw'
    BY <1>6 DEF Call, Key, Running, SetSignals, CheckBeforeKey, Interrupted, CheckKey, Command,
                CheckCommand, Teardown, Deprep, Return, CheckAndGo, At, Restored
  <2>6. pc' = "app" => ~raw' /\ ~installed'
    BY <1>6, <2>4
    DEF Call, Key, Running, SetSignals, CheckBeforeKey, Interrupted, CheckKey, Command,
        CheckCommand, Teardown, Deprep, Return, CheckAndGo, At
  <2> QED
    BY <2>2, <2>3, <2>5, <2>6 DEF Restoring
<1> QED
  BY <1>2, <1>3, <1>5, <1>6 DEF Next

-----------------------------------------------------------------------------
(* Every signal is accounted for *)

\* What a signal counts for while nothing begins to be handled.
Mark(sig) == IF caught = sig THEN 1 ELSE 0

\* Counts are numbers.
LEMMA CountTypes ==
  ASSUME TypeOK, NEW sig \in Signal
  PROVE  Owed(sig) \in Nat /\ Noted(sig) \in Nat /\ got[sig] \in Nat /\ Mark(sig) \in Nat
BY OwedFinite DEF TypeOK, Owed, Noted, Mark

\* A signal that begins to be handled is owed instead of noted.
LEMMA OwedPushed ==
  ASSUME TypeOK, NEW gs \in Seq(Frame), Pushed(gs), NEW sig \in Signal
  PROVE  Owed(sig)' = Cardinality(OwedIn(gs, sig)) + Mark(sig) /\ Forgetting'
<1>1. frames' \in Seq(Frame) /\ frames' # <<>> /\ Len(gs) = Len(frames') - 1
  BY DEF Pushed
<1>2. One(frames'[Len(frames')], sig) = Mark(sig)
  BY DEF Pushed, Begun, One, Mark, Owing
<1>3. Cardinality(OwedIn(frames', sig)) = Cardinality(OwedIn(gs, sig)) + One(frames'[Len(frames')], sig)
  BY <1>1, OwedLast DEF Pushed
<1> QED
  BY <1>1, <1>2, <1>3 DEF Owed, Forgetting, Pushed, Begun

\* No step but Send changes for how much a signal is accounted.
LEMMA AccountedKept ==
  ASSUME TypeOK, Nested, Handle \/ Call \/ Key \/ Running, NEW sig \in Signal
  PROVE  Accounted(sig)' = Accounted(sig)
<1>1. frames \in Seq(Frame) /\ None \notin Signal
  BY NoneIsNoSignal DEF TypeOK
<1>2. Owed(sig) \in Nat /\ Noted(sig) \in Nat /\ got[sig] \in Nat /\ Mark(sig) \in Nat
  BY CountTypes
<1>3. CASE Handle
  <2>1. /\ frames # <<>> /\ Len(frames) \in Nat \ {0} /\ Top = frames[Len(frames)]
        /\ Top.sig \in Signal
    <3>1. frames # <<>>
      BY <1>3 DEF Handle, Forget, Cleanup, Clear, Resend, Prep, SetAgain, Step
    <3> QED
      BY <1>1, <3>1, TopFacts
  <2>2. Top.step # "forget" => Noted(sig) = Mark(sig)
    BY <2>1 DEF Noted, Mark, Forgetting
  <2>3. \A gs, step : Moved(gs, step) =>
          Cardinality(OwedIn(gs, sig)) + One(Top, sig) = Owed(sig) + One(gs[Len(frames)], sig)
    BY <1>1, <2>1, OwedMoved DEF Moved, Owed
  <2>4. \A gs, step : Moved(gs, step) =>
          gs \in Seq(Frame) /\ Cardinality(OwedIn(gs, sig)) \in Nat /\ One(gs[Len(frames)], sig) =
            IF Top.sig = sig /\ step \in Owing THEN 1 ELSE 0
    BY <2>1, OwedFinite DEF Moved, One
  <2>5. One(Top, sig) = IF Top.sig = sig /\ Top.step \in Owing THEN 1 ELSE 0
    BY DEF One
  <2>6. Popped => Owed(sig) = Owed(sig)' + One(Top, sig) /\ Owed(sig)' \in Nat
    BY <1>1, <2>1, OwedLast, OwedFinite DEF Popped, Owed
  <2>7. \A step : step # "forget" /\ Moved(frames', step) => ~Forgetting'
    BY <2>1 DEF Moved, Forgetting
  <2>8. Popped => ~Forgetting'
    BY <2>1 DEF Popped, Forgetting, Nested
  <2>9. CASE Forget
    <3>1. Top.step = "forget" /\ Noted(sig) = 0 /\ Noted(sig)' = 0
      BY <1>1, <2>1, <2>9 DEF Forget, Step, Noted, Forgetting, Forgotten
    <3>2. CASE Top.sig = "WINCH"
      <4>1. got'[sig] = got[sig] + One(Top, sig)
        BY <2>1, <2>5, <2>9, <3>1, <3>2 DEF Forget, TypeOK, Owing
      <4>2. Popped
        BY <2>9, <3>2, ForgetFrames
      <4>3. One(Top, sig) \in Nat
        BY <2>5
      <4> QED
        BY <1>2, <2>6, <3>1, <4>1, <4>2, <4>3 DEF Accounted
    <3>3. CASE Top.sig # "WINCH"
      <4>1. Moved(frames', "cleanup") /\ got' = got
        BY <2>9, <3>3, ForgetFrames DEF Forget
      <4>2. Owed(sig)' = Owed(sig)
        BY <1>2, <2>3, <2>4, <2>5, <3>1, <4>1 DEF Owing, Owed
      <4> QED
        BY <3>1, <4>1, <4>2 DEF Accounted
    <3> QED
      BY <3>2, <3>3
  <2>10. CASE Cleanup
    <3>1. PICK gs : Moved(gs, "clear") /\ (frames' = gs \/ Pushed(gs))
      BY <2>10, CleanupFrames
    <3>2. Top.step = "cleanup" /\ UNCHANGED <<got, caught>>
      BY <2>10 DEF Cleanup, Step
    <3>3. Cardinality(OwedIn(gs, sig)) = Owed(sig)
      BY <1>2, <2>3, <2>4, <2>5, <3>1, <3>2 DEF Owing
    <3>4. CASE frames' = gs
      BY <2>2, <2>7, <3>1, <3>2, <3>3, <3>4 DEF Accounted, Owed, Noted, Mark
    <3>5. CASE Pushed(gs)
      <4>1. Owed(sig)' = Owed(sig) + Mark(sig) /\ Forgetting'
        BY <2>4, <3>1, <3>3, <3>5, OwedPushed
      <4>2. Noted(sig)' = 0
        BY <4>1 DEF Noted
      <4> QED
        BY <1>2, <2>2, <3>2, <4>1, <4>2 DEF Accounted
    <3> QED
      BY <3>1, <3>4, <3>5
  <2>11. CASE Clear
    <3>1. Top.step = "clear" /\ UNCHANGED <<got, caught>>
      BY <2>11 DEF Clear, Step
    <3>2. Moved(frames', "resend")
      BY <2>11, ClearFrames
    <3>3. Owed(sig)' = Owed(sig)
      BY <1>2, <2>3, <2>4, <2>5, <3>1, <3>2 DEF Owing, Owed
    <3> QED
      BY <2>2, <2>7, <3>1, <3>2, <3>3 DEF Accounted, Noted, Mark
  <2>12. CASE Resend
    <3>1. Top.step = "resend" /\ UNCHANGED caught
      BY <2>12 DEF Resend, Step
    <3>2. Moved(frames', "prep")
      BY <2>12, ResendFrames
    <3>3. got'[sig] = got[sig] + One(Top, sig)
      BY <2>1, <2>5, <2>12, <3>1 DEF Resend, Reaches, TypeOK, Owing
    <3>4. Owed(sig)' + One(Top, sig) = Owed(sig) /\ One(Top, sig) \in Nat
      BY <1>2, <2>3, <2>4, <2>5, <3>1, <3>2 DEF Owing, Owed
    <3>5. Owed(sig)' \in Nat
      BY <2>4, <3>2 DEF Owed
    <3>6. Noted(sig)' = Noted(sig)
      BY <2>2, <2>7, <3>1, <3>2 DEF Noted, Mark
    <3> QED
      BY <1>2, <3>3, <3>4, <3>5, <3>6 DEF Accounted
  <2>13. CASE Prep
    <3>1. PICK gs : Moved(gs, "set") /\ (frames' = gs \/ Pushed(gs))
      BY <2>13, PrepFrames
    <3>2. Top.step = "prep" /\ UNCHANGED <<got, caught>>
      BY <2>13 DEF Prep, Step
    <3>3. Cardinality(OwedIn(gs, sig)) = Owed(sig)
      BY <1>2, <2>3, <2>4, <2>5, <3>1, <3>2 DEF Owing
    <3>4. CASE frames' = gs
      BY <2>2, <2>7, <3>1, <3>2, <3>3, <3>4 DEF Accounted, Owed, Noted, Mark
    <3>5. CASE Pushed(gs)
      <4>1. Owed(sig)' = Owed(sig) + Mark(sig) /\ Forgetting'
        BY <2>4, <3>1, <3>3, <3>5, OwedPushed
      <4>2. Noted(sig)' = 0
        BY <4>1 DEF Noted
      <4> QED
        BY <1>2, <2>2, <3>2, <4>1, <4>2 DEF Accounted
    <3> QED
      BY <3>1, <3>4, <3>5
  <2>14. CASE SetAgain
    <3>1. Top.step = "set" /\ UNCHANGED <<got, caught>> /\ Popped
      BY <2>14, SetAgainFrames DEF SetAgain, Step
    <3>2. Owed(sig)' = Owed(sig)
      BY <2>5, <2>6, <3>1 DEF Owing
    <3> QED
      BY <2>2, <2>8, <3>1, <3>2 DEF Accounted, Noted, Mark
  <2> QED
    BY <1>3, <2>9, <2>10, <2>11, <2>12, <2>13, <2>14 DEF Handle
<1>4. CASE Call \/ Key \/ Running
  <2>1. frames = <<>> /\ (frames' = <<>> \/ Pushed(<<>>)) /\ UNCHANGED <<got, caught>>
    BY <1>4, ReadlineFrames
    DEF Call, Key, Running, SetSignals, CheckBeforeKey, Interrupted, CheckKey, Command,
        CheckCommand, Teardown, Deprep, Return, LeftOver
  <2>2. Noted(sig) = Mark(sig)
    BY <2>1 DEF Noted, Mark, Forgetting
  <2>3. CASE frames' = <<>>
    BY <2>1, <2>2, <2>3 DEF Accounted, Owed, Noted, Mark, Forgetting
  <2>4. CASE Pushed(<<>>)
    <3>1. Owed(sig)' = Owed(sig) + Mark(sig) /\ Forgetting'
      BY <1>1, <2>1, <2>4, OwedPushed DEF Owed
    <3>2. Noted(sig)' = 0
      BY <3>1 DEF Noted
    <3> QED
      BY <1>2, <2>1, <2>2, <3>1, <3>2 DEF Accounted
  <2> QED
    BY <2>1, <2>3, <2>4
<1> QED
  BY <1>3, <1>4

\* A signal sent is one more to account for, and the first of all is accounted
\* for at once.
LEMMA CountedSend == ASSUME TypeOK, Counted, Send PROVE Counted'
<1> USE DEF Counted
<1>1. PICK x \in Signal :
        /\ sent' = [sent EXCEPT ![x] = @ + 1]
        /\ IF installed THEN caught' = x /\ UNCHANGED got
           ELSE Reaches(x, "direct") /\ UNCHANGED caught
  BY DEF Send
<1>2. UNCHANGED frames /\ frames \in Seq(Frame)
  BY DEF Send, TypeOK
<1>3. \A k \in 1 .. Len(frames) : frames[k].sig \in Signal /\ sent[frames[k].sig] >= 1
  <2> TAKE k \in 1 .. Len(frames)
  <2>1. frames[k] \in Frame
    BY <1>2
  <2>2. sent[frames[k].sig] >= 1
    BY DEF Counted
  <2> QED
    BY <2>1, <2>2 DEF Frame
<1>4. \A s \in Signal : /\ sent[s] \in Nat /\ sent'[s] = IF s = x THEN sent[s] + 1 ELSE sent[s]
                        /\ Owed(s)' = Owed(s) /\ (Forgetting' <=> Forgetting)
  BY <1>1, <1>2 DEF TypeOK, Owed, Forgetting
<1>5. \A s \in Signal : Owed(s) \in Nat /\ Noted(s) \in Nat /\ got[s] \in Nat
  BY CountTypes
<1>6. \A s \in Signal : Accounted(s)' <= IF s = x THEN Accounted(s) + 1 ELSE Accounted(s)
  <2> TAKE s \in Signal
  <2>1. CASE installed
    <3>1. got' = got /\ Noted(s)' <= IF s = x THEN Noted(s) + 1 ELSE Noted(s)
      BY <1>1, <1>4, <2>1 DEF Noted
    <3>2. Noted(s)' \in Nat
      BY DEF Noted
    <3> QED
      BY <1>4, <1>5, <3>1, <3>2 DEF Accounted
  <2>2. CASE ~installed
    <3>1. Noted(s)' = Noted(s)
      BY <1>1, <1>4, <2>2 DEF Noted
    <3>2. got'[s] = IF s = x THEN got[s] + 1 ELSE got[s]
      BY <1>1, <2>2 DEF Reaches, TypeOK
    <3> QED
      BY <1>4, <1>5, <3>1, <3>2 DEF Accounted
  <2> QED
    BY <2>1, <2>2
<1>7. \A s \in Signal : Accounted(s) \in Nat
  BY <1>5 DEF Accounted
<1>8. \A s \in Signal : Accounted(s)' <= sent'[s]
  <2> TAKE s \in Signal
  <2>1. Accounted(s)' \in Int
    <3>1. got'[s] \in Nat
      <4>1. got'[s] \in {got[s], got[s] + 1}
        BY <1>1 DEF Reaches, TypeOK
      <4> QED
        BY <1>5, <4>1
    <3> QED
      BY <1>4, <1>5, <3>1 DEF Accounted, Noted
  <2>2. Accounted(s) <= sent[s]
    OBVIOUS
  <2> QED
    BY <1>4, <1>6, <1>7, <2>1, <2>2
<1>9. \A k \in 1 .. Len(frames') : sent'[frames'[k].sig] >= 1
  <2> TAKE k \in 1 .. Len(frames')
  <2>1. frames[k].sig \in Signal /\ sent[frames[k].sig] >= 1
    BY <1>2, <1>3
  <2> QED
    BY <1>2, <1>4, <2>1
<1>10. ASSUME NEW s \in Signal, Lone(s)' PROVE Accounted(s)' = 1
  <2>1. s = x
    BY <1>4, <1>10 DEF Lone
  <2>2. \A other \in Signal : sent[other] = 0
    BY <1>4, <1>10, <2>1 DEF Lone
  <2>3. \A k \in 1 .. Len(frames) : FALSE
    BY <1>3, <2>2
  <2>4. frames = <<>>
    BY <1>2, <2>3
  <2>5. got[s] + Owed(s) + Noted(s) <= 0
    BY <2>2 DEF Accounted
  <2>6. got[s] = 0 /\ Owed(s) = 0 /\ Noted(s) = 0 /\ ~Forgetting
    BY <1>5, <2>4, <2>5 DEF Forgetting
  <2>7. CASE installed
    <3>1. got'[s] = 0 /\ Noted(s)' = 1
      BY <1>1, <1>4, <2>1, <2>6, <2>7 DEF Noted
    <3> QED
      BY <1>4, <2>6, <3>1 DEF Accounted
  <2>8. CASE ~installed
    <3>1. got'[s] = 1
      BY <1>1, <2>1, <2>6, <2>8 DEF Reaches, TypeOK
    <3>2. Noted(s)' = Noted(s)
      BY <1>1, <1>4, <2>8 DEF Noted
    <3> QED
      BY <1>4, <2>6, <3>1, <3>2 DEF Accounted
  <2> QED
    BY <2>7, <2>8
<1> QED
  BY <1>8, <1>9, <1>10

\* Only signals that were sent are ever handled.
LEMMA HandledWereSent ==
  ASSUME TypeOK, Counted, Handle \/ Call \/ Key \/ Running
  PROVE  \A k \in 1 .. Len(frames') : sent[frames'[k].sig] >= 1
<1>1. frames \in Seq(Frame) /\ None \notin Signal /\ sent \in [Signal -> Nat]
  BY NoneIsNoSignal DEF TypeOK
<1>2. \A k \in 1 .. Len(frames) : sent[frames[k].sig] >= 1
  BY DEF Counted
<1>3. caught \in Signal /\ ~Forgetting => sent[caught] >= 1
  <2> SUFFICES ASSUME caught \in Signal, ~Forgetting PROVE sent[caught] >= 1
    OBVIOUS
  <2>1. Accounted(caught) <= sent[caught] /\ Noted(caught) = 1
    BY DEF Counted, Noted
  <2> QED
    BY <1>1, <2>1, CountTypes DEF Accounted
<1>4. \A gs, step : frames # <<>> /\ Moved(gs, step) => \A k \in 1 .. Len(gs) : sent[gs[k].sig] >= 1
  BY <1>1, <1>2 DEF Moved
<1>5. \A gs : Pushed(gs) /\ (\A k \in 1 .. Len(gs) : sent[gs[k].sig] >= 1) /\ gs \in Seq(Frame)
                 /\ ~Forgetting
        => \A k \in 1 .. Len(frames') : sent[frames'[k].sig] >= 1
  BY <1>3 DEF Pushed, Begun
<1>6. CASE Handle
  <2>1. frames # <<>> /\ Len(frames) \in Nat \ {0} /\ Top = frames[Len(frames)]
    <3>1. frames # <<>>
      BY <1>6 DEF Handle, Forget, Cleanup, Clear, Resend, Prep, SetAgain, Step
    <3> QED
      BY <1>1, <3>1, TopFacts
  <2>2. CASE Popped
    BY <1>2, <2>1, <2>2 DEF Popped
  <2>3. Forget => Popped \/ Moved(frames', "cleanup")
    BY ForgetFrames
  <2>4. Clear => Moved(frames', "resend")
    BY ClearFrames
  <2>5. Resend => Moved(frames', "prep")
    BY ResendFrames
  <2>6. SetAgain => Popped
    BY SetAgainFrames
  <2>7. ASSUME Cleanup \/ Prep PROVE \A k \in 1 .. Len(frames') : sent[frames'[k].sig] >= 1
    <3>1. PICK gs, step : Moved(gs, step) /\ (frames' = gs \/ Pushed(gs))
      BY <2>7, CleanupFrames, PrepFrames
    <3>2. ~Forgetting
      BY <2>1, <2>7 DEF Forgetting, Cleanup, Prep, Step
    <3>3. \A k \in 1 .. Len(gs) : sent[gs[k].sig] >= 1
      BY <1>4, <2>1, <3>1
    <3>4. gs \in Seq(Frame)
      BY <3>1 DEF Moved
    <3>5. CASE Pushed(gs)
      BY <1>5, <3>2, <3>3, <3>4, <3>5
    <3> QED
      BY <3>1, <3>3, <3>5
  <2> QED
    <3>1. Popped \/ (\E step : Moved(frames', step)) \/ Cleanup \/ Prep
      BY <1>6, <2>3, <2>4, <2>5, <2>6 DEF Handle
    <3> QED
      BY <1>4, <2>1, <2>2, <2>7, <3>1
<1>7. CASE Call \/ Key \/ Running
  <2>1. frames = <<>> /\ (frames' = <<>> \/ Pushed(<<>>))
    BY <1>7, ReadlineFrames
  <2>2. <<>> \in Seq(Frame) /\ (\A k \in 1 .. Len(<<>>) : sent[<<>>[k].sig] >= 1)
    OBVIOUS
  <2>3. ~Forgetting
    BY <2>1 DEF Forgetting
  <2>4. CASE Pushed(<<>>)
    BY <1>5, <2>2, <2>3, <2>4
  <2> QED
    BY <2>1, <2>4
<1> QED
  BY <1>6, <1>7

\* Every step keeps the account.
LEMMA CountedStep == TypeOK /\ Nested /\ Counted /\ [Next]_vars => Counted'
<1> SUFFICES ASSUME TypeOK, Nested, Counted, [Next]_vars PROVE Counted'
  OBVIOUS
<1>1. CASE Send
  BY <1>1, CountedSend
<1>2. CASE UNCHANGED vars
  BY <1>2 DEF vars, Counted, Accounted, Owed, Noted, Forgetting, Lone
<1>3. CASE Handle \/ Call \/ Key \/ Running
  <2>1. sent' = sent
    BY <1>3
    DEF Handle, Running, Forget, Cleanup, Clear, Resend, Prep, SetAgain, Call, Key,
        SetSignals, CheckBeforeKey, Interrupted, CheckKey, Command, CheckCommand, Teardown,
        Deprep, Return
  <2>2. \A sig \in Signal : Accounted(sig)' = Accounted(sig)
    BY <1>3, AccountedKept
  <2>3. \A k \in 1 .. Len(frames') : sent'[frames'[k].sig] >= 1
    BY <1>3, <2>1, HandledWereSent
  <2> HIDE DEF Accounted
  <2> QED
    BY <2>1, <2>2, <2>3 DEF Counted, Lone
<1> QED
  BY <1>1, <1>2, <1>3 DEF Next

-----------------------------------------------------------------------------
(* The theorems *)

\* At the beginning nothing was sent, and nothing is being handled.
LEMMA InitIInv == Init => IInv
<1> SUFFICES ASSUME Init PROVE IInv
  OBVIOUS
<1> USE DEF Init
<1>1. TypeOK
  <2>1. lines \in 0 .. MaxLines
    BY RlSignalsAssumption
  <2>2. sent \in [Signal -> Nat] /\ got \in [Signal -> Nat]
    OBVIOUS
  <2>3. frames \in Seq(Frame)
    OBVIOUS
  <2>4. handled \subseteq Signal /\ caught \in Signal \cup {None} /\ pc \in Places
    BY DEF Places
  <2> HIDE DEF Init
  <2>5. raw \in BOOLEAN /\ installed \in BOOLEAN /\ ttou \in BOOLEAN /\ done \in BOOLEAN
        /\ stale \in BOOLEAN /\ again \in BOOLEAN /\ dead \in {None, "direct", "resent"}
    BY DEF Init
  <2> QED
    BY <2>1, <2>2, <2>3, <2>4, <2>5 DEF TypeOK
<1>2. Nested /\ InCall /\ Ready /\ Fresh /\ Restoration
  BY DEF Nested, InCall, Ready, Outside, Fresh, Restoration, Restoring, None
<1>3. Counted
  <2>1. \A sig \in Signal : OwedIn(frames, sig) = {}
    BY DEF OwedIn
  <2>2. \A sig \in Signal : Accounted(sig) = 0 /\ sent[sig] = 0
    BY <2>1, NoneIsNoSignal, FS_EmptySet DEF Accounted, Owed, Noted
  <2> QED
    BY <2>2 DEF Counted, Lone
<1> QED
  BY <1>1, <1>2, <1>3 DEF IInv

\* The invariant is inductive.
LEMMA IInvStep == IInv /\ [Next]_vars => IInv'
BY TypeStep, NestedStep, InCallStep, CountedStep, ReadyStep, FreshStep, RestorationStep DEF IInv

\* What the runs check follows from it.
LEMMA IInvImplies == IInv => SignalInvariant /\ LoneSignalArrives /\ TerminalRestored
<1> SUFFICES ASSUME IInv PROVE SignalInvariant /\ LoneSignalArrives /\ TerminalRestored
  OBVIOUS
<1>1. TypeOK /\ InCall /\ Counted /\ Ready /\ Fresh /\ Restoration
  BY DEF IInv
<1>2. \A sig \in Signal : Owed(sig) \in Nat /\ Noted(sig) \in Nat /\ got[sig] \in Nat
                          /\ sent[sig] \in Nat
  BY <1>1, CountTypes DEF TypeOK
<1>3. ResentOnce
  <2> SUFFICES ASSUME NEW sig \in Signal PROVE got[sig] + Owed(sig) <= sent[sig]
    BY DEF ResentOnce
  <2>1. got[sig] + Owed(sig) + Noted(sig) <= sent[sig]
    BY <1>1 DEF Counted, Accounted
  <2> QED
    BY <1>2, <2>1
<1>4. ReadyForKey /\ HandledBeforeCommand
  BY <1>1 DEF ReadyForKey, HandledBeforeCommand, Ready, Outside, Fresh
<1>5. LoneSignalArrives
  <2> SUFFICES ASSUME NEW sig \in Signal, Lone(sig)
               PROVE  got[sig] = 1 \/ caught = sig \/ Owed(sig) = 1
    BY DEF LoneSignalArrives
  <2>1. got[sig] + Owed(sig) + Noted(sig) = 1
    BY <1>1 DEF Counted, Accounted
  <2>2. Noted(sig) # 0 => caught = sig
    BY DEF Noted
  <2> QED
    BY <1>2, <2>1, <2>2
<1>6. TerminalRestored
  BY <1>1 DEF TerminalRestored, Restoration
<1> QED
  BY <1>1, <1>3, <1>4, <1>5, <1>6 DEF SignalInvariant

\* The inductive invariant holds of every state.
LEMMA SpecIInv == Spec => []IInv
<1>1. Init => IInv
  BY InitIInv
<1>2. IInv /\ [Next]_vars => IInv'
  BY IInvStep
<1> QED
  BY <1>1, <1>2, PTL DEF Spec

\* However many signals come, and wherever: no signal reaches the application
\* more often than it was sent, readline is ready when it waits for a key, and
\* no command runs before a signal older than its key is handled.
THEOREM SignalInvariantHolds == Spec => []SignalInvariant
<1>1. IInv => SignalInvariant
  BY IInvImplies
<1> QED
  BY <1>1, SpecIInv, PTL

\* A signal that is the only one is not lost, whichever step it comes at.
THEOREM LoneSignalArrivesHolds == Spec => []LoneSignalArrives
<1>1. IInv => LoneSignalArrives
  BY IInvImplies
<1> QED
  BY <1>1, SpecIInv, PTL

\* Unless a signal is handled while the terminal is being restored, whoever has
\* the line, or dies of a signal given on, finds the terminal as it was.
THEOREM TerminalRestoredHolds == Spec => []TerminalRestored
<1>1. IInv => TerminalRestored
  BY IInvImplies
<1> QED
  BY <1>1, SpecIInv, PTL

-----------------------------------------------------------------------------
(* Completion: sequences *)

\* A set of numbers that is not empty has a least one.
LEMMA LeastNumber ==
  ASSUME NEW S \in SUBSET Nat, S # {}
  PROVE  \E x \in S : \A y \in S : x <= y
<1> DEFINE R == OpToRel(<, Nat)
<1>1. R = {p \in Nat \X Nat : p[1] < p[2]}
  BY DEF OpToRel
<1>2. IsWellFoundedOn(R, Nat)
  BY <1>1, NatLessThanWellFounded
<1>3. \A x, y \in Nat : <<y, x>> \in R <=> y < x
  BY <1>1
<1> HIDE DEF R
<1>4. PICK x \in S : \A y \in S : ~(<<y, x>> \in R)
  BY <1>2, WFMin
<1>5. \A y \in S : ~(y < x)
  BY <1>3, <1>4
<1>6. \A y, z \in Nat : ~(y < z) => z <= y
  OBVIOUS
<1> QED
  BY <1>5, <1>6

\* Sequences that are the same everywhere are the same.
LEMMA SameSequence ==
  ASSUME NEW S, NEW s \in Seq(S), NEW t \in Seq(S), Len(s) = Len(t),
         \A i \in 1 .. Len(s) : s[i] = t[i]
  PROVE  s = t
OBVIOUS

\* A sequence of one.
LEMMA OneIs ==
  ASSUME NEW S, NEW c \in S
  PROVE  <<c>> \in Seq(S) /\ Len(<<c>>) = 1 /\ <<c>>[1] = c
OBVIOUS

\* A part of a sequence.
LEMMA PartIs ==
  ASSUME NEW S, NEW s \in Seq(S), NEW m \in 1 .. Len(s) + 1, NEW n \in m - 1 .. Len(s)
  PROVE  /\ SubSeq(s, m, n) \in Seq(S)
         /\ Len(SubSeq(s, m, n)) = n - m + 1
         /\ \A i \in 1 .. n - m + 1 : SubSeq(s, m, n)[i] = s[m + i - 1]
<1>1. \A i \in m .. n : s[i] \in S
  OBVIOUS
<1> QED
  BY <1>1, SubSeqProperties

\* The first part of a sequence.
LEMMA FirstPart ==
  ASSUME NEW S, NEW s \in Seq(S), NEW n \in 0 .. Len(s)
  PROVE  /\ SubSeq(s, 1, n) \in Seq(S)
         /\ Len(SubSeq(s, 1, n)) = n
         /\ \A i \in 1 .. n : SubSeq(s, 1, n)[i] = s[i]
<1>1. 1 \in 1 .. Len(s) + 1 /\ n \in 1 - 1 .. Len(s)
  OBVIOUS
<1>2. /\ SubSeq(s, 1, n) \in Seq(S)
      /\ Len(SubSeq(s, 1, n)) = n - 1 + 1
      /\ \A i \in 1 .. n - 1 + 1 : SubSeq(s, 1, n)[i] = s[1 + i - 1]
  BY <1>1, PartIs
<1> QED
  BY <1>2

\* The last part of a sequence.
LEMMA LastPart ==
  ASSUME NEW S, NEW s \in Seq(S), NEW n \in 0 .. Len(s)
  PROVE  /\ From(s, n) \in Seq(S)
         /\ Len(From(s, n)) = Len(s) - n
         /\ \A i \in 1 .. Len(s) - n : From(s, n)[i] = s[n + i]
<1>1. n + 1 \in 1 .. Len(s) + 1 /\ Len(s) \in (n + 1) - 1 .. Len(s)
  OBVIOUS
<1>2. /\ SubSeq(s, n + 1, Len(s)) \in Seq(S)
      /\ Len(SubSeq(s, n + 1, Len(s))) = Len(s) - (n + 1) + 1
      /\ \A i \in 1 .. Len(s) - (n + 1) + 1 : SubSeq(s, n + 1, Len(s))[i] = s[(n + 1) + i - 1]
  BY <1>1, PartIs
<1>3. Len(s) - (n + 1) + 1 = Len(s) - n /\ \A i \in Nat : (n + 1) + i - 1 = n + i
  OBVIOUS
<1>4. PICK f : f = SubSeq(s, n + 1, Len(s))
  OBVIOUS
<1>5. f = From(s, n)
  BY <1>4 DEF From
<1>6. f \in Seq(S) /\ Len(f) = Len(s) - n
  BY <1>2, <1>3, <1>4
<1>7. ASSUME NEW i \in 1 .. Len(s) - n PROVE f[i] = s[n + i]
  <2>1. i \in 1 .. Len(s) - (n + 1) + 1 /\ (n + 1) + i - 1 = n + i
    OBVIOUS
  <2> QED
    BY <2>1, <1>2, <1>4
<1> QED
  BY <1>5, <1>6, <1>7

\* One sequence behind another.
LEMMA BehindIs ==
  ASSUME NEW S, NEW s \in Seq(S), NEW t \in Seq(S)
  PROVE  /\ s \o t \in Seq(S)
         /\ Len(s \o t) = Len(s) + Len(t)
         /\ \A i \in 1 .. Len(s) : (s \o t)[i] = s[i]
         /\ \A i \in 1 .. Len(t) : (s \o t)[Len(s) + i] = t[i]
<1>1. /\ s \o t \in Seq(S)
      /\ Len(s \o t) = Len(s) + Len(t)
      /\ \A i \in 1 .. Len(s) + Len(t) : (s \o t)[i] = IF i <= Len(s) THEN s[i] ELSE t[i - Len(s)]
  BY ConcatProperties
<1>2. ASSUME NEW i \in 1 .. Len(s) PROVE (s \o t)[i] = s[i]
  BY <1>1
<1>3. ASSUME NEW i \in 1 .. Len(t) PROVE (s \o t)[Len(s) + i] = t[i]
  <2>1. Len(s) + i \in 1 .. Len(s) + Len(t) /\ ~(Len(s) + i <= Len(s)) /\ (Len(s) + i) - Len(s) = i
    OBVIOUS
  <2> QED
    BY <1>1, <2>1
<1> QED
  BY <1>1, <1>2, <1>3

\* The parts of two sequences, one behind the other.
LEMMA PartsOfBoth ==
  ASSUME NEW S, NEW s \in Seq(S), NEW t \in Seq(S)
  PROVE  SubSeq(s \o t, 1, Len(s)) = s /\ From(s \o t, Len(s)) = t
<1> DEFINE r == s \o t
<1>1. /\ r \in Seq(S) /\ Len(r) = Len(s) + Len(t)
      /\ \A i \in 1 .. Len(s) : r[i] = s[i]
      /\ \A i \in 1 .. Len(t) : r[Len(s) + i] = t[i]
  BY BehindIs
<1> HIDE DEF r
<1>2. Len(s) \in 0 .. Len(r)
  BY <1>1
<1>3. /\ SubSeq(r, 1, Len(s)) \in Seq(S) /\ Len(SubSeq(r, 1, Len(s))) = Len(s)
      /\ \A i \in 1 .. Len(s) : SubSeq(r, 1, Len(s))[i] = r[i]
  BY <1>1, <1>2, FirstPart
<1>4. SubSeq(r, 1, Len(s)) = s
  BY <1>1, <1>3, SameSequence
<1>5. /\ From(r, Len(s)) \in Seq(S) /\ Len(From(r, Len(s))) = Len(r) - Len(s)
      /\ \A i \in 1 .. Len(r) - Len(s) : From(r, Len(s))[i] = r[Len(s) + i]
  BY <1>1, <1>2, LastPart
<1>6. Len(r) - Len(s) = Len(t)
  BY <1>1
<1>7. From(r, Len(s)) = t
  <2> DEFINE f == From(r, Len(s))
  <2>1. f \in Seq(S) /\ Len(f) = Len(t) /\ \A i \in 1 .. Len(f) : f[i] = t[i]
    BY <1>1, <1>5, <1>6
  <2> HIDE DEF f
  <2>2. f = t
    BY <2>1, SameSequence
  <2> QED
    BY <2>2 DEF f
<1> QED
  BY <1>4, <1>7 DEF r

\* A sequence is its first part and its last.
LEMMA BothParts ==
  ASSUME NEW S, NEW s \in Seq(S), NEW n \in 0 .. Len(s)
  PROVE  s = SubSeq(s, 1, n) \o From(s, n)
<1>1. PICK a : a = SubSeq(s, 1, n)
  OBVIOUS
<1>2. PICK b : b = From(s, n)
  OBVIOUS
<1>3. a \in Seq(S) /\ Len(a) = n /\ \A i \in 1 .. n : a[i] = s[i]
  BY <1>1, FirstPart
<1>4. b \in Seq(S) /\ Len(b) = Len(s) - n /\ \A i \in 1 .. Len(s) - n : b[i] = s[n + i]
  BY <1>2, LastPart
<1>5. PICK r : r = a \o b
  OBVIOUS
<1>6. /\ r \in Seq(S) /\ Len(r) = Len(a) + Len(b)
      /\ \A i \in 1 .. Len(a) : r[i] = a[i]
      /\ \A i \in 1 .. Len(b) : r[Len(a) + i] = b[i]
  BY <1>3, <1>4, <1>5, BehindIs
<1>7. Len(r) = Len(s)
  BY <1>3, <1>4, <1>6
<1>8. ASSUME NEW i \in 1 .. Len(s) PROVE r[i] = s[i]
  <2>1. CASE i <= n
    BY <2>1, <1>3, <1>6
  <2>2. CASE i > n
    <3>1. i - n \in 1 .. Len(b) /\ Len(a) + (i - n) = i /\ n + (i - n) = i
      BY <2>2, <1>3, <1>4
    <3>2. r[Len(a) + (i - n)] = b[i - n]
      BY <3>1, <1>6
    <3>3. b[i - n] = s[n + (i - n)]
      BY <3>1, <1>3, <1>4
    <3> QED
      BY <3>1, <3>2, <3>3
  <2> QED
    BY <2>1, <2>2
<1>9. r = s
  BY <1>6, <1>7, <1>8, SameSequence
<1> QED
  BY <1>1, <1>2, <1>5, <1>9

\* The last part of the last part.
LEMMA LastOfLast ==
  ASSUME NEW S, NEW s \in Seq(S), NEW n \in 0 .. Len(s), NEW k \in 0 .. Len(s) - n
  PROVE  From(From(s, n), k) = From(s, n + k)
<1>1. PICK a : a = From(s, n)
  OBVIOUS
<1>2. a \in Seq(S) /\ Len(a) = Len(s) - n /\ \A i \in 1 .. Len(s) - n : a[i] = s[n + i]
  BY <1>1, LastPart
<1>3. PICK b : b = From(a, k)
  OBVIOUS
<1>4. b \in Seq(S) /\ Len(b) = Len(a) - k /\ \A i \in 1 .. Len(a) - k : b[i] = a[k + i]
  <2>1. k \in 0 .. Len(a) /\ a \in Seq(S)
    BY <1>2
  <2> QED
    BY ONLY <2>1, <1>3, LastPart
<1>5. PICK c : c = From(s, n + k)
  OBVIOUS
<1>6. n + k \in 0 .. Len(s)
  OBVIOUS
<1>7. c \in Seq(S) /\ Len(c) = Len(s) - (n + k) /\ \A i \in 1 .. Len(s) - (n + k) : c[i] = s[(n + k) + i]
  BY <1>5, <1>6, LastPart
<1>8. Len(b) = Len(c)
  BY <1>2, <1>4, <1>7
<1>9. ASSUME NEW i \in 1 .. Len(b) PROVE b[i] = c[i]
  <2>1. i \in 1 .. Len(a) - k /\ k + i \in 1 .. Len(s) - n /\ i \in 1 .. Len(s) - (n + k)
    BY <1>2, <1>4
  <2>2. n + (k + i) = (n + k) + i
    BY <2>1
  <2> QED
    BY <2>1, <2>2, <1>2, <1>4, <1>7
<1>10. b = c
  BY <1>4, <1>7, <1>8, <1>9, SameSequence
<1> QED
  BY <1>1, <1>3, <1>5, <1>10

-----------------------------------------------------------------------------
(* Words and names *)

\* What stands in a place of a line: from there on nothing is in the set.
LastAt(s, S, i) ==
  /\ i \in 0 .. Len(s) /\ (i = 0 \/ s[i] \in S)
  /\ \A j \in i + 1 .. Len(s) : s[j] \notin S

\* There is one such place, and only one.
LEMMA LastInIs ==
  ASSUME NEW T, NEW s \in Seq(T), NEW S
  PROVE  LastAt(s, S, LastIn(s, S)) /\ \A i : LastAt(s, S, i) => i = LastIn(s, S)
<1> DEFINE K == {k \in 0 .. Len(s) : \A j \in k + 1 .. Len(s) : s[j] \notin S}
<1>1. K \in SUBSET Nat /\ Len(s) \in K
  OBVIOUS
<1>2. PICK k \in K : \A l \in K : k <= l
  <2> HIDE DEF K
  <2>1. K # {}
    BY <1>1
  <2> QED
    BY <1>1, <2>1, LeastNumber
<1>3. k \in 0 .. Len(s) /\ \A j \in k + 1 .. Len(s) : s[j] \notin S
  OBVIOUS
<1>4. k = 0 \/ s[k] \in S
  <2>1. SUFFICES ASSUME k # 0, s[k] \notin S PROVE FALSE
    OBVIOUS
  <2>2. k - 1 \in 0 .. Len(s)
    BY <2>1, <1>3
  <2>3. ASSUME NEW j \in (k - 1) + 1 .. Len(s) PROVE s[j] \notin S
    <3>1. j = k \/ j \in k + 1 .. Len(s)
      BY <1>3
    <3> QED
      BY <3>1, <2>1, <1>3
  <2>4. k - 1 \in K
    BY <2>2, <2>3
  <2> QED
    BY <2>4, <1>2, <1>3
<1>5. ASSUME NEW a, NEW b, LastAt(s, S, a), LastAt(s, S, b) PROVE a = b
  <2>1. /\ a \in 0 .. Len(s) /\ (a = 0 \/ s[a] \in S) /\ \A j \in a + 1 .. Len(s) : s[j] \notin S
        /\ b \in 0 .. Len(s) /\ (b = 0 \/ s[b] \in S) /\ \A j \in b + 1 .. Len(s) : s[j] \notin S
    BY <1>5 DEF LastAt
  <2>2. CASE a < b
    <3>1. b \in a + 1 .. Len(s) /\ b # 0
      BY <2>1, <2>2
    <3> QED
      BY <2>1, <3>1
  <2>3. CASE b < a
    <3>1. a \in b + 1 .. Len(s) /\ a # 0
      BY <2>1, <2>3
    <3> QED
      BY <2>1, <3>1
  <2>4. a < b \/ b < a \/ a = b
    BY <2>1
  <2> QED
    BY <2>2, <2>3, <2>4
<1>6. LastAt(s, S, k)
  BY <1>3, <1>4 DEF LastAt
<1>7. LastAt(s, S, LastIn(s, S))
  <2> DEFINE P(i) == (i = 0 \/ s[i] \in S) /\ \A j \in i + 1 .. Len(s) : s[j] \notin S
  <2>1. LastIn(s, S) = CHOOSE i \in 0 .. Len(s) : P(i)
    BY DEF LastIn
  <2>2. k \in 0 .. Len(s) /\ P(k)
    BY <1>3, <1>4
  <2> HIDE DEF P
  <2>3. LastIn(s, S) \in 0 .. Len(s) /\ P(LastIn(s, S))
    BY <2>1, <2>2
  <2> QED
    BY <2>3 DEF P, LastAt
<1> QED
  BY <1>5, <1>7

\* A directory as it stands before a name: empty, or it ends with a slash.
Dir == {d \in Seq(Char) : d = <<>> \/ d[Len(d)] = "/"}

\* A file name in a word: it has no slash.
FileNames == Seq(Char \ {"/"})

\* A word is a directory and a name.
LEMMA WordIs ==
  ASSUME NEW w \in Seq(Char)
  PROVE  /\ DirOf(w) \in Dir /\ FileOf(w) \in FileNames
         /\ w = DirOf(w) \o FileOf(w)
<1>1. PICK i : i = LastIn(w, {"/"})
  OBVIOUS
<1>2. LastAt(w, {"/"}, i)
  BY <1>1, LastInIs
<1>3. i \in 0 .. Len(w) /\ (i = 0 \/ w[i] = "/") /\ \A j \in i + 1 .. Len(w) : w[j] # "/"
  BY <1>2 DEF LastAt
<1>4. PICK d : d = SubSeq(w, 1, i)
  OBVIOUS
<1>5. PICK f : f = From(w, i)
  OBVIOUS
<1>6. d = DirOf(w) /\ f = FileOf(w)
  BY <1>1, <1>4, <1>5 DEF DirOf, FileOf, From
<1>7. d \in Seq(Char) /\ Len(d) = i /\ \A k \in 1 .. i : d[k] = w[k]
  BY <1>3, <1>4, FirstPart
<1>8. f \in Seq(Char) /\ Len(f) = Len(w) - i /\ \A k \in 1 .. Len(w) - i : f[k] = w[i + k]
  BY <1>3, <1>5, LastPart
<1>9. d \in Dir
  <2>1. CASE i = 0
    <3>1. d = <<>>
      BY <1>7, <2>1
    <3> QED
      BY <1>7, <3>1 DEF Dir
  <2>2. CASE i # 0
    <3>1. d[Len(d)] = "/"
      BY <1>3, <1>7, <2>2
    <3> QED
      BY <1>7, <3>1 DEF Dir
  <2> QED
    BY <2>1, <2>2
<1>10. f \in FileNames
  <2>1. ASSUME NEW k \in 1 .. Len(f) PROVE f[k] \in Char \ {"/"}
    <3>1. k \in 1 .. Len(w) - i /\ i + k \in i + 1 .. Len(w)
      BY <1>3, <1>8
    <3>2. f[k] = w[i + k] /\ w[i + k] # "/"
      BY <3>1, <1>3, <1>8
    <3>3. f[k] \in Char
      BY <1>8
    <3> QED
      BY <3>2, <3>3
  <2> QED
    BY <1>8, <2>1 DEF FileNames
<1>11. w = d \o f
  BY <1>3, <1>4, <1>5, BothParts
<1> QED
  BY <1>6, <1>9, <1>10, <1>11

\* The directory and the name in a word put together from the two.
LEMMA WordOf ==
  ASSUME NEW d \in Dir, NEW f \in FileNames
  PROVE  DirOf(d \o f) = d /\ FileOf(d \o f) = f
<1>1. d \in Seq(Char) /\ (d = <<>> \/ d[Len(d)] = "/")
  BY DEF Dir
<1>2. f \in Seq(Char) /\ \A k \in 1 .. Len(f) : f[k] # "/"
  <2>1. f \in Seq(Char \ {"/"})
    BY DEF FileNames
  <2>2. \A k \in 1 .. Len(f) : f[k] \in Char \ {"/"}
    BY <2>1
  <2>3. f \in Seq(Char)
    BY <2>1, SeqMonotonic
  <2> QED
    BY <2>2, <2>3
<1>3. PICK w : w = d \o f
  OBVIOUS
<1>4. /\ w \in Seq(Char) /\ Len(w) = Len(d) + Len(f)
      /\ \A i \in 1 .. Len(d) : w[i] = d[i]
      /\ \A i \in 1 .. Len(f) : w[Len(d) + i] = f[i]
  BY <1>1, <1>2, <1>3, BehindIs
<1>5. LastAt(w, {"/"}, Len(d))
  <2>1. Len(d) \in 0 .. Len(w)
    BY <1>1, <1>2, <1>4
  <2>2. Len(d) = 0 \/ w[Len(d)] \in {"/"}
    <3>1. CASE Len(d) # 0
      <4>1. d # <<>> /\ Len(d) \in 1 .. Len(d)
        BY <1>1, <3>1
      <4> QED
        BY <4>1, <1>1, <1>4
    <3> QED
      BY <3>1
  <2>3. ASSUME NEW j \in Len(d) + 1 .. Len(w) PROVE w[j] \notin {"/"}
    <3>1. j - Len(d) \in 1 .. Len(f) /\ Len(d) + (j - Len(d)) = j
      BY <1>1, <1>2, <1>4
    <3> QED
      BY <3>1, <1>2, <1>4
  <2> QED
    BY <2>1, <2>2, <2>3 DEF LastAt
<1>6. LastIn(w, {"/"}) = Len(d)
  BY <1>4, <1>5, LastInIs
<1>7. SubSeq(w, 1, Len(d)) = d /\ From(w, Len(d)) = f
  BY <1>1, <1>2, <1>3, PartsOfBoth
<1>8. DirOf(w) = d /\ FileOf(w) = f
  BY <1>6, <1>7 DEF DirOf, FileOf, From
<1> QED
  BY <1>3, <1>8

-----------------------------------------------------------------------------
(* The same, but for case *)

\* A character as it is compared.
Folded(c) == IF set.fold THEN Lower[c] ELSE c

\* The first n characters of both are the same.
Same(s, t, n) == \A i \in 1 .. n : Folded(s[i]) = Folded(t[i])

\* A character is folded to a character, only . to . and only / to /.
LEMMA FoldedIs ==
  /\ \A c \in Char : Folded(c) \in Char
  /\ \A c \in Char, d \in {".", "/"} : Folded(c) = Folded(d) => c = d
<1>1. /\ Lower \in [Char -> Char]
      /\ \A c \in Char, d \in {".", "/"} : Lower[c] = Lower[d] => c = d
  BY CompletionAssumption
<1>2. CASE set.fold
  BY <1>1, <1>2 DEF Folded
<1>3. CASE ~set.fold
  BY <1>3 DEF Folded
<1> QED
  BY <1>2, <1>3

\* A word that is folded.
LEMMA FoldIs ==
  ASSUME NEW s \in Seq(Char)
  PROVE  /\ Fold(s) \in Seq(Char) /\ Len(Fold(s)) = Len(s)
         /\ \A i \in 1 .. Len(s) : Fold(s)[i] = Folded(s[i])
<1>1. Fold(s) = [i \in 1 .. Len(s) |-> Folded(s[i])]
  BY DEF Fold, Folded
<1>2. \A i \in 1 .. Len(s) : Folded(s[i]) \in Char
  BY FoldedIs
<1> QED
  BY <1>1, <1>2

\* What Starts says, character by character.
LEMMA StartsIs ==
  ASSUME NEW T, NEW s \in Seq(T), NEW t \in Seq(T)
  PROVE  Starts(s, t) <=> Len(s) <= Len(t) /\ \A i \in 1 .. Len(s) : s[i] = t[i]
<1>1. CASE Len(s) <= Len(t)
  <2>1. Len(s) \in 0 .. Len(t)
    BY <1>1
  <2>2. PICK a : a = SubSeq(t, 1, Len(s))
    OBVIOUS
  <2>3. a \in Seq(T) /\ Len(a) = Len(s) /\ \A i \in 1 .. Len(s) : a[i] = t[i]
    BY <2>1, <2>2, FirstPart
  <2>4. a = s <=> \A i \in 1 .. Len(s) : s[i] = t[i]
    <3>1. ASSUME \A i \in 1 .. Len(s) : s[i] = t[i] PROVE a = s
      <4>1. \A i \in 1 .. Len(a) : a[i] = s[i]
        BY <2>3, <3>1
      <4> QED
        BY <2>3, <4>1, SameSequence
    <3> QED
      BY <2>3, <3>1
  <2> QED
    BY <1>1, <2>2, <2>4 DEF Starts
<1>2. CASE ~(Len(s) <= Len(t))
  BY <1>2 DEF Starts
<1> QED
  BY <1>1, <1>2

\* What complete_fncmp says of two names.
LEMMA StartsFolded ==
  ASSUME NEW s \in Seq(Char), NEW t \in Seq(Char)
  PROVE  Starts(Fold(s), Fold(t)) <=> Len(s) <= Len(t) /\ Same(s, t, Len(s))
<1>1. PICK a : a = Fold(s)
  OBVIOUS
<1>2. PICK b : b = Fold(t)
  OBVIOUS
<1>3. a \in Seq(Char) /\ Len(a) = Len(s) /\ \A i \in 1 .. Len(s) : a[i] = Folded(s[i])
  BY <1>1, FoldIs
<1>4. b \in Seq(Char) /\ Len(b) = Len(t) /\ \A i \in 1 .. Len(t) : b[i] = Folded(t[i])
  BY <1>2, FoldIs
<1>5. Starts(a, b) <=> Len(a) <= Len(b) /\ \A i \in 1 .. Len(a) : a[i] = b[i]
  BY <1>3, <1>4, StartsIs
<1>6. CASE Len(s) <= Len(t)
  <2>1. \A i \in 1 .. Len(s) : i \in 1 .. Len(t)
    BY <1>6
  <2>2. \A i \in 1 .. Len(s) : a[i] = b[i] <=> Folded(s[i]) = Folded(t[i])
    BY <2>1, <1>3, <1>4
  <2> QED
    BY <1>1, <1>2, <1>3, <1>4, <1>5, <2>2 DEF Same
<1>7. CASE ~(Len(s) <= Len(t))
  BY <1>1, <1>2, <1>3, <1>4, <1>5, <1>7
<1> QED
  BY <1>6, <1>7

\* Two beginnings that are folded.
LEMMA SameBeginnings ==
  ASSUME NEW s \in Seq(Char), NEW t \in Seq(Char), NEW n \in 0 .. Len(s), n <= Len(t)
  PROVE  Fold(SubSeq(s, 1, n)) = Fold(SubSeq(t, 1, n)) <=> Same(s, t, n)
<1>1. PICK x : x = SubSeq(s, 1, n)
  OBVIOUS
<1>2. PICK y : y = SubSeq(t, 1, n)
  OBVIOUS
<1>3. x \in Seq(Char) /\ Len(x) = n /\ \A i \in 1 .. n : x[i] = s[i]
  BY <1>1, FirstPart
<1>4. y \in Seq(Char) /\ Len(y) = n /\ \A i \in 1 .. n : y[i] = t[i]
  <2>1. n \in 0 .. Len(t)
    OBVIOUS
  <2> QED
    BY <1>2, <2>1, FirstPart
<1>5. PICK a : a = Fold(x)
  OBVIOUS
<1>6. PICK b : b = Fold(y)
  OBVIOUS
<1>7. a \in Seq(Char) /\ Len(a) = n /\ \A i \in 1 .. n : a[i] = Folded(x[i])
  BY <1>3, <1>5, FoldIs
<1>8. b \in Seq(Char) /\ Len(b) = n /\ \A i \in 1 .. n : b[i] = Folded(y[i])
  BY <1>4, <1>6, FoldIs
<1>9. \A i \in 1 .. n : a[i] = Folded(s[i]) /\ b[i] = Folded(t[i])
  BY <1>3, <1>4, <1>7, <1>8
<1>10. a = b <=> \A i \in 1 .. n : a[i] = b[i]
  <2>1. ASSUME \A i \in 1 .. n : a[i] = b[i] PROVE a = b
    BY <2>1, <1>7, <1>8, SameSequence
  <2> QED
    BY <2>1
<1>11. (\A i \in 1 .. n : a[i] = b[i]) <=> Same(s, t, n)
  BY <1>9 DEF Same
<1> QED
  BY <1>1, <1>2, <1>5, <1>6, <1>10, <1>11

\* Names are file names, and are there.
LEMMA NamesAre ==
  ASSUME NEW n \in Names
  PROVE  n \in FileNames /\ n \in Seq(Char) /\ Len(n) # 0
<1>1. n \in Seq(Char \ {"/"}) /\ n # <<>>
  BY DEF Names
<1>2. n \in Seq(Char)
  BY <1>1, SeqMonotonic
<1> QED
  BY <1>1, <1>2 DEF FileNames

\* What the candidates are.
LEMMA CandidatesAre ==
  ASSUME tree \in Trees, NEW w \in Seq(Char), NEW c
  PROVE  c \in Candidates(w) <=>
           /\ DirOf(w) \in DOMAIN tree
           /\ \E n \in DOMAIN tree[DirOf(w)] : n \in Names /\ IsMatch(n, FileOf(w)) /\ c = DirOf(w) \o n
<1>1. DirOf(w) \in DOMAIN tree => DOMAIN tree[DirOf(w)] \subseteq Names
  BY CompletionAssumption
<1> QED
  BY <1>1 DEF Candidates

\* There are finitely many candidates, each of them a name in the word's directory.
LEMMA CandidatesType ==
  ASSUME tree \in Trees, NEW w \in Seq(Char)
  PROVE  /\ IsFiniteSet(Candidates(w))
         /\ \A c \in Candidates(w) : c \in Seq(Char) /\ Len(c) # 0
<1>1. IsFiniteSet(Candidates(w))
  <2>1. CASE DirOf(w) \notin DOMAIN tree
    <3>1. Candidates(w) = {}
      BY <2>1 DEF Candidates
    <3> QED
      BY <3>1, FS_EmptySet
  <2>2. CASE DirOf(w) \in DOMAIN tree
    <3> DEFINE M == {n \in DOMAIN tree[DirOf(w)] : IsMatch(n, FileOf(w))}
    <3>1. IsFiniteSet(DOMAIN tree[DirOf(w)])
      BY <2>2, CompletionAssumption
    <3>2. M \in SUBSET DOMAIN tree[DirOf(w)]
      OBVIOUS
    <3> HIDE DEF M
    <3>3. IsFiniteSet(M)
      BY <3>1, <3>2, FS_Subset
    <3> DEFINE C == {DirOf(w) \o n : n \in M}
    <3>4. C = Candidates(w)
      BY <2>2 DEF Candidates, M
    <3>5. [n \in M |-> DirOf(w) \o n] \in Surjection(M, C)
      BY DEF Surjection
    <3> HIDE DEF C
    <3>6. IsFiniteSet(C)
      BY <3>3, <3>5, FS_Surjection
    <3> QED
      BY <3>4, <3>6
  <2> QED
    BY <2>1, <2>2
<1>2. ASSUME NEW c \in Candidates(w) PROVE c \in Seq(Char) /\ Len(c) # 0
  <2>1. PICK n \in Names : c = DirOf(w) \o n
    BY <1>2, CandidatesAre
  <2>2. PICK d : d = DirOf(w)
    OBVIOUS
  <2>3. d \in Seq(Char)
    BY <2>2, WordIs DEF Dir
  <2>4. n \in Seq(Char) /\ Len(n) # 0
    BY NamesAre
  <2>5. d \o n \in Seq(Char) /\ Len(d \o n) = Len(d) + Len(n)
    BY <2>3, <2>4, BehindIs
  <2>6. Len(d) \in Nat /\ Len(n) \in Nat
    BY <2>3, <2>4
  <2> QED
    BY <2>1, <2>2, <2>4, <2>5, <2>6
<1> QED
  BY <1>1, <1>2

-----------------------------------------------------------------------------
(* The order of the matches *)

\* The names are the same up to n, and differ there.
PartAt(a, b, n) ==
  /\ n \in 0 .. Len(a) /\ n < Len(b) /\ \A i \in 1 .. n : a[i] = b[i]
  /\ n = Len(a) \/ (n < Len(a) /\ Rank[a[n + 1]] < Rank[b[n + 1]])

\* What Before says, character by character.
LEMMA BeforeIs ==
  ASSUME NEW a \in Seq(Char), NEW b \in Seq(Char)
  PROVE  Before(a, b) <=> \E n \in Nat : PartAt(a, b, n)
<1>1. ASSUME NEW n \in 0 .. Len(a), n <= Len(b)
      PROVE  Starts(SubSeq(a, 1, n), b) <=> \A i \in 1 .. n : a[i] = b[i]
  <2>1. PICK p : p = SubSeq(a, 1, n)
    OBVIOUS
  <2>2. p \in Seq(Char) /\ Len(p) = n /\ \A i \in 1 .. n : p[i] = a[i]
    BY <2>1, FirstPart
  <2>3. Starts(p, b) <=> Len(p) <= Len(b) /\ \A i \in 1 .. Len(p) : p[i] = b[i]
    BY <2>2, StartsIs
  <2> QED
    BY <1>1, <2>1, <2>2, <2>3
<1>2. ASSUME Before(a, b) PROVE \E n \in Nat : PartAt(a, b, n)
  <2>1. PICK n \in 0 .. Len(a) :
          /\ Starts(SubSeq(a, 1, n), b)
          /\ \/ n = Len(a) /\ n < Len(b)
             \/ n < Len(a) /\ n < Len(b) /\ Rank[a[n + 1]] < Rank[b[n + 1]]
    BY <1>2 DEF Before
  <2>2. n < Len(b) /\ n <= Len(b)
    BY <2>1
  <2>3. \A i \in 1 .. n : a[i] = b[i]
    BY <2>1, <2>2, <1>1
  <2> QED
    BY <2>1, <2>2, <2>3 DEF PartAt
<1>3. ASSUME NEW n \in Nat, PartAt(a, b, n) PROVE Before(a, b)
  <2>1. /\ n \in 0 .. Len(a) /\ n < Len(b) /\ \A i \in 1 .. n : a[i] = b[i]
        /\ n = Len(a) \/ (n < Len(a) /\ Rank[a[n + 1]] < Rank[b[n + 1]])
    BY <1>3 DEF PartAt
  <2>2. Starts(SubSeq(a, 1, n), b)
    BY <2>1, <1>1
  <2> QED
    BY <2>1, <2>2 DEF Before
<1> QED
  BY <1>2, <1>3

\* Of two names one is before the other.
LEMMA BeforeTotal ==
  ASSUME NEW a \in Seq(Char), NEW b \in Seq(Char), a # b
  PROVE  Before(a, b) \/ Before(b, a)
<1> DEFINE D == {n \in Nat : ~(n < Len(a) /\ n < Len(b) /\ a[n + 1] = b[n + 1])}
<1>1. D \in SUBSET Nat /\ Len(a) \in D
  OBVIOUS
<1>2. PICK n \in D : \A m \in D : n <= m
  <2> HIDE DEF D
  <2> QED
    BY <1>1, LeastNumber
<1>3. n \in Nat /\ ~(n < Len(a) /\ n < Len(b) /\ a[n + 1] = b[n + 1])
  OBVIOUS
<1>4. \A m \in Nat : m < n => m < Len(a) /\ m < Len(b) /\ a[m + 1] = b[m + 1]
  <2>1. TAKE m \in Nat
  <2>2. HAVE m < n
  <2>3. m \notin D
    <3> HIDE DEF D
    <3> QED
      BY <2>2, <1>2, <1>3
  <2> QED
    BY <2>3
<1> HIDE DEF D
<1>5. n <= Len(a) /\ n <= Len(b)
  <2>1. n = 0 \/ (n - 1 \in Nat /\ n - 1 < n)
    BY <1>3
  <2> QED
    BY <2>1, <1>3, <1>4
<1>6. ASSUME NEW i \in 1 .. n PROVE a[i] = b[i]
  <2>1. i - 1 \in Nat /\ i - 1 < n /\ (i - 1) + 1 = i
    BY <1>3
  <2> QED
    BY <2>1, <1>4
<1>7. CASE n = Len(a) /\ n = Len(b)
  BY <1>7, <1>6, SameSequence
<1>8. CASE n = Len(a) /\ n < Len(b)
  <2>1. PartAt(a, b, n)
    BY <1>8, <1>3, <1>6 DEF PartAt
  <2> QED
    BY <2>1, <1>3, BeforeIs
<1>9. CASE n < Len(a) /\ n = Len(b)
  <2>1. PartAt(b, a, n)
    BY <1>9, <1>3, <1>6 DEF PartAt
  <2> QED
    BY <2>1, <1>3, BeforeIs
<1>10. CASE n < Len(a) /\ n < Len(b)
  <2>1. a[n + 1] # b[n + 1] /\ a[n + 1] \in Char /\ b[n + 1] \in Char
    BY <1>3, <1>10
  <2>2. Rank[a[n + 1]] \in Int /\ Rank[b[n + 1]] \in Int /\ Rank[a[n + 1]] # Rank[b[n + 1]]
    BY <2>1, CompletionAssumption
  <2>3. CASE Rank[a[n + 1]] < Rank[b[n + 1]]
    <3>1. PartAt(a, b, n)
      BY <1>10, <1>3, <1>6, <2>3 DEF PartAt
    <3> QED
      BY <3>1, <1>3, BeforeIs
  <2>4. CASE Rank[b[n + 1]] < Rank[a[n + 1]]
    <3>1. PartAt(b, a, n)
      BY <1>10, <1>3, <1>6, <2>4 DEF PartAt
    <3> QED
      BY <3>1, <1>3, BeforeIs
  <2> QED
    BY <2>2, <2>3, <2>4
<1> QED
  BY <1>3, <1>5, <1>7, <1>8, <1>9, <1>10

\* No name is before itself.
LEMMA BeforeStrict ==
  ASSUME NEW a \in Seq(Char)
  PROVE  ~Before(a, a)
<1> SUFFICES ASSUME NEW n \in Nat, PartAt(a, a, n) PROVE FALSE
  BY BeforeIs
<1>1. /\ n \in 0 .. Len(a) /\ n < Len(a)
      /\ n = Len(a) \/ (n < Len(a) /\ Rank[a[n + 1]] < Rank[a[n + 1]])
  BY DEF PartAt
<1>2. a[n + 1] \in Char
  BY <1>1
<1>3. Rank[a[n + 1]] \in Int
  BY <1>2, CompletionAssumption
<1> QED
  BY <1>1, <1>3

\* What is before a name before a third is before the third.
LEMMA BeforeTransitive ==
  ASSUME NEW a \in Seq(Char), NEW b \in Seq(Char), NEW c \in Seq(Char), Before(a, b), Before(b, c)
  PROVE  Before(a, c)
<1>1. PICK n \in Nat : PartAt(a, b, n)
  BY BeforeIs
<1>2. PICK m \in Nat : PartAt(b, c, m)
  BY BeforeIs
<1>3. /\ n \in 0 .. Len(a) /\ n < Len(b) /\ \A i \in 1 .. n : a[i] = b[i]
      /\ n = Len(a) \/ (n < Len(a) /\ Rank[a[n + 1]] < Rank[b[n + 1]])
  BY <1>1 DEF PartAt
<1>4. /\ m \in 0 .. Len(b) /\ m < Len(c) /\ \A i \in 1 .. m : b[i] = c[i]
      /\ m = Len(b) \/ (m < Len(b) /\ Rank[b[m + 1]] < Rank[c[m + 1]])
  BY <1>2 DEF PartAt
<1>5. \A s \in Seq(Char), k \in Nat : k < Len(s) => Rank[s[k + 1]] \in Int
  <2>1. ASSUME NEW s \in Seq(Char), NEW k \in Nat, k < Len(s) PROVE Rank[s[k + 1]] \in Int
    <3>1. s[k + 1] \in Char
      BY <2>1
    <3> QED
      BY <3>1, CompletionAssumption
  <2> QED
    BY <2>1
<1>6. CASE n < m
  <2>1. b[n + 1] = c[n + 1] /\ n < Len(c) /\ \A i \in 1 .. n : b[i] = c[i]
    BY <1>6, <1>3, <1>4
  <2>2. PartAt(a, c, n)
    BY <2>1, <1>3 DEF PartAt
  <2> QED
    BY <2>2, BeforeIs
<1>7. CASE m < n
  <2>1. m \in 0 .. Len(a) /\ m < Len(a) /\ m # Len(b) /\ a[m + 1] = b[m + 1] /\ \A i \in 1 .. m : a[i] = b[i]
    BY <1>7, <1>3, <1>4
  <2>2. PartAt(a, c, m)
    BY <2>1, <1>4 DEF PartAt
  <2> QED
    BY <2>2, BeforeIs
<1>8. CASE n = m
  <2>1. \A i \in 1 .. n : a[i] = c[i]
    BY <1>8, <1>3, <1>4
  <2>2. n = Len(a) \/ (n < Len(a) /\ Rank[a[n + 1]] < Rank[c[n + 1]])
    <3>1. CASE n < Len(a)
      <4>1. Rank[a[n + 1]] < Rank[b[n + 1]] /\ Rank[b[n + 1]] < Rank[c[n + 1]]
        BY <1>8, <3>1, <1>3, <1>4
      <4>2. Rank[a[n + 1]] \in Int /\ Rank[b[n + 1]] \in Int /\ Rank[c[n + 1]] \in Int
        BY <1>8, <3>1, <1>3, <1>4, <1>5
      <4> QED
        BY <3>1, <4>1, <4>2
    <3> QED
      BY <3>1, <1>3
  <2>3. PartAt(a, c, n)
    BY <1>8, <2>1, <2>2, <1>3, <1>4 DEF PartAt
  <2> QED
    BY <2>3, BeforeIs
<1>9. n < m \/ m < n \/ n = m
  OBVIOUS
<1> QED
  BY <1>6, <1>7, <1>8, <1>9

\* How many names are before one.
Below(S, s) == {t \in S : Before(t, s)}

\* Every name has its place: the counts are those from none to all the others.
LEMMA EveryPlaceTaken ==
  ASSUME NEW S, IsFiniteSet(S), S \subseteq Seq(Char)
  PROVE  /\ Cardinality(S) \in Nat
         /\ \A s \in S : Cardinality(Below(S, s)) \in 0 .. Cardinality(S) - 1
         /\ \A s, t \in S : Cardinality(Below(S, s)) = Cardinality(Below(S, t)) => s = t
         /\ \A i \in 1 .. Cardinality(S) : \E s \in S : Cardinality(Below(S, s)) = i - 1
<1>1. Cardinality(S) \in Nat
  BY FS_CardinalityType
<1>2. ASSUME NEW s \in S
      PROVE  IsFiniteSet(Below(S, s)) /\ Cardinality(Below(S, s)) \in 0 .. Cardinality(S) - 1
  <2>1. Below(S, s) \in SUBSET S /\ s \notin Below(S, s)
    BY BeforeStrict DEF Below
  <2>2. /\ IsFiniteSet(Below(S, s)) /\ Cardinality(Below(S, s)) <= Cardinality(S)
        /\ Cardinality(S) = Cardinality(Below(S, s)) => S = Below(S, s)
    BY <2>1, FS_Subset
  <2>3. Cardinality(Below(S, s)) \in Nat
    BY <2>2, FS_CardinalityType
  <2> QED
    BY <1>1, <2>1, <2>2, <2>3
<1>3. ASSUME NEW s \in S, NEW t \in S, Before(s, t)
      PROVE  Cardinality(Below(S, s)) < Cardinality(Below(S, t))
  <2>1. s \in Below(S, t) /\ s \notin Below(S, s)
    BY <1>3, BeforeStrict DEF Below
  <2>2. ASSUME NEW u \in Below(S, s) PROVE u \in Below(S, t)
    <3>1. u \in S /\ Before(u, s)
      BY <2>2 DEF Below
    <3>2. Before(u, t)
      BY <3>1, <1>3, BeforeTransitive
    <3> QED
      BY <3>1, <3>2 DEF Below
  <2>3. Below(S, s) \in SUBSET Below(S, t)
    BY <2>2
  <2>4. /\ Cardinality(Below(S, s)) <= Cardinality(Below(S, t))
        /\ Cardinality(Below(S, t)) = Cardinality(Below(S, s)) => Below(S, t) = Below(S, s)
    BY <1>2, <2>3, FS_Subset
  <2>5. Cardinality(Below(S, s)) \in Nat /\ Cardinality(Below(S, t)) \in Nat
    BY <1>2
  <2> QED
    BY <2>1, <2>4, <2>5
<1>4. ASSUME NEW s \in S, NEW t \in S, Cardinality(Below(S, s)) = Cardinality(Below(S, t))
      PROVE  s = t
  <2>1. SUFFICES ASSUME s # t PROVE FALSE
    OBVIOUS
  <2>2. Before(s, t) \/ Before(t, s)
    BY <2>1, BeforeTotal
  <2>3. Cardinality(Below(S, s)) \in Int /\ Cardinality(Below(S, t)) \in Int
    BY <1>2
  <2> QED
    BY <2>2, <2>3, <1>3, <1>4
<1>5. ASSUME NEW i \in 1 .. Cardinality(S) PROVE \E s \in S : Cardinality(Below(S, s)) = i - 1
  <2> DEFINE n == Cardinality(S)
             f == [s \in S |-> Cardinality(Below(S, s))]
  <2>1. f \in Injection(S, 0 .. n - 1)
    <3>1. f \in [S -> 0 .. n - 1]
      BY <1>2
    <3>2. \A s, t \in S : f[s] = f[t] => s = t
      BY <1>4
    <3> QED
      BY <3>1, <3>2 DEF Injection, IsInjective
  <2>2. IsFiniteSet(0 .. n - 1) /\ Cardinality(0 .. n - 1) = n
    <3>1. 0 \in Int /\ n - 1 \in Int
      BY <1>1
    <3>2. /\ IsFiniteSet(0 .. n - 1)
          /\ Cardinality(0 .. n - 1) = IF 0 > n - 1 THEN 0 ELSE (n - 1) - 0 + 1
      BY <3>1, FS_Interval
    <3> QED
      BY <3>2, <1>1
  <2> HIDE DEF f
  <2>3. f \in Surjection(S, 0 .. n - 1)
    BY <2>1, <2>2, FS_Injection
  <2>4. i - 1 \in 0 .. n - 1
    BY <1>1
  <2>5. \E s \in S : f[s] = i - 1
    BY <2>3, <2>4 DEF Surjection
  <2> QED
    BY <2>5 DEF f
<1> QED
  BY <1>1, <1>2, <1>4, <1>5

\* remove_duplicate_matches keeps every match, once.
LEMMA SortedIs ==
  ASSUME NEW S, IsFiniteSet(S), S \subseteq Seq(Char)
  PROVE  /\ Sorted(S) \in Seq(S) /\ Len(Sorted(S)) = Cardinality(S)
         /\ ToSet(Sorted(S)) = S
         /\ \A i, j \in 1 .. Cardinality(S) : Sorted(S)[i] = Sorted(S)[j] => i = j
<1> DEFINE n == Cardinality(S)
           P(s, i) == Cardinality(Below(S, s)) = i - 1
<1>1. n \in Nat
  BY EveryPlaceTaken
<1>2. Sorted(S) = [i \in 1 .. n |-> CHOOSE s \in S : P(s, i)]
  BY DEF Sorted, Below
<1>3. \A i \in 1 .. n : \E s \in S : P(s, i)
  BY EveryPlaceTaken
<1>4. \A s \in S : Cardinality(Below(S, s)) \in 0 .. n - 1
  BY EveryPlaceTaken
<1>5. \A s, t \in S : Cardinality(Below(S, s)) = Cardinality(Below(S, t)) => s = t
  BY EveryPlaceTaken
<1>6. PICK q : q = Sorted(S)
  OBVIOUS
<1> HIDE DEF P
<1>7. \A i \in 1 .. n : q[i] \in S /\ P(q[i], i)
  BY <1>2, <1>3, <1>6
<1>8. q = [i \in 1 .. n |-> q[i]]
  BY <1>2, <1>6
<1>9. q \in Seq(S) /\ Len(q) = n
  BY <1>1, <1>7, <1>8
<1>10. ASSUME NEW i \in 1 .. n, NEW j \in 1 .. n, q[i] = q[j] PROVE i = j
  <2>1. Cardinality(Below(S, q[i])) = i - 1 /\ Cardinality(Below(S, q[j])) = j - 1
    BY <1>7 DEF P
  <2>2. i - 1 = j - 1
    BY <1>10, <2>1
  <2> QED
    BY <2>2, <1>1
<1>11. ASSUME NEW s \in S PROVE \E i \in 1 .. n : q[i] = s
  <2>1. PICK k \in 0 .. n - 1 : Cardinality(Below(S, s)) = k
    BY <1>4
  <2>2. k + 1 \in 1 .. n /\ (k + 1) - 1 = k
    BY <1>1
  <2>3. q[k + 1] \in S /\ Cardinality(Below(S, q[k + 1])) = k
    BY <2>2, <1>7 DEF P
  <2>4. q[k + 1] = s
    BY <2>1, <2>3, <1>5
  <2> QED
    BY <2>2, <2>4
<1>12. ToSet(q) = S
  <2>1. DOMAIN q = 1 .. n
    BY <1>9
  <2> QED
    BY <2>1, <1>7, <1>11 DEF ToSet
<1> QED
  BY <1>6, <1>9, <1>10, <1>12

-----------------------------------------------------------------------------
(* The common beginning *)

\* All have n characters, and they are the same.
AllSame(S, n) == \A s, t \in S : n <= Len(s) /\ Same(s, t, n)

\* compute_lcd_of_matches finds how far all of the matches are the same.
LEMMA CommonIs ==
  ASSUME NEW S, S # {}, S \subseteq Seq(Char)
  PROVE  Common(S) \in Nat /\ AllSame(S, Common(S)) /\ ~AllSame(S, Common(S) + 1)
<1> DEFINE Q(n) == /\ \A s, t \in S : Len(s) >= n /\ Fold(SubSeq(s, 1, n)) = Fold(SubSeq(t, 1, n))
                   /\ \E s, t \in S : Len(s) = n \/ Fold(SubSeq(s, 1, n + 1)) # Fold(SubSeq(t, 1, n + 1))
           s0 == CHOOSE s \in S : TRUE
           D == {n \in Nat : ~AllSame(S, n + 1)}
<1>1. Common(S) = CHOOSE n \in 0 .. Len(s0) : Q(n)
  BY DEF Common
<1>2. s0 \in S /\ s0 \in Seq(Char) /\ Len(s0) \in Nat
  OBVIOUS
<1> HIDE DEF s0
<1>3. \A s \in S : s \in Seq(Char) /\ Len(s) \in Nat
  OBVIOUS
<1>4. ASSUME NEW n \in Nat, \A s \in S : n <= Len(s)
      PROVE  (\A s, t \in S : Fold(SubSeq(s, 1, n)) = Fold(SubSeq(t, 1, n))) <=> AllSame(S, n)
  <2>1. ASSUME NEW s \in S, NEW t \in S
        PROVE  Fold(SubSeq(s, 1, n)) = Fold(SubSeq(t, 1, n)) <=> Same(s, t, n)
    <3>1. n \in 0 .. Len(s) /\ n <= Len(t) /\ s \in Seq(Char) /\ t \in Seq(Char)
      BY <1>3, <1>4
    <3> QED
      BY <3>1, SameBeginnings
  <2> QED
    BY <2>1, <1>4 DEF AllSame
<1>5. ASSUME NEW n \in Nat PROVE Q(n) <=> AllSame(S, n) /\ ~AllSame(S, n + 1)
  <2>1. CASE \A s \in S : n + 1 <= Len(s)
    <3>1. \A s \in S : n <= Len(s) /\ Len(s) # n
      BY <2>1, <1>3
    <3>2. n + 1 \in Nat
      OBVIOUS
    <3>3. (\A s, t \in S : Fold(SubSeq(s, 1, n + 1)) = Fold(SubSeq(t, 1, n + 1))) <=> AllSame(S, n + 1)
      BY <2>1, <3>2, <1>4
    <3>4. (\A s, t \in S : Fold(SubSeq(s, 1, n)) = Fold(SubSeq(t, 1, n))) <=> AllSame(S, n)
      BY <3>1, <1>4
    <3> QED
      BY <3>1, <3>3, <3>4, <1>3
  <2>2. CASE \E s \in S : ~(n + 1 <= Len(s))
    <3>1. ~AllSame(S, n + 1)
      BY <2>2 DEF AllSame
    <3>2. CASE \A s \in S : n <= Len(s)
      <4>1. \E s \in S : Len(s) = n
        BY <2>2, <3>2, <1>3
      <4>2. (\A s, t \in S : Fold(SubSeq(s, 1, n)) = Fold(SubSeq(t, 1, n))) <=> AllSame(S, n)
        BY <3>2, <1>4
      <4>3. Q(n) <=> \A s, t \in S : Fold(SubSeq(s, 1, n)) = Fold(SubSeq(t, 1, n))
        BY <3>2, <4>1, <1>3
      <4> QED
        BY <3>1, <4>2, <4>3
    <3>3. CASE \E s \in S : ~(n <= Len(s))
      <4>1. ~AllSame(S, n)
        BY <3>3 DEF AllSame
      <4>2. ~Q(n)
        BY <3>3, <1>3
      <4> QED
        BY <4>1, <4>2
    <3> QED
      BY <3>2, <3>3
  <2> QED
    BY <2>1, <2>2
<1>6. D \in SUBSET Nat /\ Len(s0) \in D
  <2>1. ~AllSame(S, Len(s0) + 1)
    BY <1>2 DEF AllSame
  <2> QED
    BY <2>1, <1>2
<1>7. PICK n \in D : \A m \in D : n <= m
  <2> HIDE DEF D
  <2>1. D # {}
    BY <1>6
  <2> QED
    BY <1>6, <2>1, LeastNumber
<1>8. n \in Nat /\ ~AllSame(S, n + 1)
  OBVIOUS
<1>9. AllSame(S, n)
  <2>1. CASE n = 0
    BY <2>1, <1>3 DEF AllSame, Same
  <2>2. CASE n # 0
    <3>1. n - 1 \in Nat /\ (n - 1) + 1 = n /\ ~(n <= n - 1)
      BY <2>2, <1>8
    <3>2. n - 1 \notin D
      BY <3>1, <1>7
    <3> QED
      BY <3>1, <3>2
  <2> QED
    BY <2>1, <2>2
<1>10. n \in 0 .. Len(s0)
  BY <1>2, <1>8, <1>9 DEF AllSame
<1>11. Q(n)
  BY <1>5, <1>8, <1>9
<1> HIDE DEF Q
<1>12. Common(S) \in 0 .. Len(s0) /\ Q(Common(S))
  BY <1>1, <1>10, <1>11
<1> QED
  BY <1>2, <1>5, <1>12

\* compute_lcd_of_matches takes the word, or the beginning of one of the matches.
LEMMA CommonBeginningIs ==
  ASSUME NEW S, S # {}, IsFiniteSet(S), S \subseteq Seq(Char), NEW w \in Seq(Char)
  PROVE  /\ CommonBeginning(S, w) \in Seq(Char)
         /\ CommonBeginning(S, w) = <<>> => w = <<>>
         /\ \/ Common(S) = 0 /\ w # <<>> /\ CommonBeginning(S, w) = w
            \/ \E s \in S : CommonBeginning(S, w) = SubSeq(s, 1, Common(S))
<1>1. PICK n \in Nat : n = Common(S)
  BY CommonIs
<1> DEFINE typed == {s \in S : /\ Len(w) <= n => Starts(w, s)
                               /\ Len(w) > n => Starts(SubSeq(w, 1, n), s)}
<1>2. PICK X : X = IF set.fold /\ typed # {} THEN typed ELSE S
  OBVIOUS
<1>3. CommonBeginning(S, w) = IF n = 0 /\ w # <<>> THEN w ELSE SubSeq(Sorted(X)[1], 1, n)
  BY <1>1, <1>2 DEF CommonBeginning
<1>4. X \in SUBSET S /\ X # {}
  BY <1>2
<1> HIDE DEF typed
<1>5. IsFiniteSet(X) /\ X \subseteq Seq(Char)
  BY <1>4, FS_Subset
<1>6. Sorted(X) \in Seq(X) /\ Len(Sorted(X)) = Cardinality(X)
  BY <1>5, SortedIs
<1>7. Cardinality(X) \in Nat /\ Cardinality(X) # 0
  BY <1>4, <1>5, FS_CardinalityType, FS_EmptySet
<1>8. PICK s : s = Sorted(X)[1]
  OBVIOUS
<1>9. s \in X
  BY <1>6, <1>7, <1>8
<1>10. s \in S /\ s \in Seq(Char)
  BY <1>4, <1>9
<1>11. n <= Len(s)
  BY <1>1, <1>10, CommonIs DEF AllSame
<1>12. SubSeq(s, 1, n) \in Seq(Char) /\ Len(SubSeq(s, 1, n)) = n
  <2>1. n \in 0 .. Len(s)
    BY <1>10, <1>11
  <2> QED
    BY <1>10, <2>1, FirstPart
<1>13. CommonBeginning(S, w) = <<>> => w = <<>>
  <2>1. SubSeq(s, 1, n) = <<>> => n = 0
    BY <1>12
  <2> QED
    BY <2>1, <1>3, <1>8
<1> QED
  BY <1>1, <1>3, <1>8, <1>10, <1>12, <1>13

\* postprocess_matches: a single match alone, or the common beginning and then
\* every match once.
LEMMA MatchesAre ==
  ASSUME NEW S, S # {}, IsFiniteSet(S), S \subseteq Seq(Char), NEW w \in Seq(Char)
  PROVE  /\ Matches(S, w) \in Seq(Seq(Char))
         /\ \/ \E s \in S : S = {s} /\ Matches(S, w) = <<s>> /\ Len(Matches(S, w)) = 1 /\ Matches(S, w)[1] = s
            \/ /\ Cardinality(S) > 1 /\ Len(Matches(S, w)) = Cardinality(S) + 1
               /\ Matches(S, w)[1] = CommonBeginning(S, w) /\ Tail(Matches(S, w)) = Sorted(S)
<1>1. Cardinality(S) \in Nat /\ Cardinality(S) # 0
  BY FS_CardinalityType, FS_EmptySet
<1>2. CASE Cardinality(S) = 1
  <2>1. PICK s : S = {s}
    BY <1>2, FS_Singleton
  <2>2. Matches(S, w) = <<s>>
    BY <1>2, <2>1 DEF Matches
  <2>3. s \in Seq(Char)
    BY <2>1
  <2>4. <<s>> \in Seq(Seq(Char)) /\ Len(<<s>>) = 1 /\ <<s>>[1] = s
    BY <2>3
  <2> QED
    BY <2>1, <2>2, <2>4
<1>3. CASE Cardinality(S) # 1
  <2>1. PICK b : b = CommonBeginning(S, w)
    OBVIOUS
  <2>2. PICK q : q = Sorted(S)
    OBVIOUS
  <2>3. b \in Seq(Char)
    BY <2>1, CommonBeginningIs
  <2>4. q \in Seq(S) /\ Len(q) = Cardinality(S)
    BY <2>2, SortedIs
  <2>5. q \in Seq(Seq(Char)) /\ <<b>> \in Seq(Seq(Char)) /\ Len(<<b>>) = 1 /\ <<b>>[1] = b
    BY <2>3, <2>4, SeqMonotonic
  <2>6. PICK m : m = <<b>> \o q
    OBVIOUS
  <2>7. /\ m \in Seq(Seq(Char)) /\ Len(m) = Len(<<b>>) + Len(q)
        /\ \A i \in 1 .. Len(<<b>>) : m[i] = <<b>>[i]
        /\ \A i \in 1 .. Len(q) : m[Len(<<b>>) + i] = q[i]
    BY <2>5, <2>6, BehindIs
  <2>8. Len(m) = Len(q) + 1 /\ m[1] = b
    BY <2>4, <2>5, <2>7, <1>1
  <2>9. Tail(m) = q
    <3>1. m = <<b>> \o q /\ q \in Seq(Seq(Char)) /\ m \in Seq(Seq(Char)) /\ m # <<>>
      BY <2>5, <2>6, <2>7, <2>8, <1>1
    <3>2. PICK r : r = Tail(m)
      OBVIOUS
    <3>3. r \in Seq(Seq(Char)) /\ Len(r) = Len(m) - 1 /\ \A i \in 1 .. Len(r) : r[i] = m[i + 1]
      BY <3>1, <3>2
    <3>4. \A i \in 1 .. Len(q) : m[1 + i] = q[i]
      BY <2>5, <2>7
    <3>5. Len(r) = Len(q) /\ \A i \in 1 .. Len(r) : r[i] = q[i]
      BY <3>3, <3>4, <2>8, <3>1
    <3>6. r = q
      BY <3>1, <3>3, <3>5, SameSequence
    <3> QED
      BY <3>2, <3>6
  <2>10. Matches(S, w) = m
    BY <1>3, <2>1, <2>2, <2>6 DEF Matches
  <2>11. Cardinality(S) > 1
    BY <1>1, <1>3
  <2> QED
    BY <2>1, <2>2, <2>4, <2>7, <2>8, <2>9, <2>10, <2>11
<1> QED
  BY <1>2, <1>3

-----------------------------------------------------------------------------
(* The line *)

\* A line and a place in it.
IsText(t) ==
  /\ t = [line |-> t.line, point |-> t.point]
  /\ t.line \in Seq(Char) /\ t.point \in 0 .. Len(t.line)

\* What stands in a line up to its point.
WordIn(t, start) == SubSeq(t.line, start + 1, t.point)

\* What is around a word is as it was, but for what followed and is now in it.
Around(t, b, start) ==
  /\ SubSeq(t.line, 1, start) = SubSeq(b.line, 1, start)
  /\ LET old == From(b.line, b.point)
         new == From(t.line, t.point)
     IN  old = new \/ (set.skip /\ \E n \in 0 .. Len(old) : new = From(old, n))

\* r is the text t with the word new put between two of its places.
Spliced(r, t, from, upto, new) ==
  /\ IsText(r) /\ r.point = from + Len(new)
  /\ Len(r.line) = from + Len(new) + (Len(t.line) - upto)
  /\ \A i \in 1 .. from : r.line[i] = t.line[i]
  /\ \A i \in 1 .. Len(new) : r.line[from + i] = new[i]
  /\ \A i \in 1 .. Len(t.line) - upto : r.line[r.point + i] = t.line[upto + i]
  /\ From(r.line, r.point) = From(t.line, upto)

\* A word that is put between two places.
LEMMA SpliceIs ==
  ASSUME NEW t, IsText(t), NEW from \in 0 .. Len(t.line), NEW upto \in from .. Len(t.line),
         NEW new \in Seq(Char)
  PROVE  Spliced(Splice(t, from, upto, new), t, from, upto, new)
<1>1. PICK a : a = SubSeq(t.line, 1, from)
  OBVIOUS
<1>2. PICK c : c = SubSeq(t.line, upto + 1, Len(t.line))
  OBVIOUS
<1>3. t.line \in Seq(Char)
  BY DEF IsText
<1>4. a \in Seq(Char) /\ Len(a) = from /\ \A i \in 1 .. from : a[i] = t.line[i]
  BY <1>1, <1>3, FirstPart
<1>5. c = From(t.line, upto)
  BY <1>2 DEF From
<1>6. upto \in 0 .. Len(t.line)
  BY <1>3
<1>7. c \in Seq(Char) /\ Len(c) = Len(t.line) - upto /\ \A i \in 1 .. Len(t.line) - upto : c[i] = t.line[upto + i]
  BY <1>3, <1>5, <1>6, LastPart
<1>8. PICK d : d = a \o new
  OBVIOUS
<1>9. /\ d \in Seq(Char) /\ Len(d) = Len(a) + Len(new)
      /\ \A i \in 1 .. Len(a) : d[i] = a[i]
      /\ \A i \in 1 .. Len(new) : d[Len(a) + i] = new[i]
  <2>1. a \in Seq(Char) /\ new \in Seq(Char)
    BY <1>4
  <2> QED
    BY ONLY <2>1, <1>8, BehindIs
<1>10. PICK l : l = d \o c
  OBVIOUS
<1>11. /\ l \in Seq(Char) /\ Len(l) = Len(d) + Len(c)
       /\ \A i \in 1 .. Len(d) : l[i] = d[i]
       /\ \A i \in 1 .. Len(c) : l[Len(d) + i] = c[i]
  <2>1. d \in Seq(Char) /\ c \in Seq(Char)
    BY <1>7, <1>9
  <2> QED
    BY ONLY <2>1, <1>10, BehindIs
<1>12. PICK r : r = Splice(t, from, upto, new)
  OBVIOUS
<1>13. r = [line |-> l, point |-> from + Len(new)]
  BY <1>1, <1>2, <1>8, <1>10, <1>12 DEF Splice
<1>14. r.line = l /\ r.point = from + Len(new) /\ r = [line |-> r.line, point |-> r.point]
  BY <1>13
<1>15. Len(new) \in Nat /\ Len(d) = from + Len(new) /\ Len(l) = from + Len(new) + (Len(t.line) - upto)
  BY <1>3, <1>4, <1>7, <1>9, <1>11
<1>16. IsText(r)
  BY <1>3, <1>11, <1>14, <1>15 DEF IsText
<1>17. ASSUME NEW i \in 1 .. from PROVE l[i] = t.line[i]
  <2>1. i \in 1 .. Len(a) /\ i \in 1 .. Len(d)
    BY <1>4, <1>15
  <2> QED
    BY <2>1, <1>4, <1>9, <1>11
<1>18. ASSUME NEW i \in 1 .. Len(new) PROVE l[from + i] = new[i]
  <2>1. from + i \in 1 .. Len(d) /\ Len(a) + i = from + i
    BY <1>4, <1>15
  <2>2. d[from + i] = new[i]
    BY <2>1, <1>9
  <2> QED
    BY <2>1, <2>2, <1>11
<1>19. ASSUME NEW i \in 1 .. Len(t.line) - upto PROVE l[r.point + i] = t.line[upto + i]
  BY <1>7, <1>11, <1>14, <1>15
<1>20. From(l, Len(d)) = c
  BY <1>7, <1>9, <1>10, PartsOfBoth
<1>21. From(r.line, r.point) = From(t.line, upto)
  BY <1>5, <1>14, <1>15, <1>20
<1> QED
  BY <1>12, <1>14, <1>15, <1>16, <1>17, <1>18, <1>19, <1>21 DEF Spliced

\* A beginning that two lines have in common.
LEMMA SameFirstPart ==
  ASSUME NEW s \in Seq(Char), NEW t \in Seq(Char), NEW n \in 0 .. Len(s), n <= Len(t),
         \A i \in 1 .. n : s[i] = t[i]
  PROVE  SubSeq(s, 1, n) = SubSeq(t, 1, n)
<1>1. PICK a : a = SubSeq(s, 1, n)
  OBVIOUS
<1>2. PICK b : b = SubSeq(t, 1, n)
  OBVIOUS
<1>3. a \in Seq(Char) /\ Len(a) = n /\ \A i \in 1 .. n : a[i] = s[i]
  BY <1>1, FirstPart
<1>4. b \in Seq(Char) /\ Len(b) = n /\ \A i \in 1 .. n : b[i] = t[i]
  <2>1. n \in 0 .. Len(t)
    OBVIOUS
  <2> QED
    BY <1>2, <2>1, FirstPart
<1>5. a = b
  BY <1>3, <1>4, SameSequence
<1> QED
  BY <1>1, <1>2, <1>5

\* The word of a line, character by character.
LEMMA WordInIs ==
  ASSUME NEW t, IsText(t), NEW start \in 0 .. t.point
  PROVE  /\ WordIn(t, start) \in Seq(Char) /\ Len(WordIn(t, start)) = t.point - start
         /\ \A i \in 1 .. t.point - start : WordIn(t, start)[i] = t.line[start + i]
<1>1. t.line \in Seq(Char) /\ t.point \in 0 .. Len(t.line)
  BY DEF IsText
<1>2. start + 1 \in 1 .. Len(t.line) + 1 /\ t.point \in (start + 1) - 1 .. Len(t.line)
  BY <1>1
<1>3. PICK w : w = SubSeq(t.line, start + 1, t.point)
  OBVIOUS
<1>4. /\ w \in Seq(Char) /\ Len(w) = t.point - (start + 1) + 1
      /\ \A i \in 1 .. t.point - (start + 1) + 1 : w[i] = t.line[(start + 1) + i - 1]
  BY <1>1, <1>2, <1>3, PartIs
<1>5. t.point - (start + 1) + 1 = t.point - start
  BY <1>1
<1>6. ASSUME NEW i \in 1 .. t.point - start PROVE w[i] = t.line[start + i]
  <2>1. (start + 1) + i - 1 = start + i
    BY <1>1
  <2> QED
    BY <2>1, <1>4, <1>5
<1>7. w = WordIn(t, start)
  BY <1>3 DEF WordIn
<1> QED
  BY <1>4, <1>5, <1>6, <1>7

\* How much of a word already follows.
LEMMA AgreeIs ==
  ASSUME NEW t, IsText(t), NEW start \in 0 .. t.point, NEW new \in Seq(Char)
  PROVE  /\ Agree(t, new, start) \in 0 .. Len(new) /\ start + Agree(t, new, start) <= Len(t.line)
         /\ \A i \in 1 .. Agree(t, new, start) : t.line[start + i] = new[i]
<1>1. t.line \in Seq(Char) /\ t.point \in 0 .. Len(t.line) /\ start \in 0 .. Len(t.line) /\ Len(new) \in Nat
  BY DEF IsText
<1>2. PICK f : f = SubSeq(t.line, start + 1, Len(t.line))
  OBVIOUS
<1>3. f = From(t.line, start)
  BY <1>2 DEF From
<1>4. f \in Seq(Char) /\ Len(f) = Len(t.line) - start /\ \A i \in 1 .. Len(t.line) - start : f[i] = t.line[start + i]
  BY <1>1, <1>3, LastPart
<1> DEFINE G(n) == Starts(SubSeq(new, 1, n), f)
           P(n) == n \in 0 .. Len(new) /\ G(n) /\ (n = Len(new) \/ ~G(n + 1))
           D == {n \in Nat : n = Len(new) \/ ~G(n + 1)}
<1>5. ASSUME NEW n \in 0 .. Len(new)
      PROVE  G(n) <=> n <= Len(f) /\ \A i \in 1 .. n : new[i] = f[i]
  <2>1. PICK b : b = SubSeq(new, 1, n)
    OBVIOUS
  <2>2. b \in Seq(Char) /\ Len(b) = n /\ \A i \in 1 .. n : b[i] = new[i]
    BY <2>1, FirstPart
  <2>3. Starts(b, f) <=> Len(b) <= Len(f) /\ \A i \in 1 .. Len(b) : b[i] = f[i]
    <3>1. b \in Seq(Char) /\ f \in Seq(Char)
      BY <2>2, <1>4
    <3> QED
      BY ONLY <3>1, StartsIs
  <2> QED
    BY <2>1, <2>2, <2>3
<1>6. Agree(t, new, start) = CHOOSE n \in 0 .. Len(new) : G(n) /\ (n = Len(new) \/ ~G(n + 1))
  BY <1>2 DEF Agree
<1>7. D \in SUBSET Nat /\ Len(new) \in D
  BY <1>1
<1>8. PICK n \in D : \A m \in D : n <= m
  <2> HIDE DEF D
  <2>1. D # {}
    BY <1>7
  <2> QED
    BY <1>7, <2>1, LeastNumber
<1>9. n \in Nat /\ n <= Len(new) /\ (n = Len(new) \/ ~G(n + 1))
  BY <1>7, <1>8
<1>10. G(n)
  <2>1. CASE n = 0
    <3>1. 0 \in 0 .. Len(new) /\ 0 <= Len(f)
      BY <1>1, <1>4
    <3> QED
      BY <2>1, <3>1, <1>5
  <2>2. CASE n # 0
    <3>1. n - 1 \in Nat /\ ~(n <= n - 1) /\ (n - 1) + 1 = n
      BY <2>2, <1>9
    <3>2. n - 1 \notin D
      BY <3>1, <1>8
    <3> QED
      BY <3>1, <3>2
  <2> QED
    BY <2>1, <2>2
<1> HIDE DEF G, D
<1>11. PICK k : k = Agree(t, new, start)
  OBVIOUS
<1>12. n \in 0 .. Len(new) /\ (G(n) /\ (n = Len(new) \/ ~G(n + 1)))
  BY <1>1, <1>9, <1>10
<1>13. k \in 0 .. Len(new) /\ G(k)
  BY <1>6, <1>11, <1>12
<1>14. k <= Len(f) /\ \A i \in 1 .. k : new[i] = f[i]
  BY <1>5, <1>13
<1>15. start + k <= Len(t.line)
  BY <1>1, <1>4, <1>13, <1>14
<1>16. \A i \in 1 .. k : t.line[start + i] = new[i]
  BY <1>1, <1>4, <1>13, <1>14
<1> QED
  BY <1>11, <1>13, <1>15, <1>16

\* insert_match puts a match into the place of the word, and what follows goes
\* on from a place behind it.
LEMMA InsertMatchIs ==
  ASSUME NEW t, IsText(t), NEW start \in 0 .. t.point, NEW new \in Seq(Char)
  PROVE  LET r == InsertMatch(t, new, start)
         IN  /\ IsText(r) /\ r.point = start + Len(new)
             /\ \A i \in 1 .. start : r.line[i] = t.line[i]
             /\ \A i \in 1 .. Len(new) : r.line[start + i] = new[i]
             /\ \E k \in 0 .. Len(t.line) - t.point :
                  /\ k # 0 => set.skip
                  /\ From(r.line, r.point) = From(t.line, t.point + k)
<1>1. t.line \in Seq(Char) /\ t.point \in 0 .. Len(t.line) /\ start \in 0 .. Len(t.line) /\ Len(new) \in Nat
  BY DEF IsText
<1>2. PICK n : n = IF set.skip THEN Agree(t, new, start) ELSE 0
  OBVIOUS
<1>3. /\ n \in 0 .. Len(new) /\ start + n <= Len(t.line) /\ (n # 0 => set.skip)
      /\ \A i \in 1 .. n : t.line[start + i] = new[i]
  <2>1. CASE set.skip
    BY <2>1, <1>2, AgreeIs
  <2>2. CASE ~set.skip
    BY <2>2, <1>1, <1>2
  <2> QED
    BY <2>1, <2>2
<1>4. PICK from : from = start + n
  OBVIOUS
<1>5. PICK upto : upto = IF from < t.point THEN t.point ELSE from
  OBVIOUS
<1>6. from \in 0 .. Len(t.line) /\ upto \in from .. Len(t.line) /\ upto \in t.point .. Len(t.line)
  BY <1>1, <1>3, <1>4, <1>5
<1>7. PICK b : b = SubSeq(new, n + 1, Len(new))
  OBVIOUS
<1>8. b = From(new, n)
  BY <1>7 DEF From
<1>9. b \in Seq(Char) /\ Len(b) = Len(new) - n /\ \A i \in 1 .. Len(new) - n : b[i] = new[n + i]
  BY <1>3, <1>8, LastPart
<1>10. PICK r : r = Splice(t, from, upto, b)
  OBVIOUS
<1>11. InsertMatch(t, new, start) = r
  BY <1>2, <1>4, <1>5, <1>7, <1>10 DEF InsertMatch
<1>12. /\ IsText(r) /\ r.point = from + Len(b)
       /\ \A i \in 1 .. from : r.line[i] = t.line[i]
       /\ \A i \in 1 .. Len(b) : r.line[from + i] = b[i]
       /\ From(r.line, r.point) = From(t.line, upto)
  <2>1. b \in Seq(Char) /\ IsText(t)
    BY <1>9
  <2>2. Spliced(Splice(t, from, upto, b), t, from, upto, b)
    BY ONLY <2>1, <1>6, SpliceIs
  <2> QED
    BY ONLY <2>2, <1>10 DEF Spliced
<1>13. r.point = start + Len(new)
  BY <1>1, <1>3, <1>4, <1>9, <1>12
<1>14. \A i \in 1 .. start : r.line[i] = t.line[i]
  BY <1>1, <1>3, <1>4, <1>12
<1>15. ASSUME NEW i \in 1 .. Len(new) PROVE r.line[start + i] = new[i]
  <2>1. CASE i <= n
    <3>1. i \in 1 .. n /\ start + i \in 1 .. from
      BY <2>1, <1>1, <1>3, <1>4
    <3> QED
      BY <3>1, <1>3, <1>12
  <2>2. CASE i > n
    <3>1. i - n \in 1 .. Len(b) /\ i - n \in 1 .. Len(new) - n /\ from + (i - n) = start + i /\ n + (i - n) = i
      <4>1. PICK l, lb : l = Len(new) /\ lb = Len(b)
        OBVIOUS
      <4>2. l \in Nat /\ n \in 0 .. l /\ i \in 1 .. l /\ i > n /\ start \in Nat
        BY <2>2, <1>1, <1>3, <4>1
      <4>3. lb = l - n
        BY <1>9, <4>1
      <4>4. i - n \in 1 .. l - n /\ start + n + (i - n) = start + i /\ n + (i - n) = i
        BY ONLY <4>2
      <4> QED
        BY ONLY <4>1, <4>3, <4>4, <1>4
    <3>2. r.line[from + (i - n)] = b[i - n]
      BY <3>1, <1>12
    <3>3. b[i - n] = new[n + (i - n)]
      BY <3>1, <1>9
    <3> QED
      BY <3>1, <3>2, <3>3
  <2> QED
    BY <2>1, <2>2, <1>3
<1>16. \E k \in 0 .. Len(t.line) - t.point :
         /\ k # 0 => set.skip
         /\ From(r.line, r.point) = From(t.line, t.point + k)
  <2>1. upto - t.point \in 0 .. Len(t.line) - t.point /\ t.point + (upto - t.point) = upto
    BY <1>1, <1>6
  <2>2. upto - t.point # 0 => set.skip
    <3>1. n = 0 => upto = t.point
      BY <1>1, <1>3, <1>4, <1>5
    <3> QED
      BY <3>1, <1>3, <1>1
  <2> QED
    BY <2>1, <2>2, <1>12
<1> QED
  BY <1>11, <1>12, <1>13, <1>14, <1>15, <1>16

\* A line in which something stands in the place of the word.
Stands(t, b, start) == IsText(t) /\ start \in 0 .. t.point /\ Around(t, b, start)

\* The line itself is one.
LEMMA StandsFirst ==
  ASSUME NEW b, IsText(b), NEW start \in 0 .. b.point
  PROVE  Stands(b, b, start)
BY DEF Stands, Around

\* What followed is gone but for its last part.
LEMMA RestGoesOn ==
  ASSUME NEW old \in Seq(Char), NEW rest, NEW k \in Nat,
         old = rest \/ (set.skip /\ \E n \in 0 .. Len(old) : rest = From(old, n)),
         k <= Len(rest), k # 0 => set.skip
  PROVE  old = From(rest, k) \/ (set.skip /\ \E n \in 0 .. Len(old) : From(rest, k) = From(old, n))
<1>1. Len(old) \in Nat
  OBVIOUS
<1>2. CASE k = 0
  <2>1. rest \in Seq(Char)
    BY LastPart
  <2>2. From(rest, 0) = rest
    <3>1. PICK f : f = From(rest, 0)
      OBVIOUS
    <3>2. 0 \in 0 .. Len(rest)
      BY <2>1
    <3>3. f \in Seq(Char) /\ Len(f) = Len(rest) - 0 /\ \A i \in 1 .. Len(rest) - 0 : f[i] = rest[0 + i]
      BY <2>1, <3>1, <3>2, LastPart
    <3>4. Len(f) = Len(rest) /\ \A i \in 1 .. Len(f) : f[i] = rest[i]
      BY <2>1, <3>3
    <3>5. f = rest
      BY <2>1, <3>3, <3>4, SameSequence
    <3> QED
      BY <3>1, <3>5
  <2> QED
    BY <1>2, <2>2
<1>3. CASE k # 0
  <2>1. set.skip
    BY <1>3
  <2>2. CASE old = rest
    BY <2>1, <2>2, <1>1
  <2>3. CASE \E n \in 0 .. Len(old) : rest = From(old, n)
    <3>1. PICK n \in 0 .. Len(old) : rest = From(old, n)
      BY <2>3
    <3>2. Len(rest) = Len(old) - n
      BY <3>1, LastPart
    <3>3. k \in 0 .. Len(old) - n /\ n + k \in 0 .. Len(old)
      BY <3>2, <1>1
    <3>4. From(rest, k) = From(old, n + k)
      BY <3>1, <3>3, LastOfLast
    <3> QED
      BY <2>1, <3>3, <3>4
  <2> QED
    BY <2>2, <2>3
<1> QED
  BY <1>2, <1>3

\* Something else is put into the place of the word.
LEMMA StandsStill ==
  ASSUME NEW b, IsText(b), NEW start \in 0 .. b.point, NEW t, Stands(t, b, start),
         NEW r, IsText(r), r.point >= start,
         \A i \in 1 .. start : r.line[i] = t.line[i],
         NEW k \in 0 .. Len(t.line) - t.point, k # 0 => set.skip,
         From(r.line, r.point) = From(t.line, t.point + k)
  PROVE  Stands(r, b, start)
<1>1. IsText(t) /\ start \in 0 .. t.point /\ Around(t, b, start)
  BY DEF Stands
<1>2. /\ t.line \in Seq(Char) /\ t.point \in 0 .. Len(t.line)
      /\ r.line \in Seq(Char) /\ r.point \in 0 .. Len(r.line)
      /\ b.line \in Seq(Char) /\ b.point \in 0 .. Len(b.line)
  BY <1>1 DEF IsText
<1>3. SubSeq(r.line, 1, start) = SubSeq(t.line, 1, start)
  <2>1. start \in 0 .. Len(r.line) /\ start <= Len(t.line)
    BY <1>1, <1>2
  <2> QED
    BY <2>1, <1>2, SameFirstPart
<1>4. PICK old : old = From(b.line, b.point)
  OBVIOUS
<1>5. PICK rest : rest = From(t.line, t.point)
  OBVIOUS
<1>6. old \in Seq(Char) /\ Len(rest) = Len(t.line) - t.point
  BY <1>2, <1>4, <1>5, LastPart
<1>7. /\ SubSeq(t.line, 1, start) = SubSeq(b.line, 1, start)
      /\ old = rest \/ (set.skip /\ \E n \in 0 .. Len(old) : rest = From(old, n))
  BY <1>1, <1>4, <1>5 DEF Around
<1>8. From(rest, k) = From(t.line, t.point + k)
  BY <1>2, <1>5, LastOfLast
<1>9. k \in Nat /\ k <= Len(rest)
  BY <1>2, <1>6
<1>10. old = From(rest, k) \/ (set.skip /\ \E n \in 0 .. Len(old) : From(rest, k) = From(old, n))
  BY <1>6, <1>7, <1>9, RestGoesOn
<1>11. Around(r, b, start)
  BY <1>3, <1>4, <1>7, <1>8, <1>10 DEF Around
<1>12. start \in 0 .. r.point
  BY <1>2
<1> QED
  BY <1>11, <1>12 DEF Stands

\* insert_match leaves the match in the place of the word.
LEMMA InsertedStands ==
  ASSUME NEW b, IsText(b), NEW start \in 0 .. b.point, NEW t, Stands(t, b, start), NEW new \in Seq(Char)
  PROVE  /\ Stands(InsertMatch(t, new, start), b, start)
         /\ WordIn(InsertMatch(t, new, start), start) = new
<1>1. IsText(t) /\ start \in 0 .. t.point
  BY DEF Stands
<1>2. PICK r : r = InsertMatch(t, new, start)
  OBVIOUS
<1>3. LET q == InsertMatch(t, new, start)
      IN  /\ IsText(q) /\ q.point = start + Len(new)
          /\ \A i \in 1 .. start : q.line[i] = t.line[i]
          /\ \A i \in 1 .. Len(new) : q.line[start + i] = new[i]
          /\ \E k \in 0 .. Len(t.line) - t.point :
               /\ k # 0 => set.skip
               /\ From(q.line, q.point) = From(t.line, t.point + k)
  BY ONLY <1>1, new \in Seq(Char), InsertMatchIs
<1>4. /\ IsText(r) /\ r.point = start + Len(new)
      /\ \A i \in 1 .. start : r.line[i] = t.line[i]
      /\ \A i \in 1 .. Len(new) : r.line[start + i] = new[i]
      /\ \E k \in 0 .. Len(t.line) - t.point :
           /\ k # 0 => set.skip
           /\ From(r.line, r.point) = From(t.line, t.point + k)
  BY ONLY <1>2, <1>3
<1>5. PICK k \in 0 .. Len(t.line) - t.point :
        /\ k # 0 => set.skip
        /\ From(r.line, r.point) = From(t.line, t.point + k)
  BY <1>4
<1>6. Len(new) \in Nat /\ r.point >= start /\ start \in 0 .. r.point
  BY <1>4
<1>7. Stands(r, b, start)
  BY <1>4, <1>5, <1>6, StandsStill
<1>8. PICK w : w = WordIn(r, start)
  OBVIOUS
<1>9. /\ w \in Seq(Char) /\ Len(w) = r.point - start
      /\ \A i \in 1 .. r.point - start : w[i] = r.line[start + i]
  BY <1>4, <1>6, <1>8, WordInIs
<1>10. r.point - start = Len(new)
  BY <1>4, <1>6
<1>11. w = new
  BY <1>4, <1>9, <1>10, SameSequence
<1> QED
  BY <1>2, <1>7, <1>8, <1>11

\* Text at point goes behind the word.
LEMMA SplicedStands ==
  ASSUME NEW b, IsText(b), NEW start \in 0 .. b.point, NEW t, Stands(t, b, start), NEW end \in Seq(Char)
  PROVE  /\ Stands(Splice(t, t.point, t.point, end), b, start)
         /\ WordIn(Splice(t, t.point, t.point, end), start) = WordIn(t, start) \o end
<1>1. IsText(t) /\ start \in 0 .. t.point
  BY DEF Stands
<1>2. t.line \in Seq(Char) /\ t.point \in 0 .. Len(t.line) /\ t.point \in t.point .. Len(t.line)
  BY <1>1 DEF IsText
<1>3. PICK r : r = Splice(t, t.point, t.point, end)
  OBVIOUS
<1>4. Spliced(Splice(t, t.point, t.point, end), t, t.point, t.point, end)
  BY ONLY <1>1, <1>2, end \in Seq(Char), SpliceIs
<1>5. /\ IsText(r) /\ r.point = t.point + Len(end)
      /\ \A i \in 1 .. t.point : r.line[i] = t.line[i]
      /\ \A i \in 1 .. Len(end) : r.line[t.point + i] = end[i]
      /\ From(r.line, r.point) = From(t.line, t.point)
  BY ONLY <1>3, <1>4 DEF Spliced
<1>6. Len(end) \in Nat /\ r.point >= start /\ start \in 0 .. r.point
  BY <1>1, <1>2, <1>5
<1>7. Stands(r, b, start)
  <2>1. \A i \in 1 .. start : r.line[i] = t.line[i]
    BY <1>1, <1>2, <1>5
  <2>2. 0 \in 0 .. Len(t.line) - t.point /\ From(r.line, r.point) = From(t.line, t.point + 0)
    BY <1>2, <1>5
  <2> QED
    BY <2>1, <2>2, <1>5, <1>6, StandsStill
<1>8. PICK w : w = WordIn(r, start)
  OBVIOUS
<1>9. /\ w \in Seq(Char) /\ Len(w) = r.point - start
      /\ \A i \in 1 .. r.point - start : w[i] = r.line[start + i]
  BY <1>5, <1>6, <1>8, WordInIs
<1>10. PICK v : v = WordIn(t, start)
  OBVIOUS
<1>11. /\ v \in Seq(Char) /\ Len(v) = t.point - start
       /\ \A i \in 1 .. t.point - start : v[i] = t.line[start + i]
  BY <1>1, <1>10, WordInIs
<1>12. PICK u : u = v \o end
  OBVIOUS
<1>13. /\ u \in Seq(Char) /\ Len(u) = Len(v) + Len(end)
       /\ \A i \in 1 .. Len(v) : u[i] = v[i]
       /\ \A i \in 1 .. Len(end) : u[Len(v) + i] = end[i]
  <2>1. v \in Seq(Char) /\ end \in Seq(Char)
    BY <1>11
  <2> QED
    BY ONLY <2>1, <1>12, BehindIs
<1>14. Len(w) = Len(u)
  <2>1. PICK p, q, e : p = t.point /\ q = r.point /\ e = Len(end)
    OBVIOUS
  <2>2. p \in Nat /\ e \in Nat /\ start \in Nat /\ q = p + e
    BY <2>1, <1>1, <1>2, <1>5, <1>6
  <2>3. Len(w) = q - start
    BY ONLY <2>1, <1>9
  <2>4. Len(u) = (p - start) + e
    BY ONLY <2>1, <1>11, <1>13
  <2> QED
    BY ONLY <2>2, <2>3, <2>4
<1>15. ASSUME NEW i \in 1 .. Len(w) PROVE w[i] = u[i]
  <2>1. CASE i <= Len(v)
    <3>1. i \in 1 .. Len(v) /\ start + i \in 1 .. t.point
      BY <2>1, <1>1, <1>2, <1>11
    <3>2. w[i] = r.line[start + i] /\ r.line[start + i] = t.line[start + i]
      BY <3>1, <1>5, <1>9
    <3>3. v[i] = t.line[start + i] /\ u[i] = v[i]
      BY <3>1, <1>11, <1>13
    <3> QED
      BY <3>2, <3>3
  <2>2. CASE i > Len(v)
    <3>1. /\ i - Len(v) \in 1 .. Len(end) /\ Len(v) + (i - Len(v)) = i
          /\ t.point + (i - Len(v)) = start + i
      <4>1. PICK x \in Int, p \in Int, z \in Nat : x = Len(v) /\ p = t.point /\ z = Len(end)
        BY <1>1, <1>2, <1>6, <1>11
      <4>2. x = p - start /\ start \in Int /\ i \in 1 .. x + z /\ i > x
        BY ONLY <4>1, <2>2, <1>1, <1>2, <1>11, <1>13, <1>14, i \in 1 .. Len(w)
      <4>3. i - x \in 1 .. z /\ x + (i - x) = i /\ p + (i - x) = start + i
        <5>1. i \in Int /\ i <= x + z
          BY <4>2, <4>1
        <5>2. x \in Int /\ p \in Int /\ z \in Nat /\ start \in Int /\ x = p - start /\ i > x
          BY <4>1, <4>2
        <5> QED
          BY ONLY <5>1, <5>2
      <4> QED
        BY ONLY <4>1, <4>3
    <3>2. w[i] = r.line[start + i] /\ r.line[t.point + (i - Len(v))] = end[i - Len(v)]
      BY <3>1, <1>5, <1>9
    <3>3. u[Len(v) + (i - Len(v))] = end[i - Len(v)]
      BY <3>1, <1>13
    <3> QED
      BY <3>1, <3>2, <3>3
  <2> QED
    BY <2>1, <2>2, <1>11
<1>16. w = u
  BY <1>9, <1>13, <1>14, <1>15, SameSequence
<1> QED
  BY <1>3, <1>7, <1>8, <1>10, <1>12, <1>16

\* A word with nothing, a slash, a space or the delimiter behind it.
EndedWith(s, word, delim) == \E end \in {<<>>, <<"/">>, <<" ">>, delim} : s = word \o end

\* append_to_match puts nothing, a slash, a space or the delimiter behind it.
LEMMA AppendedStands ==
  ASSUME NEW b, IsText(b), NEW start \in 0 .. b.point, NEW t, Stands(t, b, start),
         NEW name, NEW delim \in Seq(Char), NEW nontrivial
  PROVE  /\ Stands(Append1(t, name, delim, nontrivial), b, start)
         /\ EndedWith(WordIn(Append1(t, name, delim, nontrivial), start), WordIn(t, start), delim)
<1>1. "/" \in Char /\ " " \in Char
  BY CompletionAssumption
<1>2. PICK r : r = Append1(t, name, delim, nontrivial)
  OBVIOUS
<1>3. r = t \/ \E end \in {<<"/">>, <<" ">>, delim} : r = Splice(t, t.point, t.point, end)
  BY <1>2, Zenon DEF Append1
<1>4. CASE r = t
  <2>1. IsText(t) /\ start \in 0 .. t.point
    BY DEF Stands
  <2>2. WordIn(t, start) \in Seq(Char)
    BY <2>1, WordInIs
  <2>3. WordIn(t, start) = WordIn(t, start) \o <<>>
    BY <2>2, ConcatEmptySeq
  <2> QED
    BY <1>2, <1>4, <2>3 DEF EndedWith
<1>5. ASSUME NEW end \in {<<"/">>, <<" ">>, delim}, r = Splice(t, t.point, t.point, end)
      PROVE  Stands(r, b, start) /\ WordIn(r, start) = WordIn(t, start) \o end
  <2>1. <<"/">> \in Seq(Char) /\ <<" ">> \in Seq(Char)
    BY <1>1, OneIs
  <2>2. end \in Seq(Char)
    BY <2>1
  <2> QED
    BY <2>2, <1>5, SplicedStands
<1> QED
  BY <1>2, <1>3, <1>4, <1>5 DEF EndedWith

\* With the word in its place again, and nothing gone, the line is what it was.
LEMMA WordBack ==
  ASSUME NEW b, IsText(b), NEW start \in 0 .. b.point, NEW t, Stands(t, b, start),
         ~set.skip, WordIn(t, start) = WordIn(b, start)
  PROVE  t = b
<1>1. IsText(t) /\ start \in 0 .. t.point /\ Around(t, b, start)
  BY DEF Stands
<1>2. /\ t.line \in Seq(Char) /\ t.point \in 0 .. Len(t.line) /\ t = [line |-> t.line, point |-> t.point]
      /\ b.line \in Seq(Char) /\ b.point \in 0 .. Len(b.line) /\ b = [line |-> b.line, point |-> b.point]
  BY <1>1 DEF IsText
<1>3. PICK w : w = WordIn(t, start) /\ w = WordIn(b, start)
  OBVIOUS
<1>4. /\ Len(w) = t.point - start /\ \A i \in 1 .. t.point - start : w[i] = t.line[start + i]
  BY <1>1, <1>3, WordInIs
<1>5. /\ Len(w) = b.point - start /\ \A i \in 1 .. b.point - start : w[i] = b.line[start + i]
  BY <1>3, WordInIs
<1>6. t.point = b.point
  BY <1>1, <1>2, <1>4, <1>5
<1>7. PICK f : f = SubSeq(t.line, 1, start) /\ f = SubSeq(b.line, 1, start)
  BY <1>1 DEF Around
<1>8. start \in 0 .. Len(t.line) /\ start \in 0 .. Len(b.line)
  BY <1>1, <1>2
<1>9. (\A i \in 1 .. start : f[i] = t.line[i]) /\ (\A i \in 1 .. start : f[i] = b.line[i])
  BY <1>2, <1>7, <1>8, FirstPart
<1>10. PICK r : r = From(t.line, t.point) /\ r = From(b.line, b.point)
  BY <1>1 DEF Around
<1>11. /\ Len(r) = Len(t.line) - t.point /\ \A i \in 1 .. Len(t.line) - t.point : r[i] = t.line[t.point + i]
  <2>1. t.line \in Seq(Char) /\ t.point \in 0 .. Len(t.line) /\ r = From(t.line, t.point)
    BY <1>2, <1>10
  <2> QED
    BY ONLY <2>1, LastPart
<1>12. /\ Len(r) = Len(b.line) - b.point /\ \A i \in 1 .. Len(b.line) - b.point : r[i] = b.line[b.point + i]
  <2>1. b.line \in Seq(Char) /\ b.point \in 0 .. Len(b.line) /\ r = From(b.line, b.point)
    BY <1>2, <1>10
  <2> QED
    BY ONLY <2>1, LastPart
<1>13. Len(t.line) = Len(b.line)
  BY <1>2, <1>6, <1>11, <1>12
<1>14. ASSUME NEW i \in 1 .. Len(t.line) PROVE t.line[i] = b.line[i]
  <2>1. CASE i <= start
    BY <2>1, <1>9, <1>8
  <2>2. CASE i > start /\ i <= t.point
    <3>1. i - start \in 1 .. t.point - start /\ start + (i - start) = i
      BY <2>2, <1>1, <1>2
    <3>2. w[i - start] = t.line[start + (i - start)] /\ w[i - start] = b.line[start + (i - start)]
      BY <3>1, <1>4, <1>5, <1>6
    <3> QED
      BY <3>1, <3>2
  <2>3. CASE i > t.point
    <3>1. i - t.point \in 1 .. Len(t.line) - t.point /\ t.point + (i - t.point) = i
      BY <2>3, <1>1, <1>2
    <3>2. r[i - t.point] = t.line[t.point + (i - t.point)] /\ r[i - t.point] = b.line[t.point + (i - t.point)]
      BY <3>1, <1>6, <1>11, <1>12, <1>13
    <3> QED
      BY <3>1, <3>2
  <2> QED
    BY <2>1, <2>2, <2>3, <1>1, <1>2
<1>15. t.line = b.line
  BY <1>2, <1>13, <1>14, SameSequence
<1> QED
  BY <1>2, <1>6, <1>15

-----------------------------------------------------------------------------
(* Nothing is decided for the user *)

\* Every candidate goes on from the word, but for case.
LEMMA CandidateGoesOn ==
  ASSUME tree \in Trees, NEW w \in Seq(Char), NEW c \in Candidates(w)
  PROVE  c \in Seq(Char) /\ Len(w) <= Len(c) /\ Same(w, c, Len(w))
<1>1. PICK n \in Names : IsMatch(n, FileOf(w)) /\ c = DirOf(w) \o n
  BY CandidatesAre
<1>2. PICK d : d = DirOf(w)
  OBVIOUS
<1>3. PICK f : f = FileOf(w)
  OBVIOUS
<1>4. d \in Dir /\ f \in FileNames /\ w = d \o f
  BY <1>2, <1>3, WordIs
<1>5. d \in Seq(Char) /\ f \in Seq(Char) /\ n \in Seq(Char) /\ Len(n) # 0
  <2>1. f \in Seq(Char)
    BY <1>4, SeqMonotonic DEF FileNames
  <2> QED
    BY <2>1, <1>4, NamesAre DEF Dir
<1>6. /\ Len(w) = Len(d) + Len(f)
      /\ \A i \in 1 .. Len(d) : w[i] = d[i]
      /\ \A i \in 1 .. Len(f) : w[Len(d) + i] = f[i]
  BY ONLY <1>4, <1>5, BehindIs
<1>7. c = d \o n
  BY <1>1, <1>2
<1>8. /\ c \in Seq(Char) /\ Len(c) = Len(d) + Len(n)
      /\ \A i \in 1 .. Len(d) : c[i] = d[i]
      /\ \A i \in 1 .. Len(n) : c[Len(d) + i] = n[i]
  BY ONLY <1>5, <1>7, BehindIs
<1>9. Len(f) <= Len(n) /\ Same(f, n, Len(f))
  <2>1. CASE f = <<>>
    BY <2>1, <1>5 DEF Same
  <2>2. CASE f # <<>>
    <3>1. Starts(Fold(f), Fold(n))
      BY <2>2, <1>1, <1>3 DEF IsMatch
    <3> QED
      BY <3>1, <1>5, StartsFolded
  <2> QED
    BY <2>1, <2>2
<1>10. Len(w) <= Len(c)
  BY <1>5, <1>6, <1>8, <1>9
<1>11. ASSUME NEW i \in 1 .. Len(w) PROVE Folded(w[i]) = Folded(c[i])
  <2>1. CASE i <= Len(d)
    BY <2>1, <1>5, <1>6, <1>8
  <2>2. CASE i > Len(d)
    <3>1. i - Len(d) \in 1 .. Len(f) /\ i - Len(d) \in 1 .. Len(n) /\ Len(d) + (i - Len(d)) = i
      BY <2>2, <1>5, <1>6, <1>9
    <3>2. w[i] = f[i - Len(d)] /\ c[i] = n[i - Len(d)]
      BY <3>1, <1>6, <1>8
    <3>3. Folded(f[i - Len(d)]) = Folded(n[i - Len(d)])
      BY <3>1, <1>9 DEF Same
    <3> QED
      BY <3>2, <3>3
  <2> QED
    BY <2>1, <2>2, <1>5
<1> QED
  BY <1>8, <1>10, <1>11 DEF Same

\* The candidates all begin alike, as far as the word goes.
LEMMA CandidatesAlike ==
  ASSUME tree \in Trees, NEW w \in Seq(Char)
  PROVE  AllSame(Candidates(w), Len(w))
<1>1. ASSUME NEW s \in Candidates(w), NEW t \in Candidates(w)
      PROVE  Len(w) <= Len(s) /\ Same(s, t, Len(w))
  BY CandidateGoesOn DEF Same
<1> QED
  BY <1>1 DEF AllSame

\* What is alike up to a place is alike up to an earlier one.
LEMMA AlikeEarlier ==
  ASSUME NEW S, \A s \in S : s \in Seq(Char), NEW n \in Nat, NEW m \in Nat, m <= n, AllSame(S, n)
  PROVE  AllSame(S, m)
<1>1. ASSUME NEW s \in S, NEW t \in S PROVE m <= Len(s) /\ Same(s, t, m)
  <2>1. n <= Len(s) /\ Same(s, t, n) /\ Len(s) \in Nat
    BY DEF AllSame
  <2>2. \A i \in 1 .. m : i \in 1 .. n
    OBVIOUS
  <2> QED
    BY <2>1, <2>2 DEF Same
<1> QED
  BY <1>1 DEF AllSame

\* The two names readdir gives of the directory itself and the one above.
DotsIn(w) == {DirOf(w) \o name : name \in {<<".">>, <<".", ".">>}}

\* r is the directory of w and g, the first k letters of the name n, which go on from w.
CutInName(k, g, r, w, n) ==
  /\ k \in 0 .. Len(n) /\ Len(FileOf(w)) <= k
  /\ g \in FileNames /\ Len(g) = k /\ \A i \in 1 .. k : g[i] = n[i]
  /\ r = DirOf(w) \o g
  /\ DirOf(r) = DirOf(w) /\ FileOf(r) = g

\* The beginning of one of the candidates that all have in common: the directory is
\* the same, and the name goes on as theirs do.
LEMMA BeginningIs ==
  ASSUME tree \in Trees, NEW w \in Seq(Char), NEW n \in Names,
         NEW s \in Candidates(w), s = DirOf(w) \o n, NEW low \in Nat, Len(w) <= low, low <= Len(s)
  PROVE  CutInName(low - Len(DirOf(w)), SubSeq(n, 1, low - Len(DirOf(w))), SubSeq(s, 1, low), w, n)
<1>1. PICK d : d = DirOf(w)
  OBVIOUS
<1>2. PICK f : f = FileOf(w)
  OBVIOUS
<1>3. d \in Dir /\ f \in FileNames /\ w = d \o f
  BY <1>1, <1>2, WordIs
<1>4. d \in Seq(Char) /\ f \in Seq(Char) /\ n \in Seq(Char) /\ n \in FileNames
  <2>1. f \in Seq(Char)
    BY <1>3, SeqMonotonic DEF FileNames
  <2> QED
    BY <2>1, <1>3, NamesAre DEF Dir
<1>5. Len(w) = Len(d) + Len(f)
  BY ONLY <1>3, <1>4, BehindIs
<1>6. s = d \o n
  BY <1>1
<1>7. /\ s \in Seq(Char) /\ Len(s) = Len(d) + Len(n)
      /\ \A i \in 1 .. Len(d) : s[i] = d[i]
      /\ \A i \in 1 .. Len(n) : s[Len(d) + i] = n[i]
  BY ONLY <1>4, <1>6, BehindIs
<1>8. PICK k : k = low - Len(d)
  OBVIOUS
<1>9. k \in 0 .. Len(n) /\ Len(f) <= k /\ low = Len(d) + k /\ low \in 0 .. Len(s)
  BY <1>4, <1>5, <1>7, <1>8
<1>10. PICK g : g = SubSeq(n, 1, k)
  OBVIOUS
<1>11. n \in Seq(Char \ {"/"})
  BY <1>4 DEF FileNames
<1>12. g \in Seq(Char \ {"/"}) /\ Len(g) = k /\ \A i \in 1 .. k : g[i] = n[i]
  BY ONLY <1>9, <1>10, <1>11, FirstPart
<1>13. g \in FileNames /\ g \in Seq(Char)
  BY <1>12, SeqMonotonic DEF FileNames
<1>14. PICK r : r = SubSeq(s, 1, low)
  OBVIOUS
<1>15. r \in Seq(Char) /\ Len(r) = low /\ \A i \in 1 .. low : r[i] = s[i]
  BY ONLY <1>7, <1>9, <1>14, FirstPart
<1>16. PICK q : q = d \o g
  OBVIOUS
<1>17. /\ q \in Seq(Char) /\ Len(q) = Len(d) + Len(g)
       /\ \A i \in 1 .. Len(d) : q[i] = d[i]
       /\ \A i \in 1 .. Len(g) : q[Len(d) + i] = g[i]
  BY ONLY <1>4, <1>13, <1>16, BehindIs
<1>18. Len(r) = Len(q)
  BY <1>9, <1>12, <1>15, <1>17
<1>19. ASSUME NEW i \in 1 .. Len(r) PROVE r[i] = q[i]
  <2>1. CASE i <= Len(d)
    <3>1. i \in 1 .. Len(d) /\ i \in 1 .. low
      BY <2>1, <1>4, <1>15
    <3>2. r[i] = s[i] /\ s[i] = d[i] /\ q[i] = d[i]
      BY ONLY <3>1, <1>7, <1>15, <1>17
    <3> QED
      BY <3>2
  <2>2. CASE i > Len(d)
    <3>1. i - Len(d) \in 1 .. Len(g) /\ i - Len(d) \in 1 .. Len(n) /\ i - Len(d) \in 1 .. k /\ Len(d) + (i - Len(d)) = i
      BY <2>2, <1>4, <1>9, <1>12, <1>15
    <3>2. s[i] = n[i - Len(d)] /\ q[i] = g[i - Len(d)] /\ g[i - Len(d)] = n[i - Len(d)]
      BY <3>1, <1>7, <1>12, <1>17
    <3> QED
      BY <3>2, <1>15
  <2> QED
    BY <2>1, <2>2, <1>4, <1>15
<1>20. r = q
  BY <1>15, <1>17, <1>18, <1>19, SameSequence
<1>21. DirOf(r) = d /\ FileOf(r) = g
  BY <1>3, <1>13, <1>16, <1>20, WordOf
<1>22. CutInName(k, g, r, w, n)
  BY <1>1, <1>2, <1>9, <1>12, <1>13, <1>16, <1>20, <1>21 DEF CutInName
<1> QED
  BY <1>1, <1>8, <1>10, <1>14, <1>22

\* compute_lcd_of_matches goes as far as all of the names agree, and no further.
LEMMA BeginningExcludesNone ==
  ASSUME tree \in Trees, NEW w \in Seq(Char), Candidates(w) # {}
  PROVE  LET f == CommonBeginning(Candidates(w), w)
         IN  /\ Candidates(w) \subseteq Candidates(f)
             /\ Candidates(f) \subseteq Candidates(w) \cup DotsIn(w)
             /\ \A c \in Char : Candidates(Append(f, c)) # Candidates(w)
<1>1. PICK C : C = Candidates(w)
  OBVIOUS
<1>2. IsFiniteSet(C) /\ C \subseteq Seq(Char) /\ C # {} /\ \A c \in C : c \in Seq(Char)
  BY <1>1, CandidatesType
<1>3. PICK low : low = Common(C)
  OBVIOUS
<1>4. low \in Nat /\ AllSame(C, low) /\ ~AllSame(C, low + 1)
  BY <1>2, <1>3, CommonIs
<1>5. PICK f : f = CommonBeginning(C, w)
  OBVIOUS
<1>6. f \in Seq(Char) /\ ((low = 0 /\ w # <<>> /\ f = w) \/ \E s \in C : f = SubSeq(s, 1, low))
  BY ONLY <1>2, <1>3, <1>5, w \in Seq(Char), CommonBeginningIs
<1>7. ASSUME NEW n \in Nat, n > low PROVE ~AllSame(C, n)
  <2>1. low + 1 \in Nat /\ low + 1 <= n
    BY <1>4, <1>7
  <2> QED
    BY <2>1, <1>2, <1>4, AlikeEarlier
<1>8. Len(w) <= low
  <2>1. AllSame(C, Len(w)) /\ Len(w) \in Nat
    BY <1>1, CandidatesAlike
  <2> QED
    BY <2>1, <1>4, <1>7
<1>9. PICK s \in C : f = SubSeq(s, 1, low)
  <2>1. low = 0 => w = <<>>
    BY <1>8
  <2> QED
    BY <2>1, <1>6
<1>10. low <= Len(s) /\ s \in Seq(Char)
  BY <1>2, <1>4 DEF AllSame
<1>11. Len(f) = low
  <2>1. low \in 0 .. Len(s)
    BY <1>4, <1>10
  <2> QED
    BY <2>1, <1>9, <1>10, FirstPart
<1>12. ASSUME NEW c \in Char PROVE Candidates(Append(f, c)) # C
  <2>1. Append(f, c) \in Seq(Char) /\ Len(Append(f, c)) = low + 1
    BY <1>6, <1>11
  <2>2. AllSame(Candidates(Append(f, c)), low + 1)
    BY <2>1, CandidatesAlike
  <2> QED
    BY <2>2, <1>4
<1>13. DirOf(w) \in DOMAIN tree
  BY <1>1, CandidatesAre
<1>14. PICK n \in Names : IsMatch(n, FileOf(w)) /\ s = DirOf(w) \o n
  BY <1>1, CandidatesAre
<1>15. PICK d : d = DirOf(w)
  OBVIOUS
<1>16. PICK k : k = low - Len(d)
  OBVIOUS
<1>17. PICK g : g = SubSeq(n, 1, k)
  OBVIOUS
<1>18. PICK v : v = FileOf(w)
  OBVIOUS
<1>19. /\ k \in 0 .. Len(n) /\ Len(v) <= k
       /\ g \in FileNames /\ Len(g) = k /\ \A i \in 1 .. k : g[i] = n[i]
       /\ DirOf(f) = d /\ FileOf(f) = g
  <2>1. s \in Candidates(w) /\ s = DirOf(w) \o n
    BY <1>1, <1>14
  <2>2. CutInName(low - Len(DirOf(w)), SubSeq(n, 1, low - Len(DirOf(w))), SubSeq(s, 1, low), w, n)
    BY ONLY <2>1, <1>4, <1>8, <1>10, tree \in Trees, w \in Seq(Char), n \in Names, BeginningIs
  <2> QED
    BY ONLY <2>2, <1>9, <1>15, <1>16, <1>17, <1>18 DEF CutInName
<1>20. d \in Seq(Char) /\ v \in Seq(Char) /\ g \in Seq(Char) /\ n \in Seq(Char)
  <2>1. d \in Dir /\ v \in FileNames
    BY <1>15, <1>18, WordIs
  <2>2. v \in Seq(Char) /\ g \in Seq(Char)
    BY <2>1, <1>19, SeqMonotonic DEF FileNames
  <2> QED
    BY <2>1, <2>2, NamesAre DEF Dir
<1>21. ASSUME NEW m \in Names, d \o m \in C PROVE IsMatch(m, v)
  <2>1. PICK o \in DOMAIN tree[DirOf(w)] : o \in Names /\ IsMatch(o, FileOf(w)) /\ d \o m = DirOf(w) \o o
    BY <1>1, <1>21, CandidatesAre
  <2>2. m \in Seq(Char) /\ o \in Seq(Char)
    BY <2>1, NamesAre
  <2>3. m = o
    BY <2>1, <2>2, <1>15, <1>20, ConcatSimplifications
  <2> QED
    BY <2>1, <2>3, <1>18
<1>22. ASSUME NEW m \in Names, d \o m \in C PROVE IsMatch(m, g)
  <2>1. CASE g = <<>>
    <3>1. v = <<>>
      BY <2>1, <1>19, <1>20
    <3> QED
      BY <2>1, <3>1, <1>21, <1>22
  <2>2. CASE g # <<>>
    <3>1. m \in Seq(Char)
      BY NamesAre
    <3>2. PICK c : c = d \o m
      OBVIOUS
    <3>3. /\ Len(c) = Len(d) + Len(m)
          /\ \A i \in 1 .. Len(m) : c[Len(d) + i] = m[i]
      BY ONLY <1>20, <3>1, <3>2, BehindIs
    <3>4. \A i \in 1 .. Len(n) : s[Len(d) + i] = n[i]
      <4>1. s = d \o n
        BY <1>14, <1>15
      <4> QED
        BY ONLY <4>1, <1>20, BehindIs
    <3>5. low <= Len(c) /\ Same(s, c, low)
      BY <3>2, <1>22, <1>4 DEF AllSame
    <3>6. Len(g) <= Len(m)
      BY <3>1, <3>3, <3>5, <1>4, <1>16, <1>19, <1>20
    <3>7. ASSUME NEW i \in 1 .. Len(g) PROVE Folded(g[i]) = Folded(m[i])
      <4>1. i \in 1 .. k /\ i \in 1 .. Len(n) /\ i \in 1 .. Len(m) /\ Len(d) + i \in 1 .. low
        BY <3>1, <3>6, <1>4, <1>16, <1>19, <1>20
      <4>2. Folded(s[Len(d) + i]) = Folded(c[Len(d) + i])
        BY <4>1, <3>5 DEF Same
      <4> QED
        BY <4>1, <4>2, <3>3, <3>4, <1>19
    <3>8. Starts(Fold(g), Fold(m))
      BY <3>1, <3>6, <3>7, <1>20, StartsFolded DEF Same
    <3> QED
      BY <2>2, <3>8 DEF IsMatch
  <2> QED
    BY <2>1, <2>2
<1>23. ASSUME NEW m \in Names, IsMatch(m, g), m \notin {<<".">>, <<".", ".">>} PROVE IsMatch(m, v)
  <2>1. CASE g = <<>>
    <3>1. v = <<>>
      BY <2>1, <1>19, <1>20
    <3> QED
      BY <2>1, <3>1, <1>23
  <2>2. CASE g # <<>>
    <3>1. m \in Seq(Char) /\ Len(m) # 0
      BY NamesAre
    <3>2. Len(g) <= Len(m) /\ Same(g, m, Len(g))
      <4>1. Starts(Fold(g), Fold(m))
        BY <2>2, <1>23 DEF IsMatch
      <4> QED
        BY <4>1, <3>1, <1>20, StartsFolded
    <3>3. IsMatch(n, v)
      BY <1>14, <1>18
    <3>4. CASE v = <<>>
      <4>1. set.hidden \/ n[1] # "."
        BY <3>3, <3>4 DEF IsMatch
      <4>2. m[1] = "." => n[1] = "."
        <5>1. 1 \in 1 .. Len(g) /\ 1 \in 1 .. Len(n) /\ 1 \in 1 .. Len(m)
          BY <2>2, <3>1, <1>19, <1>20
        <5>2. Folded(g[1]) = Folded(m[1]) /\ g[1] = n[1] /\ n[1] \in Char /\ m[1] \in Char
          BY <5>1, <3>1, <3>2, <1>19, <1>20 DEF Same
        <5> QED
          BY <5>2, FoldedIs
      <4> QED
        BY <3>4, <4>1, <4>2, <1>23 DEF IsMatch
    <3>5. CASE v # <<>>
      <4>1. Len(v) <= Len(n) /\ Same(v, n, Len(v))
        <5>1. Starts(Fold(v), Fold(n))
          BY <3>3, <3>5 DEF IsMatch
        <5> QED
          BY <5>1, <1>20, StartsFolded
      <4>2. Len(v) <= Len(m)
        BY <3>1, <3>2, <1>19, <1>20
      <4>3. ASSUME NEW i \in 1 .. Len(v) PROVE Folded(v[i]) = Folded(m[i])
        <5>1. i \in 1 .. k /\ i \in 1 .. Len(g)
          BY <1>19, <1>20
        <5>2. Folded(v[i]) = Folded(n[i]) /\ g[i] = n[i] /\ Folded(g[i]) = Folded(m[i])
          BY <5>1, <4>1, <3>2, <1>19 DEF Same
        <5> QED
          BY <5>2
      <4>4. Starts(Fold(v), Fold(m))
        BY <4>2, <4>3, <3>1, <1>20, StartsFolded DEF Same
      <4> QED
        BY <3>5, <4>4 DEF IsMatch
    <3> QED
      BY <3>4, <3>5
  <2> QED
    BY <2>1, <2>2
<1>24. ASSUME NEW c \in C PROVE c \in Candidates(f)
  <2>1. PICK m \in DOMAIN tree[DirOf(w)] : m \in Names /\ c = DirOf(w) \o m
    BY <1>1, CandidatesAre
  <2>2. IsMatch(m, g)
    BY <2>1, <1>15, <1>22
  <2> QED
    BY <2>1, <2>2, <1>6, <1>13, <1>15, <1>19, CandidatesAre
<1>25. ASSUME NEW c \in Candidates(f) PROVE c \in C \cup DotsIn(w)
  <2>1. PICK m \in DOMAIN tree[DirOf(f)] : m \in Names /\ IsMatch(m, FileOf(f)) /\ c = DirOf(f) \o m
    BY <1>6, CandidatesAre
  <2>2. CASE m \in {<<".">>, <<".", ".">>}
    BY <2>1, <2>2, <1>15, <1>19 DEF DotsIn
  <2>3. CASE m \notin {<<".">>, <<".", ".">>}
    <3>1. IsMatch(m, v)
      BY <2>1, <2>3, <1>19, <1>23
    <3>2. c \in Candidates(w)
      BY <2>1, <3>1, <1>13, <1>15, <1>18, <1>19, CandidatesAre
    <3> QED
      BY <3>2, <1>1
  <2> QED
    BY <2>2, <2>3
<1> QED
  BY <1>1, <1>5, <1>12, <1>24, <1>25

-----------------------------------------------------------------------------
(* Rows and columns *)

\* What is left when numbers are divided.
LEMMA QuotientIs ==
  ASSUME NEW a \in Nat, NEW d \in Nat \ {0}
  PROVE  /\ a \div d \in Nat /\ (a \div d) * d <= a /\ a < (a \div d) * d + d
OBVIOUS

\* Multiples are a divisor apart.
LEMMA MultiplesApart ==
  ASSUME NEW d \in Nat, NEW a \in Nat, NEW b \in Nat, a < b
  PROVE  a * d \in Nat /\ b * d \in Nat /\ a * d + d <= b * d
<1>1. PICK e \in Nat : b = a + 1 + e
  <2>1. b - a - 1 \in Nat /\ b = a + 1 + (b - a - 1)
    OBVIOUS
  <2> QED
    BY <2>1
<1>2. b * d = a * d + d + e * d
  BY <1>1
<1>3. e * d \in Nat /\ a * d \in Nat
  OBVIOUS
<1> QED
  BY <1>2, <1>3

\* The quotient is the greatest factor.
LEMMA QuotientGreatest ==
  ASSUME NEW a \in Nat, NEW d \in Nat \ {0}, NEW q \in Nat, q * d <= a
  PROVE  q <= a \div d
<1>1. PICK c : c = a \div d
  OBVIOUS
<1>2. c \in Nat /\ a < c * d + d
  BY <1>1, QuotientIs
<1>3. SUFFICES ASSUME c < q PROVE FALSE
  BY <1>1, <1>2
<1>4. c * d + d <= q * d /\ c * d \in Nat /\ q * d \in Nat
  BY <1>2, <1>3, MultiplesApart
<1> QED
  BY <1>2, <1>4

\* A number has one quotient and one remainder.
LEMMA OnePlace ==
  ASSUME NEW d \in Nat, NEW q \in Nat, NEW p \in Nat, NEW r \in 0 .. d - 1, NEW s \in 0 .. d - 1,
         q * d + r = p * d + s
  PROVE  q = p /\ r = s
<1>1. q * d \in Nat /\ p * d \in Nat
  OBVIOUS
<1>2. CASE q < p
  <2>1. q * d + d <= p * d
    BY <1>2, MultiplesApart
  <2> QED
    BY <1>1, <2>1
<1>3. CASE p < q
  <2>1. p * d + d <= q * d
    BY <1>3, MultiplesApart
  <2> QED
    BY <1>1, <2>1
<1>4. CASE q = p
  BY <1>1, <1>4
<1> QED
  BY <1>2, <1>3, <1>4

\* The lesser of two numbers.
LEMMA LeastOfTwo ==
  ASSUME NEW a \in Int, NEW b \in Int
  PROVE  Least({a, b}) = IF a <= b THEN a ELSE b
<1>1. Least({a, b}) = CHOOSE x \in {a, b} : \A y \in {a, b} : x <= y
  BY DEF Least
<1>2. \E x \in {a, b} : \A y \in {a, b} : x <= y
  OBVIOUS
<1>3. Least({a, b}) \in {a, b} /\ \A y \in {a, b} : Least({a, b}) <= y
  BY <1>1, <1>2
<1> QED
  BY <1>3

\* The rows hold every number up to n once.
HoldsAll(R, n) ==
  /\ R \in Seq(Seq(1 .. n))
  /\ \A l \in 1 .. n : \E i \in 1 .. Len(R) : \E j \in 1 .. Len(R[i]) : R[i][j] = l
  /\ \A i, h \in 1 .. Len(R) : \A j \in 1 .. Len(R[i]), k \in 1 .. Len(R[h]) :
       R[i][j] = R[h][k] => i = h /\ j = k

\* A row of a list in rows of limit, or in columns of count.
RowAt(i, n, limit, count) ==
  [j \in 1 .. Least({limit, IF set.across THEN n - (i - 1) * limit ELSE (n - i) \div count + 1}) |->
     IF set.across THEN (i - 1) * limit + j ELSE i + (j - 1) * count]

\* How many rows it takes.
LEMMA CountIs ==
  ASSUME NEW n \in Nat \ {0}, NEW limit \in Nat \ {0}, NEW count, count = (n + limit - 1) \div limit
  PROVE  /\ count \in Nat /\ count # 0 /\ count <= n /\ n <= count * limit
         /\ \A q \in Nat : q * limit < n => q < count
<1>1. PICK a \in Nat : a = n + limit - 1
  OBVIOUS
<1>2. count \in Nat /\ count * limit <= a /\ a < count * limit + limit
  BY <1>1, QuotientIs
<1>3. count * limit \in Nat
  BY <1>2
<1>4. n <= count * limit
  BY <1>1, <1>2, <1>3
<1>5. count # 0
  <2>1. 0 * limit = 0
    OBVIOUS
  <2> QED
    BY <2>1, <1>4
<1>6. count <= n
  <2>1. SUFFICES ASSUME n < count PROVE FALSE
    BY <1>2
  <2>2. n * limit + limit <= count * limit /\ n * limit \in Nat
    BY <2>1, <1>2, MultiplesApart
  <2>3. n * limit >= n
    <3>1. PICK e \in Nat : limit = e + 1
      <4>1. limit - 1 \in Nat /\ limit = (limit - 1) + 1
        OBVIOUS
      <4> QED
        BY <4>1
    <3>2. n * limit = n * e + n /\ n * e \in Nat
      BY <3>1
    <3> QED
      BY <3>2
  <2> QED
    BY <1>1, <1>2, <1>3, <2>2, <2>3
<1>7. ASSUME NEW q \in Nat, q * limit < n PROVE q < count
  <2>1. q + 1 \in Nat /\ (q + 1) * limit = q * limit + limit /\ q * limit \in Nat
    OBVIOUS
  <2>2. (q + 1) * limit <= a
    BY <2>1, <1>1, <1>7
  <2>3. q + 1 <= a \div limit
    BY <2>1, <2>2, QuotientGreatest
  <2> QED
    BY <2>3, <1>1, <1>2
<1> QED
  BY <1>2, <1>4, <1>5, <1>6, <1>7

\* A row that goes across: from its first number on, as many as there are, at most limit.
AcrossRow(r, i, n, limit) ==
  /\ Len(r) \in Nat /\ DOMAIN r = 1 .. Len(r)
  /\ \A j \in Nat :
       /\ j \in 1 .. Len(r) <=> j # 0 /\ j <= limit /\ (i - 1) * limit + j <= n
       /\ j \in 1 .. Len(r) => r[j] = (i - 1) * limit + j

\* A row of which each number is count behind the one before it.
DownRow(r, i, n, limit, count) ==
  /\ Len(r) \in Nat /\ DOMAIN r = 1 .. Len(r)
  /\ \A j \in Nat :
       /\ j \in 1 .. Len(r) <=> j # 0 /\ j <= limit /\ i + (j - 1) * count <= n
       /\ j \in 1 .. Len(r) => r[j] = i + (j - 1) * count

\* Where a number stands in the rows.
LEMMA RowAcross ==
  ASSUME set.across, NEW n \in Nat \ {0}, NEW limit \in Nat \ {0},
         NEW count \in Nat, NEW i \in 1 .. count
  PROVE  AcrossRow(RowAt(i, n, limit, count), i, n, limit)
<1> SUFFICES ASSUME NEW j \in Nat PROVE
    /\ Len(RowAt(i, n, limit, count)) \in Nat
    /\ DOMAIN RowAt(i, n, limit, count) = 1 .. Len(RowAt(i, n, limit, count))
    /\ j \in 1 .. Len(RowAt(i, n, limit, count)) <=>
         j # 0 /\ j <= limit /\ (i - 1) * limit + j <= n
    /\ j \in 1 .. Len(RowAt(i, n, limit, count)) =>
         RowAt(i, n, limit, count)[j] = (i - 1) * limit + j
  BY 0 \in Nat DEF AcrossRow
<1>1. PICK x : x = (i - 1) * limit
  OBVIOUS
<1>2. x \in Nat
  <2>1. i - 1 \in Nat
    OBVIOUS
  <2> QED
    BY <2>1, <1>1
<1>3. PICK m : m = Least({limit, n - x})
  OBVIOUS
<1>4. m = IF limit <= n - x THEN limit ELSE n - x
  BY <1>2, <1>3, LeastOfTwo
<1>5. RowAt(i, n, limit, count) = [y \in 1 .. m |-> x + y]
  BY <1>1, <1>3 DEF RowAt
<1>6. CASE m <= 0
  <2>1. 1 .. m = {} /\ m \in Int
    BY <1>2, <1>4, <1>6
  <2>2. [y \in 1 .. m |-> x + y] = <<>>
    BY <2>1
  <2>3. PICK r : r = RowAt(i, n, limit, count)
    OBVIOUS
  <2>4. r = <<>>
    BY <1>5, <2>2, <2>3
  <2>5. Len(r) = 0 /\ DOMAIN r = 1 .. 0 /\ ~(j \in 1 .. 0)
    BY <2>4
  <2>6. ~(j # 0 /\ j <= limit /\ x + j <= n)
    BY <1>2, <1>4, <1>6
  <2> QED
    BY <1>1, <2>3, <2>5, <2>6
<1>7. CASE m > 0
  <2>1. m \in Nat
    BY <1>2, <1>4, <1>7
  <2>2. PICK r : r = [y \in 1 .. m |-> x + y]
    OBVIOUS
  <2>3. DOMAIN r = 1 .. m /\ Len(r) = m /\ (j \in 1 .. m => r[j] = x + j)
    BY <2>1, <2>2
  <2>4. j \in 1 .. m <=> j # 0 /\ j <= limit /\ x + j <= n
    BY <2>1, <1>2, <1>4
  <2> QED
    BY <1>1, <1>5, <2>1, <2>2, <2>3, <2>4
<1> QED
  BY <1>2, <1>4, <1>6, <1>7

\* Where a number stands in the columns.
LEMMA RowDown ==
  ASSUME ~set.across, NEW n \in Nat \ {0}, NEW limit \in Nat \ {0},
         NEW count \in Nat \ {0}, count <= n, NEW i \in 1 .. count
  PROVE  DownRow(RowAt(i, n, limit, count), i, n, limit, count)
<1> SUFFICES ASSUME NEW j \in Nat PROVE
    /\ Len(RowAt(i, n, limit, count)) \in Nat
    /\ DOMAIN RowAt(i, n, limit, count) = 1 .. Len(RowAt(i, n, limit, count))
    /\ j \in 1 .. Len(RowAt(i, n, limit, count)) <=>
         j # 0 /\ j <= limit /\ i + (j - 1) * count <= n
    /\ j \in 1 .. Len(RowAt(i, n, limit, count)) =>
         RowAt(i, n, limit, count)[j] = i + (j - 1) * count
  BY 0 \in Nat DEF DownRow
<1>1. PICK x : x = (n - i) \div count
  OBVIOUS
<1>2. n - i \in Nat
  OBVIOUS
<1>3. x \in Nat /\ x * count <= n - i /\ n - i < x * count + count
  BY <1>1, <1>2, QuotientIs
<1>4. PICK m : m = Least({limit, x + 1})
  OBVIOUS
<1>5. m = IF limit <= x + 1 THEN limit ELSE x + 1
  BY <1>3, <1>4, LeastOfTwo
<1>6. m \in Nat
  BY <1>3, <1>5
<1>7. RowAt(i, n, limit, count) = [y \in 1 .. m |-> i + (y - 1) * count]
  BY <1>1, <1>4 DEF RowAt
<1>8. PICK r : r = [y \in 1 .. m |-> i + (y - 1) * count]
  OBVIOUS
<1>9. DOMAIN r = 1 .. m /\ Len(r) = m /\ (j \in 1 .. m => r[j] = i + (j - 1) * count)
  BY <1>6, <1>8
<1>10. j \in 1 .. m <=> j # 0 /\ j <= limit /\ i + (j - 1) * count <= n
  <2>1. CASE j = 0
    BY <2>1, <1>6
  <2>2. CASE j # 0
    <3>1. PICK q \in Nat : q = j - 1
      BY <2>2
    <3>2. q * count \in Nat /\ x * count \in Nat
      BY <1>3
    <3>3. q <= x <=> q * count <= n - i
      <4>1. CASE q = x
        BY <4>1, <1>3
      <4>2. CASE q < x
        <5>1. q * count + count <= x * count
          BY <4>2, <1>3, MultiplesApart
        <5> QED
          BY <4>2, <5>1, <3>2, <1>2, <1>3
      <4>3. CASE x < q
        <5>1. x * count + count <= q * count
          BY <4>3, <1>3, MultiplesApart
        <5> QED
          BY <4>3, <5>1, <3>2, <1>2, <1>3
      <4> QED
        BY <4>1, <4>2, <4>3, <1>3
    <3>4. i + q * count <= n <=> q * count <= n - i
      BY <3>2
    <3>5. j \in 1 .. m <=> j <= limit /\ q <= x
      BY <2>2, <3>1, <1>3, <1>5
    <3> QED
      BY <2>2, <3>1, <3>3, <3>4, <3>5
  <2> QED
    BY <2>1, <2>2
<1> QED
  BY <1>6, <1>7, <1>8, <1>9, <1>10

\* The rows of a list are the one or the other.
LEMMA RowsAre ==
  ASSUME NEW n \in Nat \ {0}, NEW limit \in Nat \ {0}, NEW count \in Nat \ {0}, count <= n
  PROVE  \A i \in 1 .. count : /\ set.across => AcrossRow(RowAt(i, n, limit, count), i, n, limit)
                               /\ ~set.across => DownRow(RowAt(i, n, limit, count), i, n, limit, count)
BY RowAcross, RowDown

\* Both sums less one.
LEMMA OneLess ==
  ASSUME NEW x \in Nat, NEW y \in Nat, NEW j \in Nat, NEW k \in Nat, x + j = y + k
  PROVE  x + (j - 1) = y + (k - 1)
OBVIOUS

\* The rows, each with its numbers, hold all of the numbers up to n once.
EachOnce(R, n, count) ==
  /\ \A l \in 1 .. n : \E i \in 1 .. count : \E j \in 1 .. Len(R[i]) : R[i][j] = l
  /\ \A i, h \in 1 .. count : \A j \in 1 .. Len(R[i]), k \in 1 .. Len(R[h]) :
       R[i][j] = R[h][k] => i = h /\ j = k
  /\ \A i \in 1 .. count : \A j \in 1 .. Len(R[i]) : R[i][j] \in 1 .. n

\* Across, every number has its row and its place in it.
LEMMA RowsAcross ==
  ASSUME NEW n \in Nat \ {0}, NEW limit \in Nat \ {0}, NEW count \in Nat \ {0},
         \A q \in Nat : q * limit < n => q < count,
         NEW R, \A i \in 1 .. count : AcrossRow(R[i], i, n, limit)
  PROVE  EachOnce(R, n, count)
<1>1. ASSUME NEW i \in 1 .. count, NEW j \in 1 .. Len(R[i])
      PROVE  /\ j \in Nat /\ j # 0 /\ j <= limit /\ (i - 1) * limit \in Nat /\ (i - 1) * limit + j <= n
             /\ R[i][j] = (i - 1) * limit + j
  <2>1. PICK r : r = R[i]
    OBVIOUS
  <2>2. AcrossRow(r, i, n, limit) /\ j \in 1 .. Len(r)
    BY <2>1
  <2>3. Len(r) \in Nat
    BY <2>2 DEF AcrossRow
  <2>4. j \in Nat
    BY <2>2, <2>3
  <2>5. j # 0 /\ j <= limit /\ (i - 1) * limit + j <= n /\ r[j] = (i - 1) * limit + j
    BY ONLY <2>2, <2>4 DEF AcrossRow
  <2>6. i - 1 \in Nat
    OBVIOUS
  <2>7. (i - 1) * limit \in Nat
    BY <2>6
  <2> QED
    BY <2>1, <2>4, <2>5, <2>7
<1>2. ASSUME NEW l \in 1 .. n
      PROVE  \E i \in 1 .. count : \E j \in 1 .. Len(R[i]) : R[i][j] = l
  <2>1. PICK a \in Nat : a = l - 1
    OBVIOUS
  <2>2. PICK q : q = a \div limit
    OBVIOUS
  <2>3. q \in Nat /\ q * limit <= a /\ a < q * limit + limit
    BY <2>1, <2>2, QuotientIs
  <2>4. PICK m : m = q * limit
    OBVIOUS
  <2>5. m \in Nat /\ m <= a /\ a < m + limit
    BY <2>3, <2>4
  <2>6. q < count
    BY <2>1, <2>3, <2>4, <2>5
  <2>7. PICK i : i = q + 1
    OBVIOUS
  <2>8. i \in 1 .. count /\ i - 1 = q
    BY <2>3, <2>6, <2>7
  <2>9. PICK j : j = l - m
    OBVIOUS
  <2>10. j \in Nat /\ j # 0 /\ j <= limit /\ m + j = l /\ m + j <= n
    BY <2>1, <2>5, <2>9
  <2>11. PICK r : r = R[i]
    OBVIOUS
  <2>12. AcrossRow(r, i, n, limit)
    BY <2>8, <2>11
  <2>13. (i - 1) * limit = m
    BY <2>4, <2>8
  <2>14. j \in 1 .. Len(r) /\ r[j] = l
    BY ONLY <2>10, <2>12, <2>13 DEF AcrossRow
  <2> QED
    BY <2>8, <2>11, <2>14
<1>3. ASSUME NEW i \in 1 .. count, NEW h \in 1 .. count,
             NEW j \in 1 .. Len(R[i]), NEW k \in 1 .. Len(R[h]), R[i][j] = R[h][k]
      PROVE  i = h /\ j = k
  <2>1. PICK q, p, r, s : q = i - 1 /\ p = h - 1 /\ r = j - 1 /\ s = k - 1
    OBVIOUS
  <2>2. q \in Nat /\ p \in Nat
    BY <2>1
  <2>3. j \in Nat /\ j # 0 /\ j <= limit /\ R[i][j] = q * limit + j /\ q * limit \in Nat
    BY <1>1, <2>1
  <2>4. k \in Nat /\ k # 0 /\ k <= limit /\ R[h][k] = p * limit + k /\ p * limit \in Nat
    BY <1>1, <2>1
  <2>5. r \in 0 .. limit - 1 /\ s \in 0 .. limit - 1
    BY <2>1, <2>3, <2>4
  <2>6. q * limit + r = p * limit + s
    <3>1. PICK x, y : x = q * limit /\ y = p * limit
      OBVIOUS
    <3>2. x \in Nat /\ y \in Nat
      BY <3>1, <2>3, <2>4
    <3>3. j \in Nat /\ k \in Nat
      BY <2>3, <2>4
    <3>4. x + j = y + k
      BY ONLY <1>3, <3>1, <3>2, <3>3, <2>3, <2>4
    <3>5. x + (j - 1) = y + (k - 1)
      BY ONLY <3>2, <3>3, <3>4, OneLess
    <3>6. x + r = y + s
      BY <3>5, <2>1
    <3> QED
      BY <3>1, <3>6
  <2>7. limit \in Nat
    OBVIOUS
  <2>8. q = p /\ r = s
    BY ONLY <2>2, <2>5, <2>6, <2>7, OnePlace
  <2> QED
    BY <2>1, <2>2, <2>3, <2>4, <2>8
<1>4. ASSUME NEW i \in 1 .. count, NEW j \in 1 .. Len(R[i]) PROVE R[i][j] \in 1 .. n
  <2>1. PICK m : m = (i - 1) * limit
    OBVIOUS
  <2>2. j \in Nat /\ j # 0 /\ m \in Nat /\ m + j <= n /\ R[i][j] = m + j
    BY <1>1, <2>1
  <2> QED
    BY <2>2
<1> QED
  BY <1>2, <1>3, <1>4 DEF EachOnce

\* So has it down the columns.
LEMMA RowsDown ==
  ASSUME NEW n \in Nat \ {0}, NEW limit \in Nat \ {0}, NEW count \in Nat \ {0}, n <= count * limit,
         NEW R, \A i \in 1 .. count : DownRow(R[i], i, n, limit, count)
  PROVE  EachOnce(R, n, count)
<1>1. ASSUME NEW i \in 1 .. count, NEW j \in 1 .. Len(R[i])
      PROVE  /\ j \in Nat /\ j # 0 /\ (j - 1) * count \in Nat /\ i + (j - 1) * count <= n
             /\ R[i][j] = i + (j - 1) * count
  <2>1. PICK r : r = R[i]
    OBVIOUS
  <2>2. DownRow(r, i, n, limit, count) /\ j \in 1 .. Len(r)
    BY <2>1
  <2>3. Len(r) \in Nat
    BY <2>2 DEF DownRow
  <2>4. j \in Nat
    BY <2>2, <2>3
  <2>5. j # 0 /\ i + (j - 1) * count <= n /\ r[j] = i + (j - 1) * count
    BY ONLY <2>2, <2>4 DEF DownRow
  <2>6. j - 1 \in Nat
    BY <2>4, <2>5
  <2>7. (j - 1) * count \in Nat
    BY <2>6
  <2> QED
    BY <2>1, <2>4, <2>5, <2>7
<1>2. ASSUME NEW l \in 1 .. n
      PROVE  \E i \in 1 .. count : \E j \in 1 .. Len(R[i]) : R[i][j] = l
  <2>1. PICK a \in Nat : a = l - 1
    OBVIOUS
  <2>2. PICK q : q = a \div count
    OBVIOUS
  <2>3. q \in Nat /\ q * count <= a /\ a < q * count + count
    BY <2>1, <2>2, QuotientIs
  <2>4. PICK m, all : m = q * count /\ all = limit * count
    OBVIOUS
  <2>5. m \in Nat /\ m <= a /\ a < m + count /\ all \in Nat /\ n <= all
    BY <2>3, <2>4
  <2>6. q < limit
    <3>1. SUFFICES ASSUME limit <= q PROVE FALSE
      BY <2>3
    <3>2. all <= m
      <4>1. CASE limit = q
        BY <4>1, <2>4, <2>5
      <4>2. CASE limit < q
        <5>1. limit * count + count <= q * count
          <6>1. limit \in Nat /\ count \in Nat
            OBVIOUS
          <6> QED
            BY ONLY <4>2, <6>1, <2>3, MultiplesApart
        <5> QED
          BY <5>1, <2>4, <2>5
      <4> QED
        BY <4>1, <4>2, <3>1, <2>3
    <3> QED
      BY <3>2, <2>1, <2>5
  <2>7. PICK j : j = q + 1
    OBVIOUS
  <2>8. j \in Nat /\ j # 0 /\ j <= limit /\ j - 1 = q
    BY <2>3, <2>6, <2>7
  <2>9. PICK i : i = l - m
    OBVIOUS
  <2>10. i \in 1 .. count /\ i + m = l /\ i + m <= n
    BY <2>1, <2>5, <2>9
  <2>11. PICK r : r = R[i]
    OBVIOUS
  <2>12. DownRow(r, i, n, limit, count)
    BY <2>10, <2>11
  <2>13. (j - 1) * count = m
    BY <2>4, <2>8
  <2>14. j \in 1 .. Len(r) /\ r[j] = l
    BY ONLY <2>8, <2>10, <2>12, <2>13 DEF DownRow
  <2> QED
    BY <2>10, <2>11, <2>14
<1>3. ASSUME NEW i \in 1 .. count, NEW h \in 1 .. count,
             NEW j \in 1 .. Len(R[i]), NEW k \in 1 .. Len(R[h]), R[i][j] = R[h][k]
      PROVE  i = h /\ j = k
  <2>1. PICK q, p, r, s : q = j - 1 /\ p = k - 1 /\ r = i - 1 /\ s = h - 1
    OBVIOUS
  <2>2. j \in Nat /\ j # 0 /\ R[i][j] = i + q * count /\ q * count \in Nat
    BY <1>1, <2>1
  <2>3. k \in Nat /\ k # 0 /\ R[h][k] = h + p * count /\ p * count \in Nat
    BY <1>1, <2>1
  <2>4. q \in Nat /\ p \in Nat
    <3>1. j \in Nat /\ j # 0 /\ k \in Nat /\ k # 0
      BY <2>2, <2>3
    <3> QED
      BY ONLY <3>1, <2>1
  <2>5. r \in 0 .. count - 1 /\ s \in 0 .. count - 1
    BY <2>1
  <2>6. q * count + r = p * count + s
    <3>1. PICK x, y : x = q * count /\ y = p * count
      OBVIOUS
    <3>2. x \in Nat /\ y \in Nat
      BY <3>1, <2>2, <2>3
    <3>3. i \in Nat /\ h \in Nat
      OBVIOUS
    <3>4. x + i = y + h
      <4>1. i + x = h + y
        BY <1>3, <3>1, <2>2, <2>3
      <4> QED
        BY ONLY <3>2, <3>3, <4>1
    <3>5. x + (i - 1) = y + (h - 1)
      BY ONLY <3>2, <3>3, <3>4, OneLess
    <3>6. x + r = y + s
      BY <3>5, <2>1
    <3> QED
      BY <3>1, <3>6
  <2>7. count \in Nat
    OBVIOUS
  <2>8. q = p /\ r = s
    BY ONLY <2>4, <2>5, <2>6, <2>7, OnePlace
  <2> QED
    BY <2>1, <2>2, <2>3, <2>8
<1>4. ASSUME NEW i \in 1 .. count, NEW j \in 1 .. Len(R[i]) PROVE R[i][j] \in 1 .. n
  <2>1. PICK m : m = (j - 1) * count
    OBVIOUS
  <2>2. m \in Nat /\ i + m <= n /\ R[i][j] = i + m
    BY <1>1, <2>1
  <2> QED
    BY <2>2
<1> QED
  BY <1>2, <1>3, <1>4 DEF EachOnce

\* A function on the first numbers is a sequence.
LEMMA SequenceOf ==
  ASSUME NEW S, NEW m \in Nat, NEW f, f = [i \in 1 .. m |-> f[i]], \A i \in 1 .. m : f[i] \in S
  PROVE  f \in Seq(S) /\ Len(f) = m
OBVIOUS

\* rl_display_match_list has a place for every match, and only one.
LEMMA RowsHoldAll ==
  ASSUME NEW n \in Nat \ {0}, NEW limit \in Nat \ {0}
  PROVE  HoldsAll(Rows(n, limit), n)
<1>1. PICK count : count = (n + limit - 1) \div limit
  OBVIOUS
<1>2. /\ count \in Nat \ {0} /\ count <= n /\ n <= count * limit
      /\ \A q \in Nat : q * limit < n => q < count
  BY <1>1, CountIs
<1>3. PICK R : R = Rows(n, limit)
  OBVIOUS
<1>4. R = [i \in 1 .. count |-> RowAt(i, n, limit, count)]
  BY <1>1, <1>3 DEF Rows, RowAt
<1>5. \A i \in 1 .. count : /\ set.across => AcrossRow(R[i], i, n, limit)
                            /\ ~set.across => DownRow(R[i], i, n, limit, count)
  BY <1>2, <1>4, RowsAre
<1>6. EachOnce(R, n, count)
  <2>1. CASE set.across
    BY <1>2, <1>5, <2>1, RowsAcross
  <2>2. CASE ~set.across
    BY <1>2, <1>5, <2>2, RowsDown
  <2> QED
    BY <2>1, <2>2
<1>7. ASSUME NEW i \in 1 .. count PROVE R[i] \in Seq(1 .. n)
  <2>1. PICK r : r = R[i]
    OBVIOUS
  <2>2. Len(r) \in Nat /\ DOMAIN r = 1 .. Len(r)
    BY <1>5, <2>1 DEF AcrossRow, DownRow
  <2>3. r = RowAt(i, n, limit, count)
    BY <1>4, <2>1
  <2>4. r = [j \in DOMAIN r |-> r[j]]
    BY <2>3 DEF RowAt
  <2>5. \A j \in 1 .. Len(r) : r[j] \in 1 .. n
    BY <1>6, <2>1 DEF EachOnce
  <2>6. PICK m : m = Len(r)
    OBVIOUS
  <2>7. m \in Nat /\ r = [j \in 1 .. m |-> r[j]] /\ \A j \in 1 .. m : r[j] \in 1 .. n
    BY ONLY <2>2, <2>4, <2>5, <2>6
  <2>8. r \in Seq(1 .. n)
    BY ONLY <2>7, SequenceOf
  <2> QED
    BY <2>1, <2>8
<1>8. R \in Seq(Seq(1 .. n)) /\ Len(R) = count
  <2>1. R = [i \in 1 .. count |-> R[i]]
    BY <1>4
  <2>2. count \in Nat
    BY <1>2
  <2>3. \A i \in 1 .. count : R[i] \in Seq(1 .. n)
    BY <1>7
  <2> QED
    BY ONLY <2>1, <2>2, <2>3, SequenceOf
<1>9. HoldsAll(R, n)
  <2>1. PICK m : m = Len(R)
    OBVIOUS
  <2>2. m = count
    BY <1>8, <2>1
  <2>3. EachOnce(R, n, m)
    BY <1>6, <2>2
  <2> QED
    BY <1>8, <2>1, <2>3 DEF HoldsAll, EachOnce
<1> QED
  BY <1>3, <1>9

\* One of finitely many numbers is the greatest.
LEMMA GreatestOf ==
  ASSUME NEW n \in Nat \ {0}, NEW f \in [1 .. n -> Nat]
  PROVE  Greatest({f[i] : i \in 1 .. n}) \in Nat
<1> DEFINE D == {m \in 1 .. n : ~ \E k \in 1 .. m : \A i \in 1 .. m : f[k] >= f[i]}
<1>1. D = {}
  <2>1. SUFFICES ASSUME D # {} PROVE FALSE
    OBVIOUS
  <2>2. D \in SUBSET Nat
    OBVIOUS
  <2>3. PICK m \in D : \A l \in D : m <= l
    <3> HIDE DEF D
    <3> QED
      BY <2>1, <2>2, LeastNumber
  <2>4. m \in 1 .. n /\ ~ \E k \in 1 .. m : \A i \in 1 .. m : f[k] >= f[i]
    OBVIOUS
  <2>5. CASE m = 1
    <3>1. 1 \in 1 .. m /\ \A i \in 1 .. m : f[1] >= f[i]
      BY <2>4, <2>5
    <3> QED
      BY <2>4, <3>1
  <2>6. CASE m # 1
    <3>1. m - 1 \in 1 .. n /\ ~(m <= m - 1)
      BY <2>4, <2>6
    <3>2. PICK k \in 1 .. m - 1 : \A i \in 1 .. m - 1 : f[k] >= f[i]
      BY <2>3, <3>1
    <3>3. k \in 1 .. m /\ f[k] \in Nat /\ f[m] \in Nat /\ \A i \in 1 .. m : i \in 1 .. m - 1 \/ i = m
      BY <2>4, <3>1
    <3>4. CASE f[k] >= f[m]
      <4>1. \A i \in 1 .. m : f[k] >= f[i]
        BY <3>2, <3>3, <3>4
      <4> QED
        BY <4>1, <3>3, <2>4
    <3>5. CASE f[m] >= f[k]
      <4>1. \A i \in 1 .. m - 1 : f[i] \in Nat
        BY <3>1
      <4>2. \A i \in 1 .. m : f[m] >= f[i]
        BY <3>2, <3>3, <3>5, <4>1
      <4>3. m \in 1 .. m
        BY <2>4
      <4> QED
        BY <4>2, <4>3, <2>4
    <3> QED
      BY <3>3, <3>4, <3>5
  <2> QED
    BY <2>5, <2>6
<1>2. \E k \in 1 .. n : \A i \in 1 .. n : f[k] >= f[i]
  <2>1. n \in 1 .. n /\ n \notin D
    <3>1. n \in 1 .. n
      OBVIOUS
    <3>2. n \notin D
      <4> HIDE DEF D
      <4> QED
        BY <1>1
    <3> QED
      BY <3>1, <3>2
  <2> QED
    BY <2>1
<1>3. PICK S : S = {f[i] : i \in 1 .. n}
  OBVIOUS
<1>4. \E x \in S : \A y \in S : x >= y
  BY <1>2, <1>3
<1>5. Greatest(S) \in S
  BY <1>4 DEF Greatest
<1> QED
  BY <1>3, <1>5

\* At least one match fits into a row.
LEMMA LimitIs ==
  ASSUME NEW names \in Seq(Seq(Char)), Len(names) # 0, \A i \in 1 .. Len(names) : Len(names[i]) # 0
  PROVE  Limit(names) \in Nat \ {0}
<1>1. ASSUME NEW i \in 1 .. Len(names) PROVE Len(Printable(names[i])) \in Nat
  <2>1. PICK s : s = names[i]
    OBVIOUS
  <2>2. s \in Seq(Char) /\ Len(s) # 0
    BY <2>1
  <2>3. PICK b : b = SubSeq(s, 1, Len(s) - 1)
    OBVIOUS
  <2>4. b \in Seq(Char) /\ Len(b) = Len(s) - 1
    <3>1. Len(s) - 1 \in 0 .. Len(s)
      BY <2>2
    <3> QED
      BY ONLY <3>1, <2>2, <2>3, FirstPart
  <2>5. Front(s) = b
    BY <2>3 DEF Front
  <2>6. PICK k : k = LastIn(b, {"/"})
    OBVIOUS
  <2>7. k \in 0 .. Len(b)
    BY <2>4, <2>6, LastInIs DEF LastAt
  <2>8. k \in 0 .. Len(s)
    BY <2>2, <2>4, <2>7
  <2>9. Len(From(s, k)) \in Nat
    BY <2>2, <2>8, LastPart
  <2>10. Printable(s) = From(s, k)
    BY <2>5, <2>6 DEF Printable, From
  <2> QED
    BY <2>1, <2>9, <2>10
<1>2. PICK n \in Nat \ {0} : n = Len(names)
  OBVIOUS
<1>3. PICK f : f = [i \in 1 .. n |-> Len(Printable(names[i]))]
  OBVIOUS
<1>4. f \in [1 .. n -> Nat]
  BY <1>1, <1>2, <1>3
<1>5. {Len(Printable(names[i])) : i \in DOMAIN names} = {f[i] : i \in 1 .. n}
  <2>1. DOMAIN names = 1 .. n
    BY <1>2
  <2>2. \A i \in 1 .. n : f[i] = Len(Printable(names[i]))
    BY <1>3
  <2> QED
    BY <2>1, <2>2
<1>6. PICK width : width = 2 + Greatest({f[i] : i \in 1 .. n})
  OBVIOUS
<1>7. width \in Nat \ {0}
  <2>1. PICK most : most = Greatest({f[i] : i \in 1 .. n})
    OBVIOUS
  <2>2. n \in Nat \ {0}
    OBVIOUS
  <2>3. most \in Nat
    BY ONLY <1>4, <2>1, <2>2, GreatestOf
  <2> QED
    BY <1>6, <2>1, <2>3
<1>8. PICK fit : fit = Columns \div width
  OBVIOUS
<1>9. fit \in Nat
  BY <1>7, <1>8, CompletionAssumption, QuotientIs
<1>10. Limit(names) = IF fit = 0 THEN 1 ELSE IF fit # 1 /\ fit * width = Columns THEN fit - 1 ELSE fit
  BY <1>5, <1>6, <1>8 DEF Limit
<1> QED
  BY <1>9, <1>10

-----------------------------------------------------------------------------
(* What the lines and the work are *)

\* A line the user has typed is a text.
LEMMA LinesAre == \A t \in Lines : IsText(t)
<1> TAKE t \in Lines
<1>1. t \in [line : Seq(Char), point : Nat] /\ t.point <= Len(t.line)
  BY CompletionAssumption
<1>2. Len(t.line) \in Nat
  BY <1>1
<1> QED
  BY <1>1, <1>2 DEF IsText

\* Where the word begins.
LEMMA WordStartIs ==
  ASSUME NEW t, IsText(t)
  PROVE  WordStart(t) \in 0 .. t.point
<1>1. t.line \in Seq(Char) /\ t.point \in 0 .. Len(t.line)
  BY DEF IsText
<1>2. PICK s : s = SubSeq(t.line, 1, t.point)
  OBVIOUS
<1>3. s \in Seq(Char) /\ Len(s) = t.point
  BY ONLY <1>1, <1>2, FirstPart
<1>4. LastAt(s, Breaks, LastIn(s, Breaks))
  BY <1>3, LastInIs
<1> QED
  BY <1>2, <1>3, <1>4 DEF LastAt, WordStart

\* The quote the word begins with, or nothing.
LEMMA DelimiterIs ==
  ASSUME NEW t, IsText(t)
  PROVE  Delimiter(t) \in Seq(Char)
<1>1. t.line \in Seq(Char)
  BY DEF IsText
<1>2. PICK s : s = WordStart(t)
  OBVIOUS
<1>3. Delimiter(t) = IF s > 0 /\ s < t.point /\ t.line[s] \in Quotes THEN <<t.line[s]>> ELSE <<>>
  BY <1>2 DEF Delimiter
<1>4. CASE s > 0 /\ s < t.point /\ t.line[s] \in Quotes
  <2>1. PICK c : c = t.line[s]
    OBVIOUS
  <2>2. c \in Char
    BY <1>4, <2>1, CompletionAssumption
  <2>3. <<c>> \in Seq(Char)
    BY <2>2, OneIs
  <2> QED
    BY <1>3, <1>4, <2>1, <2>3
<1>5. CASE ~(s > 0 /\ s < t.point /\ t.line[s] \in Quotes)
  BY <1>3, <1>5
<1> QED
  BY <1>4, <1>5

\* Sequences one behind the other, the first n of them.
Flat(f, seqs, n) ==
  f = [i \in 1 .. n |-> IF i = 1 THEN seqs[i] ELSE f[i - 1] \o seqs[i]]

\* There is one such function, and what it yields are sequences.
LEMMA FlatIs ==
  ASSUME NEW S, NEW n \in Nat, NEW seqs \in [1 .. n -> Seq(S)], NEW f, Flat(f, seqs, n)
  PROVE  f \in [1 .. n -> Seq(S)]
<1>1. \A i \in 1 .. n : f[i] = IF i = 1 THEN seqs[i] ELSE f[i - 1] \o seqs[i]
  BY DEF Flat
<1> DEFINE D == {i \in 1 .. n : f[i] \notin Seq(S)}
<1>2. D = {}
  <2>1. SUFFICES ASSUME D # {} PROVE FALSE
    OBVIOUS
  <2>2. D \in SUBSET Nat
    OBVIOUS
  <2>3. PICK i \in D : \A j \in D : i <= j
    <3> HIDE DEF D
    <3> QED
      BY <2>1, <2>2, LeastNumber
  <2>4. i \in 1 .. n /\ f[i] \notin Seq(S)
    OBVIOUS
  <2>5. i # 1
    BY <1>1, <2>4
  <2>6. i - 1 \in 1 .. n /\ ~(i <= i - 1)
    BY <2>4, <2>5
  <2>7. f[i - 1] \in Seq(S)
    BY <2>3, <2>6
  <2>8. f[i - 1] \o seqs[i] \in Seq(S)
    BY <2>4, <2>7
  <2> QED
    BY <1>1, <2>4, <2>5, <2>8
<1>3. \A i \in 1 .. n : f[i] \in Seq(S)
  BY <1>2
<1>4. f = [i \in 1 .. n |-> f[i]]
  BY DEF Flat
<1> QED
  BY <1>3, <1>4

\* For every n there is one.
LEMMA FlatExists ==
  ASSUME NEW S, NEW n \in Nat, NEW seqs
  PROVE  \E f : Flat(f, seqs, n)
<1> DEFINE D == {i \in Nat : ~ \E f : Flat(f, seqs, i)}
<1>1. D = {}
  <2>1. SUFFICES ASSUME D # {} PROVE FALSE
    OBVIOUS
  <2>2. D \in SUBSET Nat
    OBVIOUS
  <2>3. PICK m \in D : \A j \in D : m <= j
    <3> HIDE DEF D
    <3> QED
      BY <2>1, <2>2, LeastNumber
  <2>4. m \in Nat /\ ~ \E f : Flat(f, seqs, m)
    OBVIOUS
  <2>5. CASE m = 0
    <3>1. PICK f : f = [i \in 1 .. 0 |-> seqs[i]]
      OBVIOUS
    <3>2. f = [i \in 1 .. 0 |-> IF i = 1 THEN seqs[i] ELSE f[i - 1] \o seqs[i]]
      <4>1. 1 .. 0 = {}
        OBVIOUS
      <4> QED
        BY <3>1, <4>1
    <3> QED
      BY <3>2, <2>4, <2>5 DEF Flat
  <2>6. CASE m # 0
    <3>1. m - 1 \in Nat /\ ~(m <= m - 1)
      BY <2>4, <2>6
    <3>2. PICK g : Flat(g, seqs, m - 1)
      BY <2>3, <3>1
    <3>3. \A i \in 1 .. m - 1 : g[i] = IF i = 1 THEN seqs[i] ELSE g[i - 1] \o seqs[i]
      BY <3>2 DEF Flat
    <3>4. PICK f : f = [i \in 1 .. m |-> IF i = m THEN (IF i = 1 THEN seqs[i] ELSE g[i - 1] \o seqs[i])
                                         ELSE g[i]]
      OBVIOUS
    <3>5. \A i \in 1 .. m - 1 : f[i] = g[i]
      BY <2>4, <3>4
    <3>6. \A i \in 1 .. m : f[i] = IF i = 1 THEN seqs[i] ELSE f[i - 1] \o seqs[i]
      <4> TAKE i \in 1 .. m
      <4>1. CASE i = m /\ i = 1
        BY <4>1, <3>4
      <4>2. CASE i = m /\ i # 1
        <5>1. i - 1 \in 1 .. m - 1
          BY <4>2
        <5>2. f[i] = g[i - 1] \o seqs[i]
          BY <4>2, <3>4
        <5> QED
          BY <5>1, <5>2, <4>2, <3>5
      <4>3. CASE i # m /\ i = 1
        <5>1. i \in 1 .. m - 1
          BY <4>3, <2>4
        <5> QED
          BY <5>1, <4>3, <3>3, <3>5
      <4>4. CASE i # m /\ i # 1
        <5>1. i \in 1 .. m - 1 /\ i - 1 \in 1 .. m - 1
          BY <4>4, <2>4
        <5> QED
          BY <5>1, <4>4, <3>3, <3>5
      <4> QED
        BY <4>1, <4>2, <4>3, <4>4
    <3>7. f = [i \in 1 .. m |-> f[i]]
      BY <3>4
    <3>8. f = [i \in 1 .. m |-> IF i = 1 THEN seqs[i] ELSE f[i - 1] \o seqs[i]]
      BY <3>6, <3>7
    <3> QED
      BY <3>8, <2>4 DEF Flat
  <2> QED
    BY <2>5, <2>6
<1>2. n \notin D
  <2> HIDE DEF D
  <2> QED
    BY <1>1
<1> QED
  BY <1>2

\* What insert_all_matches puts together is a sequence.
LEMMA FlattenIs ==
  ASSUME NEW S, NEW seqs \in Seq(Seq(S))
  PROVE  FlattenSeq(seqs) \in Seq(S)
<1>1. CASE Len(seqs) = 0
  <2>1. seqs = <<>>
    BY <1>1
  <2> QED
    BY <2>1 DEF FlattenSeq
<1>2. CASE Len(seqs) # 0
  <2>1. PICK n \in Nat : n = Len(seqs)
    OBVIOUS
  <2>2. seqs \in [1 .. n -> Seq(S)]
    BY <2>1
  <2>3. \E f : Flat(f, seqs, n)
    BY FlatExists
  <2>4. PICK F : F = (CHOOSE f : f = [i \in 1 .. n |-> IF i = 1 THEN seqs[i] ELSE f[i - 1] \o seqs[i]])
    OBVIOUS
  <2>5. Flat(F, seqs, n)
    BY <2>3, <2>4 DEF Flat
  <2>6. F \in [1 .. n -> Seq(S)]
    BY ONLY <2>1, <2>2, <2>5, FlatIs
  <2>7. FlattenSeq(seqs) = F[n]
    BY <1>2, <2>1, <2>4 DEF FlattenSeq
  <2>8. n \in 1 .. n
    BY <1>2, <2>1
  <2> QED
    BY <2>6, <2>7, <2>8
<1> QED
  BY <1>1, <1>2

\* insert_all_matches leaves a line.
LEMMA InsertAllIs ==
  ASSUME NEW t, IsText(t), NEW start \in 0 .. t.point, NEW matches \in Seq(Seq(Char)), Len(matches) # 0
  PROVE  IsText(InsertAll(t, matches, start))
<1>1. PICK names : names = IF Len(matches) = 1 THEN matches ELSE Tail(matches)
  OBVIOUS
<1>2. names \in Seq(Seq(Char))
  BY <1>1
<1>3. PICK f : f = [i \in 1 .. Len(names) |-> Append(names[i], " ")]
  OBVIOUS
<1>4. \A i \in 1 .. Len(names) : f[i] \in Seq(Char)
  <2> TAKE i \in 1 .. Len(names)
  <2>1. PICK s : s = names[i]
    OBVIOUS
  <2>2. s \in Seq(Char)
    BY <1>2, <2>1
  <2>3. " " \in Char
    BY CompletionAssumption
  <2>4. Append(s, " ") \in Seq(Char)
    BY ONLY <2>2, <2>3, AppendProperties
  <2>5. f[i] = Append(names[i], " ")
    BY <1>3
  <2> QED
    BY <2>1, <2>4, <2>5
<1>5. f \in Seq(Seq(Char))
  <2>1. PICK m : m = Len(names)
    OBVIOUS
  <2>2. m \in Nat /\ f = [i \in 1 .. m |-> f[i]] /\ \A i \in 1 .. m : f[i] \in Seq(Char)
    <3>1. m \in Nat
      BY <1>2, <2>1
    <3>2. DOMAIN f = 1 .. m /\ f = [i \in DOMAIN f |-> f[i]]
      BY <1>3, <2>1
    <3>3. f = [i \in 1 .. m |-> f[i]]
      BY ONLY <3>2
    <3> QED
      BY <3>1, <3>3, <1>4, <2>1
  <2> QED
    BY ONLY <2>2, SequenceOf
<1>6. PICK new : new = FlattenSeq(f)
  OBVIOUS
<1>7. new \in Seq(Char)
  BY ONLY <1>5, <1>6, FlattenIs
<1>8. InsertAll(t, matches, start) = Splice(t, start, t.point, new)
  BY <1>1, <1>3, <1>6 DEF InsertAll
<1>9. t.line \in Seq(Char) /\ t.point \in 0 .. Len(t.line)
  BY DEF IsText
<1>10. start \in 0 .. Len(t.line) /\ t.point \in start .. Len(t.line)
  BY <1>9
<1>11. PICK p : p = t.point
  OBVIOUS
<1>12. Spliced(Splice(t, start, p, new), t, start, p, new)
  BY ONLY IsText(t), <1>7, <1>10, <1>11, SpliceIs
<1> QED
  BY <1>8, <1>11, <1>12 DEF Spliced

-----------------------------------------------------------------------------
(* Completion: the inductive invariant *)

\* The fields of the records.
WorkType(w) ==
  /\ w = [what |-> w.what, start |-> w.start, word |-> w.word, delim |-> w.delim, before |-> w.before,
          unread |-> w.unread, found |-> w.found, cut |-> w.cut, failed |-> w.failed, step |-> w.step]
  /\ w.what \in {"none", "list", "all", "unmodified", "insert", "each", "old", "menu"}
  /\ w.step \in Int /\ w.cut \in BOOLEAN
MenuType(m) ==
  m = [matches |-> m.matches, index |-> m.index, word |-> m.word, start |-> m.start, delim |-> m.delim,
       full |-> m.full]
ListType(l) ==
  /\ l = [names |-> l.names, rows |-> l.rows, printed |-> l.printed, lines |-> l.lines, since |-> l.since]
  /\ l.lines \in Nat /\ l.since \in Nat

Typed ==
  /\ tree \in Trees /\ set \in Settings /\ IsText(text) /\ resized \in BOOLEAN
  /\ phase \in {"key", "reading", "query", "listing", "more"}
  /\ WorkType(work) /\ MenuType(menu) /\ ListType(list)

\* A completion at work: where its word is in the line as it was, and that what was
\* read and what is left of the matches are all of them, unless they were given up.
AtWork(w) ==
  /\ IsText(w.before) /\ w.start \in 0 .. w.before.point
  /\ w.word = WordIn(w.before, w.start) /\ w.delim \in Seq(Char)
  /\ w.found \cup w.unread \subseteq Candidates(w.word)
  /\ w.cut \/ w.found \cup w.unread = Candidates(w.word)

Commands ==
  /\ last \in {"old", "menu"} => work.what = last
  /\ work.what = "none" => phase = "key"
  /\ work.what # "none" => AtWork(work)
  /\ phase = "reading" => text = work.before /\ menu = NoMenu /\ list = Nothing

\* A menu of matches for the word, and a line in which something stands in its place.
OnWord(w, m, t) ==
  /\ w.what \in {"old", "menu"}
  /\ MenuType(m) /\ m.matches \in Seq(Seq(Char)) /\ Len(m.matches) # 0
  /\ m.word = w.word /\ m.start = w.start /\ m.delim = w.delim /\ m.index \in 0 .. Len(m.matches) - 1
  /\ Stands(t, w.before, w.start)

\* Of several matches the one at the index stands there.
InMenu(w, m, t) ==
  /\ OnWord(w, m, t)
  /\ Len(m.matches) > 1 =>
       /\ m.index = 0 /\ w.what = "old" /\ ~set.skip => t = w.before
       /\ m.index = 0 /\ w.what = "menu" => WordIn(t, w.start) = m.matches[1]
       /\ m.index # 0 => EndedWith(WordIn(t, w.start), m.matches[m.index + 1], w.delim)

Offering ==
  /\ menu.matches # <<>> => InMenu(work, menu, text)
  /\ phase \in {"query", "listing", "more"} /\ work.what \in {"old", "menu"} => menu.matches # <<>>

\* What the word has become excludes none of its candidates.
DecidedFor(w, t) ==
  LET C == Candidates(w.word)
      now == WordIn(t, w.start)
  IN  /\ Around(t, w.before, w.start)
      /\ C = {} => t = w.before
      /\ \A name \in C : C = {name} => EndedWith(now, name, w.delim)
      /\ Cardinality(C) > 1 =>
           /\ C \subseteq Candidates(now) /\ Candidates(now) \subseteq C \cup DotsIn(w.word)
           /\ \A c \in Char \ {"/"} : Candidates(Append(now, c)) # C

Decided ==
  phase # "reading" /\ work.what \in {"insert", "all", "unmodified"} /\ ~work.cut => DecidedFor(work, text)

\* What is printed and what the rows hold are together the numbers up to n, each once.
Held(p, r, n) ==
  /\ p \in Seq(1 .. n) /\ r \in Seq(Seq(1 .. n))
  /\ \A l \in 1 .. n : \/ \E j \in 1 .. Len(p) : p[j] = l
                       \/ \E i \in 1 .. Len(r) : \E j \in 1 .. Len(r[i]) : r[i][j] = l
  /\ \A j, k \in 1 .. Len(p) : p[j] = p[k] => j = k
  /\ \A i, h \in 1 .. Len(r) : \A j \in 1 .. Len(r[i]), k \in 1 .. Len(r[h]) :
       r[i][j] = r[h][k] => i = h /\ j = k
  /\ \A j \in 1 .. Len(p) : \A i \in 1 .. Len(r) : \A k \in 1 .. Len(r[i]) : p[j] # r[i][k]

\* A list that is shown: all of its names, and no more lines than the screen has.
Listed(l, w, ph) ==
  /\ l.since <= Height - 1
  /\ ph \in {"query", "listing", "more"} =>
       /\ l.names \in Seq(Seq(Char)) /\ l.since <= l.lines
       /\ Held(l.printed, l.rows, Len(l.names))
       /\ w.cut \/ ToSet(l.names) = Candidates(w.word)
  /\ ph = "listing" /\ l.rows # <<>> => l.lines <= Height - 2
  /\ ph = "query" => l.lines = 0
  /\ ph = "more" => l.lines = Height - 1

CompletionInductive == Typed /\ Commands /\ Offering /\ Decided /\ Listed(list, work, phase)

\* With the directories and the settings as they were a word has the candidates it had.
LEMMA SameCandidates ==
  ASSUME tree' = tree, set' = set
  PROVE  \A w : Candidates(w)' = Candidates(w)
<1>1. \A n, f : IsMatch(n, f)' = IsMatch(n, f)
  BY DEF IsMatch, Fold
<1> QED
  BY <1>1 DEF Candidates

\* So means what is said of a completion.
LEMMA SameMeaning ==
  ASSUME tree' = tree, set' = set
  PROVE  /\ \A w : AtWork(w)' <=> AtWork(w)
         /\ \A w, m, t : InMenu(w, m, t)' <=> InMenu(w, m, t)
         /\ \A w, t : DecidedFor(w, t)' <=> DecidedFor(w, t)
         /\ \A l, w, ph : Listed(l, w, ph)' <=> Listed(l, w, ph)
<1>1. \A w : Candidates(w)' = Candidates(w)
  BY SameCandidates
<1>2. \A t, b, s : Around(t, b, s)' <=> Around(t, b, s)
  BY DEF Around
<1>3. \A t, b, s : Stands(t, b, s)' <=> Stands(t, b, s)
  BY <1>2 DEF Stands
<1>4. \A w : AtWork(w)' <=> AtWork(w)
  BY <1>1 DEF AtWork
<1>5. \A w, m, t : OnWord(w, m, t)' <=> OnWord(w, m, t)
  BY <1>3 DEF OnWord
<1>6. \A w, m, t : InMenu(w, m, t)' <=> InMenu(w, m, t)
  <2> TAKE w, m, t
  <2>1. OnWord(w, m, t)' <=> OnWord(w, m, t)
    BY <1>5
  <2>2. PICK skip : skip = set.skip
    OBVIOUS
  <2>3. set'.skip = skip
    BY <2>2
  <2> QED
    BY ONLY <2>1, <2>2, <2>3 DEF InMenu
<1>7. \A w, t : DecidedFor(w, t)' <=> DecidedFor(w, t)
  BY <1>1, <1>2 DEF DecidedFor
<1>8. \A l, w, ph : Listed(l, w, ph)' <=> Listed(l, w, ph)
  BY <1>1 DEF Listed
<1> QED
  BY <1>4, <1>6, <1>7, <1>8

-----------------------------------------------------------------------------
(* What the commands do *)

\* The end of the menu commands: the next match stands in the place of the word,
\* or the word as it was typed, or the common beginning.
LEMMA OfferIs ==
  ASSUME NEW w, AtWork(w), NEW m, NEW t, OnWord(w, m, t), NEW step \in Int,
         NEW old \in BOOLEAN, old <=> w.what = "old",
         NEW r, r = [m EXCEPT !.index = Offer(m, step, t, old).index]
  PROVE  InMenu(w, r, Offer(m, step, t, old).text)
<1>1. /\ m.matches \in Seq(Seq(Char)) /\ Len(m.matches) # 0 /\ m.index \in 0 .. Len(m.matches) - 1
      /\ m.word = w.word /\ m.start = w.start /\ m.delim = w.delim /\ MenuType(m)
      /\ w.what \in {"old", "menu"} /\ Stands(t, w.before, w.start)
  BY DEF OnWord
<1>2. PICK n \in Nat \ {0} : n = Len(m.matches)
  BY ONLY <1>1
<1>3. PICK index : index = (m.index + step) % n
  OBVIOUS
<1>4. index \in 0 .. n - 1
  <2>1. PICK x : x = m.index + step
    OBVIOUS
  <2>2. x \in Int
    BY <1>1, <2>1
  <2>3. x % n \in 0 .. n - 1
    BY <2>2
  <2> QED
    BY <1>3, <2>1, <2>3
<1>5. PICK name : name = m.matches[index + 1]
  OBVIOUS
<1>6. name \in Seq(Char)
  <2>1. index + 1 \in 1 .. n
    BY <1>4
  <2> QED
    BY <2>1, <1>1, <1>2, <1>5
<1>7. PICK put : put = IF index = 0 /\ n > 1 /\ old THEN w.word ELSE name
  OBVIOUS
<1>8. IsText(w.before) /\ w.start \in 0 .. w.before.point /\ w.word \in Seq(Char) /\ w.delim \in Seq(Char)
      /\ w.word = WordIn(w.before, w.start)
  <2>1. IsText(w.before) /\ w.start \in 0 .. w.before.point
        /\ w.delim \in Seq(Char) /\ w.word = WordIn(w.before, w.start)
    BY DEF AtWork
  <2>2. WordIn(w.before, w.start) \in Seq(Char)
    BY ONLY <2>1, WordInIs
  <2> QED
    BY <2>1, <2>2
<1>9. put \in Seq(Char)
  BY <1>6, <1>7, <1>8
<1>10. PICK b, start, delim : b = w.before /\ start = w.start /\ delim = w.delim
  OBVIOUS
<1>11. IsText(b) /\ start \in 0 .. b.point /\ Stands(t, b, start) /\ delim \in Seq(Char)
  BY <1>1, <1>8, <1>10
<1>12. PICK new : new = InsertMatch(t, put, start)
  OBVIOUS
<1>13. Stands(new, b, start) /\ WordIn(new, start) = put
  BY ONLY <1>9, <1>11, <1>12, InsertedStands
<1>14. PICK nontrivial : nontrivial = (name # w.word)
  OBVIOUS
<1>15. PICK closed : closed = Append1(new, name, delim, nontrivial)
  OBVIOUS
<1>16. /\ Stands(closed, b, start)
       /\ EndedWith(WordIn(closed, start), WordIn(new, start), delim)
  <2>1. IsText(b) /\ start \in 0 .. b.point /\ Stands(new, b, start) /\ delim \in Seq(Char)
    BY <1>11, <1>13
  <2>2. /\ Stands(Append1(new, name, delim, nontrivial), b, start)
        /\ EndedWith(WordIn(Append1(new, name, delim, nontrivial), start), WordIn(new, start), delim)
    BY ONLY <2>1, AppendedStands
  <2> QED
    BY ONLY <2>2, <1>15
<1>17. /\ Offer(m, step, t, old).index = index
       /\ Offer(m, step, t, old).text = IF index = 0 /\ n > 1 THEN new ELSE closed
  BY <1>1, <1>2, <1>3, <1>5, <1>7, <1>10, <1>12, <1>14, <1>15 DEF Offer
<1>18. PICK o : o = Offer(m, step, t, old).text
  OBVIOUS
<1>19. /\ r.matches = m.matches /\ r.index = index /\ r.word = m.word /\ r.start = m.start /\ r.delim = m.delim
       /\ MenuType(r)
  BY <1>1, <1>17 DEF MenuType
<1>20. OnWord(w, r, o)
  <2>1. Stands(o, b, start)
    BY <1>13, <1>16, <1>17, <1>18
  <2>2. r.index \in 0 .. Len(r.matches) - 1
    BY <1>2, <1>4, <1>19
  <2> QED
    BY <2>1, <2>2, <1>1, <1>10, <1>19 DEF OnWord
<1>21. ASSUME n > 1, index = 0, w.what = "old", ~set.skip PROVE o = w.before
  <2>1. o = new /\ put = w.word
    BY <1>21, <1>7, <1>17, <1>18
  <2>2. WordIn(new, start) = WordIn(b, start)
    BY <2>1, <1>8, <1>10, <1>13
  <2>3. ~set.skip
    BY <1>21
  <2>4. new = b
    BY ONLY <2>2, <2>3, <1>11, <1>13, WordBack
  <2> QED
    BY <2>1, <2>4, <1>10
<1>22. ASSUME n > 1, index = 0, w.what = "menu" PROVE WordIn(o, w.start) = m.matches[1]
  <2>1. o = new /\ put = name /\ name = m.matches[1]
    BY <1>22, <1>5, <1>7, <1>17, <1>18
  <2> QED
    BY <2>1, <1>10, <1>13
<1>23. ASSUME n > 1, index # 0
       PROVE  EndedWith(WordIn(o, w.start), m.matches[index + 1], w.delim)
  <2>1. o = closed /\ put = name
    BY <1>23, <1>7, <1>17, <1>18
  <2> QED
    BY <2>1, <1>5, <1>10, <1>13, <1>16
<1>24. InMenu(w, r, o)
  <2>1. Len(r.matches) = n
    BY <1>2, <1>19
  <2> QED
    BY <2>1, <1>19, <1>20, <1>21, <1>22, <1>23 DEF InMenu
<1> QED
  BY <1>18, <1>24

\* The first of the matches in the place of the word; an empty one is only
\* the common beginning of a word that is empty.
LEMMA FirstInserted ==
  ASSUME NEW w, AtWork(w), NEW first \in Seq(Char), first = <<>> => w.word = <<>>,
         NEW new, new = IF first = <<>> THEN w.before ELSE InsertMatch(w.before, first, w.start)
  PROVE  Stands(new, w.before, w.start) /\ WordIn(new, w.start) = first
<1>1. PICK b, start : b = w.before /\ start = w.start
  OBVIOUS
<1>2. IsText(b) /\ start \in 0 .. b.point /\ w.word = WordIn(b, start)
  BY <1>1 DEF AtWork
<1>3. Stands(b, b, start)
  BY ONLY <1>2, StandsFirst
<1>4. CASE first = <<>>
  BY <1>1, <1>2, <1>3, <1>4
<1>5. CASE first # <<>>
  <2>1. new = InsertMatch(b, first, start)
    BY <1>1, <1>5
  <2>2. first \in Seq(Char)
    OBVIOUS
  <2>3. Stands(new, b, start) /\ WordIn(new, start) = first
    BY ONLY <2>1, <2>2, <1>2, <1>3, InsertedStands
  <2> QED
    BY <1>1, <2>3
<1> QED
  BY <1>4, <1>5

\* The matches of a completion that found any.
LEMMA FoundIs ==
  ASSUME tree \in Trees, NEW w, AtWork(w), w.found # {}, NEW ms, ms = Matches(w.found, w.word)
  PROVE  /\ w.word \in Seq(Char) /\ IsFiniteSet(w.found) /\ w.found \subseteq Seq(Char)
         /\ ms \in Seq(Seq(Char)) /\ Len(ms) # 0
         /\ ms[1] = <<>> => w.word = <<>>
         /\ Len(ms) = 1 => w.found = {ms[1]} /\ Len(ms[1]) # 0
         /\ Len(ms) # 1 => /\ Cardinality(w.found) > 1 /\ Len(ms) = Cardinality(w.found) + 1
                           /\ ms[1] = CommonBeginning(w.found, w.word) /\ Tail(ms) = Sorted(w.found)
<1>1. PICK word, found : word = w.word /\ found = w.found
  OBVIOUS
<1>2. word \in Seq(Char)
  <2>1. IsText(w.before) /\ w.start \in 0 .. w.before.point /\ w.word = WordIn(w.before, w.start)
    BY DEF AtWork
  <2>2. WordIn(w.before, w.start) \in Seq(Char)
    BY ONLY <2>1, WordInIs
  <2> QED
    BY <1>1, <2>1, <2>2
<1>3. found \subseteq Candidates(word) /\ found # {}
  BY <1>1 DEF AtWork
<1>4. IsFiniteSet(Candidates(word)) /\ \A c \in Candidates(word) : c \in Seq(Char) /\ Len(c) # 0
  BY <1>2, CandidatesType
<1>5. IsFiniteSet(found) /\ found \subseteq Seq(Char) /\ \A c \in found : Len(c) # 0
  <2>1. IsFiniteSet(found)
    BY <1>3, <1>4, FS_Subset
  <2> QED
    BY <2>1, <1>3, <1>4
<1>6. ms = Matches(found, word)
  BY <1>1
<1>7. /\ ms \in Seq(Seq(Char))
      /\ \/ \E s \in found : found = {s} /\ ms = <<s>> /\ Len(ms) = 1 /\ ms[1] = s
         \/ /\ Cardinality(found) > 1 /\ Len(ms) = Cardinality(found) + 1
            /\ ms[1] = CommonBeginning(found, word) /\ Tail(ms) = Sorted(found)
  <2>1. found # {} /\ IsFiniteSet(found) /\ found \subseteq Seq(Char)
    BY <1>3, <1>5
  <2> QED
    BY ONLY <2>1, <1>2, <1>6, MatchesAre
<1>8. CASE \E s \in found : found = {s} /\ ms = <<s>> /\ Len(ms) = 1 /\ ms[1] = s
  <2>1. PICK s \in found : found = {s} /\ Len(ms) = 1 /\ ms[1] = s
    BY <1>8
  <2>2. s \in Seq(Char) /\ Len(s) # 0
    BY <1>5
  <2>3. s # <<>>
    BY <2>2
  <2> QED
    BY <2>1, <2>2, <2>3, <1>1, <1>2, <1>5, <1>7
<1>9. CASE /\ Cardinality(found) > 1 /\ Len(ms) = Cardinality(found) + 1
           /\ ms[1] = CommonBeginning(found, word) /\ Tail(ms) = Sorted(found)
  <2>1. Cardinality(found) \in Nat
    BY <1>5, FS_CardinalityType
  <2>2. Len(ms) # 0 /\ Len(ms) # 1
    BY <2>1, <1>9
  <2>3. CommonBeginning(found, word) = <<>> => word = <<>>
    BY ONLY <1>2, <1>3, <1>5, CommonBeginningIs
  <2> QED
    BY <2>2, <2>3, <1>1, <1>2, <1>5, <1>7, <1>9
<1> QED
  BY <1>7, <1>8, <1>9

-----------------------------------------------------------------------------
(* The list *)

\* Before a row is printed the rows hold them all.
LEMMA HeldFirst ==
  ASSUME NEW n \in Nat, NEW R, HoldsAll(R, n)
  PROVE  Held(<<>>, R, n)
<1>1. <<>> \in Seq(1 .. n) /\ Len(<<>>) = 0
  OBVIOUS
<1>2. PICK p : p = <<>>
  OBVIOUS
<1>3. p \in Seq(1 .. n) /\ 1 .. Len(p) = {}
  BY <1>1, <1>2
<1>4. Held(p, R, n)
  BY ONLY HoldsAll(R, n), <1>3 DEF Held, HoldsAll
<1> QED
  BY <1>2, <1>4

\* A single match is a row of its own.
LEMMA HeldSingle == Held(<<>>, <<<<1>>>>, 1)
<1>1. 1 \in 1 .. 1
  OBVIOUS
<1>2. PICK r : r = <<1>>
  OBVIOUS
<1>3. r \in Seq(1 .. 1) /\ Len(r) = 1 /\ r[1] = 1
  BY ONLY <1>1, <1>2, OneIs
<1>4. PICK R : R = <<r>>
  OBVIOUS
<1>5. R \in Seq(Seq(1 .. 1)) /\ Len(R) = 1 /\ R[1] = r
  BY ONLY <1>3, <1>4, OneIs
<1>6. \A i \in 1 .. 1 : i = 1
  OBVIOUS
<1>7. HoldsAll(R, 1)
  BY ONLY <1>1, <1>3, <1>5, <1>6 DEF HoldsAll
<1>8. 1 \in Nat
  OBVIOUS
<1> QED
  BY <1>2, <1>4, <1>7, <1>8, HeldFirst

\* A row that is printed is not lost.
LEMMA HeldOn ==
  ASSUME NEW n \in Nat, NEW p, NEW r, Held(p, r, n), r # <<>>
  PROVE  Held(p \o Head(r), Tail(r), n)
<1>1. p \in Seq(1 .. n) /\ r \in Seq(Seq(1 .. n))
  BY DEF Held
<1>2. PICK lp, lr : lp = Len(p) /\ lr = Len(r)
  OBVIOUS
<1>3. lp \in Nat /\ lr \in Nat /\ lr # 0
  BY <1>1, <1>2
<1>4. PICK row, rest : row = r[1] /\ rest = Tail(r)
  OBVIOUS
<1>5. Head(r) = row /\ row \in Seq(1 .. n)
  BY <1>1, <1>2, <1>3, <1>4
<1>6. rest \in Seq(Seq(1 .. n)) /\ Len(rest) = lr - 1 /\ \A i \in 1 .. lr - 1 : rest[i] = r[i + 1]
  BY <1>1, <1>2, <1>3, <1>4
<1>7. PICK k : k = Len(row)
  OBVIOUS
<1>8. k \in Nat
  BY <1>5, <1>7
<1>9. PICK q : q = p \o row
  OBVIOUS
<1>10. /\ q \in Seq(1 .. n) /\ Len(q) = lp + k
       /\ \A i \in 1 .. lp : q[i] = p[i]
       /\ \A i \in 1 .. k : q[lp + i] = row[i]
  <2>1. p \in Seq(1 .. n) /\ row \in Seq(1 .. n)
    BY <1>1, <1>5
  <2>2. /\ q \in Seq(1 .. n) /\ Len(q) = Len(p) + Len(row)
        /\ \A i \in 1 .. Len(p) : q[i] = p[i]
        /\ \A i \in 1 .. Len(row) : q[Len(p) + i] = row[i]
    BY ONLY <2>1, <1>9, BehindIs
  <2>3. lp = Len(p)
    BY <1>1, <1>2
  <2> QED
    BY ONLY <2>2, <2>3, <1>7
<1>11. /\ \A l \in 1 .. n : \/ \E j \in 1 .. lp : p[j] = l
                            \/ \E i \in 1 .. lr : \E j \in 1 .. Len(r[i]) : r[i][j] = l
       /\ \A j, h \in 1 .. lp : p[j] = p[h] => j = h
       /\ \A i, h \in 1 .. lr : \A j \in 1 .. Len(r[i]), g \in 1 .. Len(r[h]) :
            r[i][j] = r[h][g] => i = h /\ j = g
       /\ \A j \in 1 .. lp : \A i \in 1 .. lr : \A g \in 1 .. Len(r[i]) : p[j] # r[i][g]
  BY <1>2 DEF Held
<1>12. \A i \in 1 .. lp + k : i \in 1 .. lp \/ (i - lp \in 1 .. k /\ i = lp + (i - lp))
  BY <1>3, <1>8
<1>13. \A i \in 1 .. lr : i = 1 \/ (i - 1 \in 1 .. lr - 1 /\ i = (i - 1) + 1)
  BY <1>3
<1>14. 1 \in 1 .. lr /\ \A i \in 1 .. lr - 1 : i + 1 \in 1 .. lr /\ i + 1 # 1
  BY <1>3
<1>15. \A i \in 1 .. lp : i \in 1 .. lp + k
  BY <1>3, <1>8
<1>16. \A i \in 1 .. k : lp + i \in 1 .. lp + k
  BY <1>3, <1>8
<1>17. ASSUME NEW l \in 1 .. n
       PROVE  \/ \E j \in 1 .. lp + k : q[j] = l
              \/ \E i \in 1 .. lr - 1 : \E j \in 1 .. Len(rest[i]) : rest[i][j] = l
  <2>1. CASE \E j \in 1 .. lp : p[j] = l
    BY <2>1, <1>10, <1>15
  <2>2. CASE \E i \in 1 .. lr : \E j \in 1 .. Len(r[i]) : r[i][j] = l
    <3>1. PICK i \in 1 .. lr : \E j \in 1 .. Len(r[i]) : r[i][j] = l
      BY <2>2
    <3>2. PICK j \in 1 .. Len(r[i]) : r[i][j] = l
      BY <3>1
    <3>3. CASE i = 1
      <4>1. j \in 1 .. k /\ row[j] = l
        BY <3>2, <3>3, <1>4, <1>7
      <4>2. lp + j \in 1 .. lp + k /\ q[lp + j] = l
        BY <4>1, <1>10, <1>16
      <4> QED
        BY <4>2
    <3>4. CASE i # 1
      <4>1. PICK h : h = i - 1
        OBVIOUS
      <4>2. h \in 1 .. lr - 1 /\ h + 1 = i
        BY <3>4, <4>1, <1>13
      <4>3. rest[h] = r[i]
        BY <4>2, <1>6
      <4> QED
        BY <4>2, <4>3, <3>2
    <3> QED
      BY <3>3, <3>4
  <2> QED
    BY <2>1, <2>2, <1>11
<1>18. ASSUME NEW i \in 1 .. lp + k, NEW h \in 1 .. lp + k, q[i] = q[h]
       PROVE  i = h
  <2>1. CASE i \in 1 .. lp /\ h \in 1 .. lp
    <3>1. p[i] = p[h]
      BY <2>1, <1>10, <1>18
    <3> QED
      BY ONLY <2>1, <3>1, <1>11
  <2>2. CASE i \notin 1 .. lp /\ h \notin 1 .. lp
    <3>1. PICK a, b : a = i - lp /\ b = h - lp
      OBVIOUS
    <3>2. a \in 1 .. k /\ b \in 1 .. k /\ i = lp + a /\ h = lp + b
      BY <2>2, <3>1, <1>12
    <3>3. row[a] = row[b]
      BY <3>2, <1>10, <1>18
    <3>4. a = b
      BY <3>2, <3>3, <1>4, <1>7, <1>11, <1>14
    <3> QED
      BY <3>2, <3>4
  <2>3. CASE i \in 1 .. lp /\ h \notin 1 .. lp
    <3>1. PICK b : b = h - lp
      OBVIOUS
    <3>2. b \in 1 .. k /\ h = lp + b
      BY <2>3, <3>1, <1>12
    <3>3. p[i] = row[b]
      BY <2>3, <3>2, <1>10, <1>18
    <3> QED
      BY <2>3, <3>2, <3>3, <1>4, <1>7, <1>11, <1>14
  <2>4. CASE i \notin 1 .. lp /\ h \in 1 .. lp
    <3>1. PICK a : a = i - lp
      OBVIOUS
    <3>2. a \in 1 .. k /\ i = lp + a
      BY <2>4, <3>1, <1>12
    <3>3. p[h] = row[a]
      BY <2>4, <3>2, <1>10, <1>18
    <3> QED
      BY <2>4, <3>2, <3>3, <1>4, <1>7, <1>11, <1>14
  <2> QED
    BY <2>1, <2>2, <2>3, <2>4
<1>19. ASSUME NEW i \in 1 .. lr - 1, NEW h \in 1 .. lr - 1,
              NEW j \in 1 .. Len(rest[i]), NEW g \in 1 .. Len(rest[h]), rest[i][j] = rest[h][g]
       PROVE  i = h /\ j = g
  <2>1. PICK a, b : a = i + 1 /\ b = h + 1
    OBVIOUS
  <2>2. a \in 1 .. lr /\ b \in 1 .. lr /\ rest[i] = r[a] /\ rest[h] = r[b]
    BY <2>1, <1>6, <1>14
  <2>3. a = b /\ j = g
    BY <2>2, <1>11, <1>19
  <2>4. i \in Int /\ h \in Int
    OBVIOUS
  <2> QED
    BY ONLY <2>1, <2>3, <2>4
<1>20. ASSUME NEW j \in 1 .. lp + k, NEW i \in 1 .. lr - 1, NEW g \in 1 .. Len(rest[i])
       PROVE  q[j] # rest[i][g]
  <2>1. PICK a : a = i + 1
    OBVIOUS
  <2>2. a \in 1 .. lr /\ a # 1 /\ rest[i] = r[a]
    <3>1. i + 1 \in 1 .. lr /\ i + 1 # 1
      BY <1>14
    <3>2. rest[i] = r[i + 1]
      BY <1>6
    <3> QED
      BY ONLY <3>1, <3>2, <2>1
  <2>3. CASE j \in 1 .. lp
    <3>1. q[j] = p[j]
      BY <2>3, <1>10
    <3>2. g \in 1 .. Len(r[a])
      BY <2>2
    <3>3. p[j] # r[a][g]
      BY ONLY <2>2, <2>3, <3>2, <1>11
    <3> QED
      BY ONLY <2>2, <3>1, <3>3
  <2>4. CASE j \notin 1 .. lp
    <3>1. PICK b : b = j - lp
      OBVIOUS
    <3>2. b \in 1 .. k /\ j = lp + b
      BY <2>4, <3>1, <1>12
    <3>3. q[j] = r[1][b] /\ b \in 1 .. Len(r[1])
      BY <3>2, <1>4, <1>7, <1>10
    <3> QED
      BY <3>3, <2>2, <1>11, <1>14
  <2> QED
    BY <2>3, <2>4
<1>21. Held(q, rest, n)
  <2>1. Len(q) = lp + k /\ Len(rest) = lr - 1
    BY <1>6, <1>10
  <2>2. q \in Seq(1 .. n) /\ rest \in Seq(Seq(1 .. n))
    BY <1>6, <1>10
  <2>3. \A l \in 1 .. n : \/ \E j \in 1 .. Len(q) : q[j] = l
                         \/ \E i \in 1 .. Len(rest) : \E j \in 1 .. Len(rest[i]) : rest[i][j] = l
    BY ONLY <2>1, <1>17
  <2>4. \A i, h \in 1 .. Len(q) : q[i] = q[h] => i = h
    BY ONLY <2>1, <1>18
  <2>5. \A i, h \in 1 .. Len(rest) : \A j \in 1 .. Len(rest[i]), g \in 1 .. Len(rest[h]) :
          rest[i][j] = rest[h][g] => i = h /\ j = g
    BY ONLY <2>1, <1>19
  <2>6. \A j \in 1 .. Len(q) : \A i \in 1 .. Len(rest) : \A g \in 1 .. Len(rest[i]) : q[j] # rest[i][g]
    BY ONLY <2>1, <1>20
  <2> QED
    BY ONLY <2>2, <2>3, <2>4, <2>5, <2>6 DEF Held
<1> QED
  BY <1>4, <1>5, <1>9, <1>21

\* When no row is left all of the names were printed, each once.
LEMMA HeldLast ==
  ASSUME NEW n \in Nat, NEW p, Held(p, <<>>, n)
  PROVE  Len(p) = n /\ ToSet(p) = 1 .. n
<1>1. PICK r : r = <<>>
  OBVIOUS
<1>2. Held(p, r, n) /\ 1 .. Len(r) = {}
  BY <1>1
<1>3. PICK m : m = Len(p)
  OBVIOUS
<1>4. /\ p \in Seq(1 .. n)
      /\ \A l \in 1 .. n : \E j \in 1 .. m : p[j] = l
      /\ \A j, k \in 1 .. m : p[j] = p[k] => j = k
  BY ONLY <1>2, <1>3 DEF Held
<1>5. m \in Nat /\ DOMAIN p = 1 .. m /\ p \in [1 .. m -> 1 .. n]
  BY <1>3, <1>4
<1>6. ToSet(p) = 1 .. n
  <2>1. ToSet(p) = {p[i] : i \in 1 .. m}
    BY <1>5 DEF ToSet
  <2> QED
    BY <2>1, <1>4, <1>5
<1>7. p \in Bijection(1 .. m, 1 .. n)
  <2>1. p \in Injection(1 .. m, 1 .. n)
    BY <1>4, <1>5 DEF Injection, IsInjective
  <2>2. p \in Surjection(1 .. m, 1 .. n)
    BY <1>4, <1>5 DEF Surjection
  <2> QED
    BY <2>1, <2>2 DEF Bijection
<1>8. /\ IsFiniteSet(1 .. m) /\ Cardinality(1 .. m) = m
      /\ IsFiniteSet(1 .. n) /\ Cardinality(1 .. n) = n
  BY <1>5, FS_Interval
<1>9. Cardinality(1 .. m) = Cardinality(1 .. n)
  <2>1. PICK A, B : A = 1 .. m /\ B = 1 .. n
    OBVIOUS
  <2>2. IsFiniteSet(A)
    BY <1>8, <2>1
  <2>3. ExistsBijection(A, B)
    BY <1>7, <2>1 DEF ExistsBijection
  <2>4. Cardinality(B) = Cardinality(A)
    BY ONLY <2>2, <2>3, FS_Bijection
  <2> QED
    BY <2>1, <2>4
<1> QED
  BY <1>3, <1>6, <1>8, <1>9

-----------------------------------------------------------------------------
(* The end of a completion *)

\* The line with the match, or the common beginning, and what is put behind it.
Inserted(w, ms) ==
  LET new == IF ms[1] = <<>> THEN w.before ELSE InsertMatch(w.before, ms[1], w.start)
  IN  IF Len(ms) = 1 THEN Append1(new, ms[1], w.delim, ms[1] # w.word) ELSE new

\* Something stands in the place of the word then: the one match with an end,
\* or the common beginning.
LEMMA InsertedIs ==
  ASSUME tree \in Trees, NEW w, AtWork(w), w.found # {}, NEW ms, ms = Matches(w.found, w.word),
         NEW t, t = Inserted(w, ms)
  PROVE  /\ Stands(t, w.before, w.start)
         /\ Len(ms) = 1 => EndedWith(WordIn(t, w.start), ms[1], w.delim)
         /\ Len(ms) # 1 => WordIn(t, w.start) = ms[1]
<1>1. ms \in Seq(Seq(Char)) /\ Len(ms) # 0 /\ (ms[1] = <<>> => w.word = <<>>)
  BY FoundIs
<1>2. PICK first : first = ms[1]
  OBVIOUS
<1>3. first \in Seq(Char) /\ (first = <<>> => w.word = <<>>)
  BY <1>1, <1>2
<1>4. PICK new : new = IF first = <<>> THEN w.before ELSE InsertMatch(w.before, first, w.start)
  OBVIOUS
<1>5. Stands(new, w.before, w.start) /\ WordIn(new, w.start) = first
  BY ONLY AtWork(w), <1>3, <1>4, FirstInserted
<1>6. CASE Len(ms) = 1
  <2>1. PICK b, start, delim, nontrivial :
          b = w.before /\ start = w.start /\ delim = w.delim /\ nontrivial = (first # w.word)
    OBVIOUS
  <2>2. IsText(b) /\ start \in 0 .. b.point /\ delim \in Seq(Char) /\ Stands(new, b, start)
    BY <1>5, <2>1 DEF AtWork
  <2>3. t = Append1(new, first, delim, nontrivial)
    BY <1>2, <1>4, <1>6, <2>1 DEF Inserted
  <2>4. Stands(t, b, start) /\ EndedWith(WordIn(t, start), WordIn(new, start), delim)
    BY ONLY <2>2, <2>3, AppendedStands
  <2> QED
    BY <1>2, <1>5, <1>6, <2>1, <2>4
<1>7. CASE Len(ms) # 1
  <2>1. t = new
    BY <1>2, <1>4, <1>7 DEF Inserted
  <2> QED
    BY <1>2, <1>5, <1>7, <2>1
<1> QED
  BY <1>6, <1>7

\* With every match read and none given up, nothing is decided for the user.
LEMMA DecidedIs ==
  ASSUME tree \in Trees, NEW w, AtWork(w), w.found # {}, w.unread = {}, ~w.cut,
         NEW ms, ms = Matches(w.found, w.word), NEW t, t = Inserted(w, ms)
  PROVE  DecidedFor(w, t)
<1>1. PICK C, word : C = w.found /\ word = w.word
  OBVIOUS
<1>2. C = Candidates(word) /\ C # {}
  BY <1>1 DEF AtWork
<1>3. /\ Stands(t, w.before, w.start)
      /\ Len(ms) = 1 => EndedWith(WordIn(t, w.start), ms[1], w.delim)
      /\ Len(ms) # 1 => WordIn(t, w.start) = ms[1]
  BY InsertedIs
<1>4. /\ word \in Seq(Char) /\ IsFiniteSet(C)
      /\ Len(ms) = 1 => C = {ms[1]}
      /\ Len(ms) # 1 => Cardinality(C) > 1 /\ ms[1] = CommonBeginning(C, word)
  BY <1>1, FoundIs
<1>5. Around(t, w.before, w.start)
  BY <1>3 DEF Stands
<1>6. CASE Len(ms) = 1
  <2>1. PICK s : s = ms[1]
    OBVIOUS
  <2>2. C = {s} /\ EndedWith(WordIn(t, w.start), s, w.delim)
    BY <1>3, <1>4, <1>6, <2>1
  <2>3. Cardinality(C) = 1
    BY <2>2, FS_Singleton
  <2>4. \A name \in C : EndedWith(WordIn(t, w.start), name, w.delim)
    BY <2>2
  <2> QED
    BY <1>1, <1>2, <1>5, <2>3, <2>4 DEF DecidedFor
<1>7. CASE Len(ms) # 1
  <2>1. PICK now : now = WordIn(t, w.start)
    OBVIOUS
  <2>2. Cardinality(C) > 1 /\ now = CommonBeginning(C, word)
    BY <1>3, <1>4, <1>7, <2>1
  <2>3. LET f == CommonBeginning(Candidates(word), word)
        IN  /\ Candidates(word) \subseteq Candidates(f)
            /\ Candidates(f) \subseteq Candidates(word) \cup DotsIn(word)
            /\ \A c \in Char : Candidates(Append(f, c)) # Candidates(word)
    <3>1. tree \in Trees /\ word \in Seq(Char) /\ Candidates(word) # {}
      BY <1>2, <1>4
    <3> QED
      BY ONLY <3>1, BeginningExcludesNone
  <2>4. /\ C \subseteq Candidates(now) /\ Candidates(now) \subseteq C \cup DotsIn(word)
        /\ \A c \in Char : Candidates(Append(now, c)) # C
    BY ONLY <1>2, <2>2, <2>3
  <2>5. \A name : C # {name}
    <3> SUFFICES ASSUME NEW name, C = {name} PROVE FALSE
      OBVIOUS
    <3>1. Cardinality(C) = 1
      BY FS_Singleton
    <3> QED
      BY <3>1, <2>2
  <2> QED
    BY <1>1, <1>2, <1>5, <2>1, <2>4, <2>5 DEF DecidedFor
<1> QED
  BY <1>6, <1>7

\* Without candidates the line stays.
LEMMA NothingDecided ==
  ASSUME NEW w, AtWork(w), w.found = {}, w.unread = {}, ~w.cut
  PROVE  DecidedFor(w, w.before)
<1>1. Candidates(w.word) = {} /\ IsText(w.before) /\ w.start \in 0 .. w.before.point
  BY DEF AtWork
<1>2. PICK b, start : b = w.before /\ start = w.start
  OBVIOUS
<1>3. Stands(b, b, start)
  BY <1>1, <1>2, StandsFirst
<1>4. Around(b, b, start)
  BY <1>3 DEF Stands
<1>5. Cardinality({}) = 0
  BY FS_EmptySet
<1> QED
  BY <1>1, <1>2, <1>4, <1>5 DEF DecidedFor

\* display_matches shows all of the matches that were found.
LEMMA DisplayIs ==
  ASSUME tree \in Trees, NEW w, AtWork(w), w.found # {}, w.unread = {},
         NEW ms, ms = Matches(w.found, w.word), Display(ms)
  PROVE  Listed(list', w, phase') /\ ListType(list') /\ phase' \in {"query", "listing"}
<1>1. PICK names : names = IF Len(ms) = 1 THEN ms ELSE Tail(ms)
  OBVIOUS
<1>2. PICK rows : rows = IF Len(ms) = 1 THEN <<<<1>>>> ELSE Rows(Len(names), Limit(names))
  OBVIOUS
<1>3. PICK l : l = list'
  OBVIOUS
<1>4. l = [names |-> names, rows |-> rows, printed |-> <<>>, lines |-> 0, since |-> 0]
  BY <1>1, <1>2, <1>3 DEF Display, Nothing
<1>5. phase' \in {"query", "listing"}
  BY DEF Display
<1>6. /\ w.word \in Seq(Char) /\ IsFiniteSet(w.found) /\ w.found \subseteq Seq(Char)
      /\ ms \in Seq(Seq(Char)) /\ Len(ms) # 0
      /\ Len(ms) = 1 => w.found = {ms[1]} /\ Len(ms[1]) # 0
      /\ Len(ms) # 1 => /\ Cardinality(w.found) > 1 /\ Len(ms) = Cardinality(w.found) + 1
                        /\ Tail(ms) = Sorted(w.found)
  BY FoundIs
<1>7. \A c \in w.found : Len(c) # 0
  <2>1. w.found \subseteq Candidates(w.word)
    BY DEF AtWork
  <2> QED
    BY <2>1, <1>6, CandidatesType
<1>8. names \in Seq(Seq(Char)) /\ ToSet(names) = w.found /\ Held(<<>>, rows, Len(names))
  <2>1. CASE Len(ms) = 1
    <3>1. names = ms /\ rows = <<<<1>>>>
      BY <2>1, <1>1, <1>2
    <3>2. PICK s : s = ms[1]
      OBVIOUS
    <3>3. DOMAIN ms = {1} /\ w.found = {s}
      BY <2>1, <1>6, <3>2
    <3>4. ToSet(ms) = {s}
      BY <3>2, <3>3 DEF ToSet
    <3> QED
      BY <2>1, <3>1, <3>3, <3>4, <1>6, HeldSingle
  <2>2. CASE Len(ms) # 1
    <3>1. PICK S : S = w.found
      OBVIOUS
    <3>2. names = Sorted(S) /\ IsFiniteSet(S) /\ S \subseteq Seq(Char) /\ Cardinality(S) > 1
      BY <2>2, <3>1, <1>1, <1>6
    <3>3. names \in Seq(S) /\ Len(names) = Cardinality(S) /\ ToSet(names) = S
      BY ONLY <3>2, SortedIs
    <3>4. names \in Seq(Seq(Char))
      BY <3>2, <3>3
    <3>5. PICK n : n = Len(names)
      OBVIOUS
    <3>6. n \in Nat \ {0}
      BY <3>2, <3>3, <3>5, FS_CardinalityType
    <3>7. \A i \in 1 .. n : Len(names[i]) # 0
      <4> TAKE i \in 1 .. n
      <4>1. PICK c : c = names[i]
        OBVIOUS
      <4>2. c \in S
        BY <3>3, <3>5, <4>1
      <4> QED
        BY <3>1, <4>1, <4>2, <1>7
    <3>8. PICK limit : limit = Limit(names)
      OBVIOUS
    <3>9. limit \in Nat \ {0}
      <4>1. Len(names) # 0 /\ \A i \in 1 .. Len(names) : Len(names[i]) # 0
        BY <3>5, <3>6, <3>7
      <4> QED
        BY ONLY <4>1, <3>4, <3>8, LimitIs
    <3>10. rows = Rows(n, limit)
      BY <2>2, <1>2, <3>5, <3>8
    <3>11. HoldsAll(rows, n)
      BY ONLY <3>6, <3>9, <3>10, RowsHoldAll
    <3>12. Held(<<>>, rows, n)
      BY <3>6, <3>11, HeldFirst
    <3> QED
      BY <3>1, <3>3, <3>4, <3>5, <3>12
  <2> QED
    BY <2>1, <2>2
<1>9. w.cut \/ w.found = Candidates(w.word)
  BY DEF AtWork
<1>10. 0 <= Height - 1 /\ 0 <= Height - 2
  <2>1. Height \in Nat \ {0, 1}
    BY CompletionAssumption
  <2> QED
    BY <2>1
<1>11. /\ l.names = names /\ l.rows = rows /\ l.printed = <<>> /\ l.lines = 0 /\ l.since = 0
       /\ ListType(l)
  BY <1>4 DEF ListType
<1>12. PICK ph : ph = phase'
  OBVIOUS
<1>13. Listed(l, w, ph)
  <2>1. ph # "more"
    BY <1>5, <1>12
  <2> QED
    BY <2>1, <1>8, <1>9, <1>10, <1>11 DEF Listed
<1> QED
  BY <1>3, <1>5, <1>11, <1>12, <1>13

-----------------------------------------------------------------------------
(* Completion: the steps *)

\* A state in which the parts hold, with the directories and settings as they were.
LEMMA StepKeeps ==
  ASSUME tree \in Trees, set \in Settings, tree' = tree, set' = set,
         IsText(text'), resized' \in BOOLEAN, phase' \in {"key", "reading", "query", "listing", "more"},
         WorkType(work'), MenuType(menu'), ListType(list'),
         last' \in {"old", "menu"} => work'.what = last', work'.what = "none" => phase' = "key",
         work'.what # "none" => AtWork(work'),
         phase' = "reading" => text' = work'.before /\ menu' = NoMenu /\ list' = Nothing,
         menu'.matches # <<>> => InMenu(work', menu', text'),
         phase' \in {"query", "listing", "more"} /\ work'.what \in {"old", "menu"} => menu'.matches # <<>>,
         phase' # "reading" /\ work'.what \in {"insert", "all", "unmodified"} /\ ~work'.cut =>
           DecidedFor(work', text'),
         Listed(list', work', phase')
  PROVE  CompletionInductive'
<1>1. /\ \A w : AtWork(w)' <=> AtWork(w)
      /\ \A w, m, t : InMenu(w, m, t)' <=> InMenu(w, m, t)
      /\ \A w, t : DecidedFor(w, t)' <=> DecidedFor(w, t)
      /\ \A l, w, ph : Listed(l, w, ph)' <=> Listed(l, w, ph)
  BY SameMeaning
<1>2. Typed'
  BY DEF Typed
<1>3. Commands'
  BY <1>1 DEF Commands
<1>4. Offering'
  BY <1>1 DEF Offering
<1>5. Decided'
  BY <1>1 DEF Decided
<1>6. Listed(list, work, phase)'
  BY <1>1
<1> QED
  BY <1>2, <1>3, <1>4, <1>5, <1>6 DEF CompletionInductive

\* Nothing at work.
LEMMA NoneAtWork ==
  /\ WorkType(NoWork) /\ NoWork.what = "none" /\ MenuType(NoMenu) /\ NoMenu.matches = <<>>
  /\ ListType(Nothing) /\ Nothing.since = 0
BY DEF NoWork, WorkType, NoMenu, MenuType, Nothing, ListType

\* No list is shown between the commands and while the matches are read.
LEMMA NotListed ==
  ASSUME NEW l, NEW w, NEW ph \in {"key", "reading"}, l.since <= Height - 1
  PROVE  Listed(l, w, ph)
BY DEF Listed

\* An empty list has shown nothing.
LEMMA NothingListed ==
  ASSUME NEW w, NEW ph \in {"key", "reading"}
  PROVE  Listed(Nothing, w, ph)
<1>1. Height \in Nat \ {0, 1}
  BY CompletionAssumption
<1>2. Nothing.since <= Height - 1
  BY <1>1, NoneAtWork
<1> QED
  BY <1>2, NotListed

\* The invariant holds at the beginning.
LEMMA FirstState ==
  ASSUME CompletionInit
  PROVE  CompletionInductive
<1>1. /\ tree \in Trees /\ set \in Settings /\ text \in Lines /\ last = "none" /\ resized = FALSE
      /\ work = NoWork /\ menu = NoMenu /\ list = Nothing /\ phase = "key"
  BY DEF CompletionInit
<1>2. IsText(text)
  BY <1>1, LinesAre
<1>3. Typed
  BY <1>1, <1>2, NoneAtWork DEF Typed
<1>4. Commands
  BY <1>1, NoneAtWork DEF Commands
<1>5. Offering
  BY <1>1, NoneAtWork DEF Offering
<1>6. Decided
  BY <1>1, NoneAtWork DEF Decided
<1>7. Listed(list, work, phase)
  BY <1>1, NothingListed
<1> QED
  BY <1>3, <1>4, <1>5, <1>6, <1>7 DEF CompletionInductive

\* Another command leaves nothing of the completion.
LEMMA OtherKeeps ==
  ASSUME CompletionInductive, Other
  PROVE  CompletionInductive'
<1>1. /\ tree \in Trees /\ set \in Settings /\ resized \in BOOLEAN
  BY DEF CompletionInductive, Typed
<1>2. /\ text' \in Lines /\ last' = "none" /\ work' = NoWork /\ menu' = NoMenu /\ list' = Nothing
      /\ tree' = tree /\ set' = set /\ resized' = resized /\ phase' = "key"
  BY DEF Other
<1>3. IsText(text')
  BY <1>2, LinesAre
<1>4. Listed(list', work', phase')
  BY <1>2, NothingListed
<1> QED
  BY <1>1, <1>2, <1>3, <1>4, NoneAtWork, StepKeeps

\* A completion begins with all of its matches to be read.
LEMMA BeginKeeps ==
  ASSUME CompletionInductive, NEW command, NEW step \in Int,
         NEW what \in {"list", "all", "unmodified", "insert", "each", "old", "menu"},
         command \in {"old", "menu"} => what = command, Begin(command, what, step)
  PROVE  CompletionInductive'
<1>1. tree \in Trees /\ set \in Settings /\ resized \in BOOLEAN /\ IsText(text)
  BY DEF CompletionInductive, Typed
<1>2. PICK start, word, delim, all :
        start = WordStart(text) /\ word = WordIn(text, start) /\ delim = Delimiter(text)
        /\ all = Candidates(word)
  OBVIOUS
<1>3. PICK w : w = [NoWork EXCEPT !.what = what, !.start = start, !.word = word, !.step = step,
                                  !.delim = delim, !.before = text, !.failed = failed, !.unread = all]
  OBVIOUS
<1>4. /\ last' = command /\ phase' = "reading" /\ list' = Nothing /\ menu' = NoMenu
      /\ tree' = tree /\ set' = set /\ text' = text /\ resized' = resized /\ work' = w
  BY <1>2, <1>3 DEF Begin, WordIn
<1>5. /\ WorkType(w) /\ w.what = what /\ w.start = start /\ w.word = word /\ w.delim = delim
      /\ w.before = text /\ w.unread = all /\ w.found = {} /\ w.cut = FALSE
  BY <1>3 DEF NoWork, WorkType
<1>6. start \in 0 .. text.point /\ delim \in Seq(Char)
  BY <1>1, <1>2, WordStartIs, DelimiterIs
<1>7. AtWork(w)
  BY <1>1, <1>2, <1>5, <1>6 DEF AtWork
<1>8. Listed(list', work', phase')
  BY <1>4, NothingListed
<1> QED
  BY <1>1, <1>4, <1>5, <1>7, <1>8, NoneAtWork, StepKeeps

\* A signal is only noted.
LEMMA CatchKeeps ==
  ASSUME CompletionInductive, Catch
  PROVE  CompletionInductive'
<1>1. /\ tree' = tree /\ set' = set /\ text' = text /\ last' = last /\ work' = work /\ menu' = menu
      /\ list' = list /\ phase' = phase /\ resized' = TRUE
  BY DEF Catch
<1> QED
  BY <1>1, StepKeeps DEF CompletionInductive, Typed, Commands, Offering, Decided

\* A match that is read is one of those that are left.
LEMMA ReadKeeps ==
  ASSUME CompletionInductive, ReadMatch
  PROVE  CompletionInductive'
<1>1. /\ tree \in Trees /\ set \in Settings /\ resized \in BOOLEAN /\ IsText(text)
      /\ WorkType(work) /\ MenuType(menu) /\ ListType(list)
  BY DEF CompletionInductive, Typed
<1>2. /\ phase = "reading" /\ resized' = FALSE /\ tree' = tree /\ set' = set /\ text' = text
      /\ last' = last /\ menu' = menu /\ list' = list /\ phase' = phase
  BY DEF ReadMatch
<1>3. /\ last \in {"old", "menu"} => work.what = last
      /\ work.what # "none" /\ AtWork(work) /\ text = work.before /\ menu = NoMenu /\ list = Nothing
  BY <1>2 DEF CompletionInductive, Commands
<1>4. PICK name \in work.unread :
        work' = [work EXCEPT !.unread = @ \ {name}, !.cut = @ \/ resized,
                             !.found = IF resized THEN {name} ELSE @ \cup {name}]
  BY DEF ReadMatch
<1>5. PICK w : w = work'
  OBVIOUS
<1>6. /\ w.what = work.what /\ w.start = work.start /\ w.word = work.word /\ w.delim = work.delim
      /\ w.before = work.before /\ w.unread = work.unread \ {name} /\ w.cut = (work.cut \/ resized)
      /\ w.found = IF resized THEN {name} ELSE work.found \cup {name}
      /\ WorkType(w)
  BY <1>1, <1>4, <1>5 DEF WorkType
<1>7. AtWork(w)
  <2>1. w.found \cup w.unread \subseteq work.found \cup work.unread
    BY <1>6
  <2>2. ~resized => w.found \cup w.unread = work.found \cup work.unread
    BY <1>6
  <2> QED
    BY <2>1, <2>2, <1>3, <1>6 DEF AtWork
<1>8. Listed(list', work', phase')
  BY <1>2, <1>3, NothingListed
<1> QED
  BY <1>1, <1>2, <1>3, <1>5, <1>6, <1>7, <1>8, NoneAtWork, StepKeeps

\* While the matches are read.
LEMMA WhileReading ==
  ASSUME CompletionInductive, ReadAll
  PROVE  /\ tree \in Trees /\ set \in Settings /\ resized \in BOOLEAN /\ IsText(text)
         /\ WorkType(work) /\ MenuType(menu) /\ ListType(list)
         /\ last \in {"old", "menu"} => work.what = last
         /\ work.what # "none" /\ AtWork(work) /\ work.unread = {}
         /\ text = work.before /\ menu = NoMenu /\ list = Nothing
         /\ tree' = tree /\ set' = set /\ last' = last /\ resized' = FALSE
BY DEF ReadAll, CompletionInductive, Typed, Commands

\* Without matches the line and the menu are as they were.
LEMMA FailKeeps ==
  ASSUME CompletionInductive, Fail
  PROVE  CompletionInductive'
<1>1. ReadAll
  BY DEF Fail
<1>2. /\ tree \in Trees /\ set \in Settings /\ resized \in BOOLEAN /\ IsText(text)
      /\ WorkType(work)
      /\ last \in {"old", "menu"} => work.what = last
      /\ work.what # "none" /\ AtWork(work) /\ work.unread = {}
      /\ text = work.before /\ menu = NoMenu /\ list = Nothing
      /\ tree' = tree /\ set' = set /\ last' = last /\ resized' = FALSE
  BY <1>1, WhileReading
<1>3. /\ phase' = "key" /\ work' = [work EXCEPT !.cut = @ \/ resized] /\ menu' = NoMenu
      /\ text' = text /\ list' = list /\ (work.found = {} \/ resized)
  BY <1>2 DEF Fail, NoMatches
<1>4. PICK w : w = work'
  OBVIOUS
<1>5. /\ w.what = work.what /\ w.start = work.start /\ w.word = work.word /\ w.delim = work.delim
      /\ w.before = work.before /\ w.unread = {} /\ w.found = work.found /\ w.cut = (work.cut \/ resized)
      /\ WorkType(w)
  BY <1>2, <1>3, <1>4 DEF WorkType
<1>6. AtWork(w)
  BY <1>2, <1>5 DEF AtWork
<1>7. ~w.cut => DecidedFor(w, text')
  <2>1. SUFFICES ASSUME ~w.cut PROVE DecidedFor(w, text')
    OBVIOUS
  <2>2. w.found = {} /\ text' = w.before
    BY <2>1, <1>2, <1>3, <1>5
  <2> QED
    BY <2>1, <2>2, <1>5, <1>6, NothingDecided
<1>8. Listed(list', work', phase')
  BY <1>2, <1>3, NothingListed
<1> QED
  BY <1>2, <1>3, <1>4, <1>5, <1>6, <1>7, <1>8, NoneAtWork, StepKeeps

\* The switch of rl_complete_internal decides nothing, and shows every match.
LEMMA CompleteInternalKeeps ==
  ASSUME CompletionInductive, CompleteInternal
  PROVE  CompletionInductive'
<1>1. ReadAll
  BY DEF CompleteInternal
<1>2. /\ tree \in Trees /\ set \in Settings /\ resized \in BOOLEAN /\ IsText(text)
      /\ WorkType(work) /\ MenuType(menu) /\ ListType(list)
      /\ last \in {"old", "menu"} => work.what = last
      /\ work.what # "none" /\ AtWork(work) /\ work.unread = {}
      /\ text = work.before /\ menu = NoMenu /\ list = Nothing
      /\ tree' = tree /\ set' = set /\ last' = last /\ resized' = FALSE
  BY <1>1, WhileReading
<1>3. PICK ms : ms = Matches(work.found, work.word)
  OBVIOUS
<1>4. work.found # {} /\ work.what \notin {"menu", "old"} /\ Do(ms) /\ work' = work
  BY <1>3 DEF CompleteInternal, NoMatches
<1>5. PICK shows : shows = (\/ work.what = "all" /\ ~(Len(ms) = 1)
                            \/ work.what = "unmodified" /\ ~(Len(ms) = 1) /\ ms[1] = work.word
                            \/ work.what = "list" /\ ~((Len(ms) = 1) /\ work.failed /\ ms[1] # <<>>))
  OBVIOUS
<1>6. /\ text' = CASE work.what = "each" -> InsertAll(text, ms, work.start)
                   [] work.what = "list" /\ shows -> text
                   [] OTHER -> Insert(ms)
      /\ shows => Display(ms)
      /\ ~shows => phase' = "key" /\ list' = list
      /\ menu' = menu
  BY <1>4, <1>5 DEF Do
<1>7. PICK t : t = Inserted(work, ms)
  OBVIOUS
<1>8. Insert(ms) = t
  BY <1>2, <1>7 DEF Insert, Inserted
<1>9. Stands(t, work.before, work.start)
  BY <1>2, <1>3, <1>4, <1>7, InsertedIs
<1>10. IsText(t)
  BY <1>9 DEF Stands
<1>11. IsText(text')
  <2>1. CASE work.what = "each"
    <3>1. text' = InsertAll(text, ms, work.start)
      BY <1>6, <2>1
    <3>2. PICK b, start : b = text /\ start = work.start
      OBVIOUS
    <3>3. IsText(b) /\ start \in 0 .. b.point
      BY <1>2, <3>2 DEF AtWork
    <3>4. ms \in Seq(Seq(Char)) /\ Len(ms) # 0
      BY <1>2, <1>3, <1>4, FoundIs
    <3>5. IsText(InsertAll(b, ms, start))
      BY ONLY <3>3, <3>4, InsertAllIs
    <3> QED
      BY <3>1, <3>2, <3>5
  <2>2. CASE work.what # "each"
    <3>1. text' = text \/ text' = t
      BY <1>6, <1>8, <2>2
    <3> QED
      BY <3>1, <1>2, <1>10
  <2> QED
    BY <2>1, <2>2
<1>12. /\ Listed(list', work, phase') /\ ListType(list') /\ phase' \in {"key", "query", "listing"}
  <2>1. CASE shows
    BY <1>2, <1>3, <1>4, <1>6, <2>1, DisplayIs
  <2>2. CASE ~shows
    BY <1>2, <1>6, <2>2, NothingListed, NoneAtWork
  <2> QED
    BY <2>1, <2>2
<1>13. ASSUME work.what \in {"insert", "all", "unmodified"}, ~work.cut
       PROVE  DecidedFor(work, text')
  <2>1. text' = t
    BY <1>6, <1>8, <1>13
  <2>2. DecidedFor(work, t)
    BY <1>2, <1>3, <1>4, <1>7, <1>13, DecidedIs
  <2> QED
    BY <2>1, <2>2
<1>14. /\ resized' \in BOOLEAN /\ phase' \in {"key", "reading", "query", "listing", "more"}
       /\ phase' # "reading" /\ menu'.matches = <<>> /\ MenuType(menu') /\ WorkType(work')
  BY <1>2, <1>4, <1>6, <1>12, NoneAtWork
<1> QED
  BY <1>2, <1>4, <1>6, <1>11, <1>12, <1>13, <1>14, StepKeeps

\* The next match is offered.
LEMMA OfferedIs ==
  ASSUME NEW w, AtWork(w), NEW m, NEW t, OnWord(w, m, t), NEW step \in Int,
         NEW old \in BOOLEAN, old <=> w.what = "old", Offered(m, step, t, old)
  PROVE  InMenu(w, menu', text') /\ MenuType(menu') /\ IsText(text') /\ phase' = "key"
<1>1. /\ text' = Offer(m, step, t, old).text /\ menu' = [m EXCEPT !.index = Offer(m, step, t, old).index]
      /\ phase' = "key"
  BY DEF Offered
<1>2. PICK r, x : r = menu' /\ x = text'
  OBVIOUS
<1>3. InMenu(w, r, x)
  BY <1>1, <1>2, OfferIs
<1>4. MenuType(r) /\ IsText(x)
  BY <1>3 DEF InMenu, OnWord, Stands
<1> QED
  BY <1>1, <1>2, <1>3, <1>4

\* A new menu for the word at work.
LEMMA NewMenuIs ==
  ASSUME tree \in Trees, work.found # {}, AtWork(work), work.what \in {"old", "menu"},
         NEW m, m = NewMenu(Matches(work.found, work.word)), NEW t, Stands(t, work.before, work.start)
  PROVE  /\ OnWord(work, m, t) /\ MenuType(m) /\ m.index = 0 /\ m.start = work.start
         /\ m.word = work.word /\ m.delim = work.delim
         /\ m.matches = Matches(work.found, work.word) /\ m.matches # <<>>
<1>1. PICK ms : ms = Matches(work.found, work.word)
  OBVIOUS
<1>2. ms \in Seq(Seq(Char)) /\ Len(ms) # 0
  BY <1>1, FoundIs
<1>3. /\ m.matches = ms /\ m.index = 0 /\ m.word = work.word /\ m.start = work.start /\ m.delim = work.delim
      /\ MenuType(m)
  BY <1>1 DEF NewMenu, NoMenu, MenuType
<1>4. m.index \in 0 .. Len(m.matches) - 1
  BY <1>2, <1>3
<1>5. ms # <<>>
  BY <1>2
<1> QED
  BY <1>1, <1>2, <1>3, <1>4, <1>5 DEF OnWord

\* rl_old_menu_complete, with its matches read.
LEMMA OldMenuBeginsKeeps ==
  ASSUME CompletionInductive, OldMenuBegins
  PROVE  CompletionInductive'
<1>1. ReadAll
  BY DEF OldMenuBegins
<1>2. /\ tree \in Trees /\ set \in Settings /\ resized \in BOOLEAN /\ IsText(text)
      /\ WorkType(work) /\ MenuType(menu) /\ ListType(list)
      /\ last \in {"old", "menu"} => work.what = last
      /\ work.what # "none" /\ AtWork(work) /\ work.unread = {}
      /\ text = work.before /\ menu = NoMenu /\ list = Nothing
      /\ tree' = tree /\ set' = set /\ last' = last /\ resized' = FALSE
  BY <1>1, WhileReading
<1>3. PICK m : m = NewMenu(Matches(work.found, work.word))
  OBVIOUS
<1>4. /\ work.found # {} /\ work.what = "old" /\ work' = work
      /\ IF Len(m.matches) > 1 /\ set.all
           THEN menu' = m /\ Display(m.matches) /\ text' = text
           ELSE Offered(m, 1, text, TRUE) /\ list' = list
  BY <1>3 DEF OldMenuBegins, NoMatches
<1>5. Stands(text, work.before, work.start)
  <2>1. PICK b, start : b = work.before /\ start = work.start
    OBVIOUS
  <2>2. IsText(b) /\ start \in 0 .. b.point
    BY <1>2, <2>1 DEF AtWork
  <2> QED
    BY <1>2, <2>1, <2>2, StandsFirst
<1>6. /\ OnWord(work, m, text) /\ MenuType(m) /\ m.index = 0
      /\ m.matches = Matches(work.found, work.word) /\ m.matches # <<>>
  BY <1>2, <1>3, <1>4, <1>5, NewMenuIs
<1>7. CASE Len(m.matches) > 1 /\ set.all
  <2>1. menu' = m /\ Display(m.matches) /\ text' = text
    BY <1>4, <1>7
  <2>2. Listed(list', work, phase') /\ ListType(list') /\ phase' \in {"query", "listing"}
    BY <1>2, <1>4, <1>6, <2>1, DisplayIs
  <2>3. InMenu(work, m, text)
    BY <1>2, <1>4, <1>6 DEF InMenu
  <2> QED
    BY <1>2, <1>4, <1>6, <2>1, <2>2, <2>3, StepKeeps
<1>8. CASE ~(Len(m.matches) > 1 /\ set.all)
  <2>1. Offered(m, 1, text, TRUE) /\ list' = list
    BY <1>4, <1>8
  <2>2. InMenu(work, menu', text') /\ MenuType(menu') /\ IsText(text') /\ phase' = "key"
    <3>1. TRUE <=> work.what = "old"
      BY <1>4
    <3>2. 1 \in Int /\ TRUE \in BOOLEAN
      OBVIOUS
    <3>3. PICK w, t : w = work /\ t = text
      OBVIOUS
    <3>4. /\ AtWork(w) /\ OnWord(w, m, t) /\ (TRUE <=> w.what = "old") /\ Offered(m, 1, t, TRUE)
      BY <1>2, <1>6, <2>1, <3>1, <3>3
    <3>5. InMenu(w, menu', text') /\ MenuType(menu') /\ IsText(text') /\ phase' = "key"
      BY ONLY <3>2, <3>4, OfferedIs
    <3> QED
      BY <3>3, <3>5
  <2>3. Listed(list', work, phase')
    BY <1>2, <2>1, <2>2, NothingListed
  <2> QED
    BY <1>2, <1>4, <2>1, <2>2, <2>3, StepKeeps
<1> QED
  BY <1>7, <1>8

\* rl_menu_complete, with its matches read.
LEMMA MenuBeginsKeeps ==
  ASSUME CompletionInductive, MenuBegins
  PROVE  CompletionInductive'
<1>1. ReadAll
  BY DEF MenuBegins
<1>2. /\ tree \in Trees /\ set \in Settings /\ resized \in BOOLEAN /\ IsText(text)
      /\ WorkType(work) /\ MenuType(menu) /\ ListType(list)
      /\ last \in {"old", "menu"} => work.what = last
      /\ work.what # "none" /\ AtWork(work) /\ work.unread = {}
      /\ text = work.before /\ menu = NoMenu /\ list = Nothing
      /\ tree' = tree /\ set' = set /\ last' = last /\ resized' = FALSE
  BY <1>1, WhileReading
<1>3. PICK ms, m : ms = Matches(work.found, work.word) /\ m = NewMenu(ms)
  OBVIOUS
<1>4. /\ ms \in Seq(Seq(Char)) /\ Len(ms) # 0 /\ (ms[1] = <<>> => work.word = <<>>) /\ m.matches = ms
      /\ work.found # {} /\ work.what = "menu" /\ work' = work
  <2>1. work.found # {} /\ work.what = "menu" /\ work' = work
    BY DEF MenuBegins, NoMatches
  <2>2. m.matches = ms
    BY <1>3 DEF NewMenu, NoMenu
  <2>3. ms \in Seq(Seq(Char)) /\ Len(ms) # 0 /\ (ms[1] = <<>> => work.word = <<>>)
    BY <1>2, <1>3, <2>1, FoundIs
  <2> QED
    BY <2>1, <2>2, <2>3
<1>5. PICK first : first = ms[1]
  OBVIOUS
<1>6. first \in Seq(Char) /\ (first = <<>> => work.word = <<>>)
  BY <1>4, <1>5
<1>7. PICK new : new = IF first = <<>> THEN work.before ELSE InsertMatch(work.before, first, work.start)
  OBVIOUS
<1>8. Stands(new, work.before, work.start) /\ WordIn(new, work.start) = first
  BY ONLY <1>2, <1>6, <1>7, FirstInserted
<1>9. /\ OnWord(work, m, new) /\ MenuType(m) /\ m.index = 0 /\ m.start = work.start
      /\ m.word = work.word /\ m.delim = work.delim
  BY <1>2, <1>3, <1>4, <1>8, NewMenuIs
<1>10. new = IF first = <<>> THEN text ELSE InsertMatch(text, first, m.start)
  BY <1>2, <1>7, <1>9
<1>11. (CASE Len(ms) = 1 ->
              /\ text' = Append1(new, first, m.delim, first # m.word)
              /\ menu' = [m EXCEPT !.full = TRUE] /\ phase' = "key" /\ list' = list
         [] Len(ms) > 1 /\ set.all -> text' = new /\ menu' = m /\ Display(ms)
         [] Len(ms) > 1 /\ ~set.all /\ set.prefix ->
              text' = new /\ menu' = m /\ phase' = "key" /\ list' = list
         [] OTHER -> Offered(m, work.step, new, FALSE) /\ list' = list)
  BY <1>3, <1>4, <1>5, <1>10 DEF MenuBegins
<1>12. /\ IsText(new) /\ InMenu(work, m, new)
  BY <1>4, <1>5, <1>8, <1>9 DEF InMenu, Stands
<1>13. CASE Len(ms) = 1
  <2>1. /\ text' = Append1(new, first, m.delim, first # m.word)
        /\ menu' = [m EXCEPT !.full = TRUE] /\ phase' = "key" /\ list' = list
    BY <1>11, <1>13
  <2>2. PICK b, start, delim, nontrivial :
          b = work.before /\ start = work.start /\ delim = work.delim /\ nontrivial = (first # m.word)
    OBVIOUS
  <2>3. IsText(b) /\ start \in 0 .. b.point /\ delim \in Seq(Char) /\ Stands(new, b, start)
    BY <1>2, <1>8, <2>2 DEF AtWork
  <2>4. PICK t : t = text'
    OBVIOUS
  <2>5. t = Append1(new, first, delim, nontrivial)
    BY <1>9, <2>1, <2>2, <2>4
  <2>6. Stands(t, b, start)
    BY ONLY <2>3, <2>5, AppendedStands
  <2>7. IsText(t)
    BY <2>6 DEF Stands
  <2>8. PICK r : r = menu'
    OBVIOUS
  <2>9. /\ r.matches = ms /\ r.index = 0 /\ r.word = work.word /\ r.start = work.start /\ r.delim = work.delim
        /\ MenuType(r)
    BY <1>4, <1>9, <2>1, <2>8 DEF MenuType
  <2>10. OnWord(work, r, t)
    BY <1>4, <1>9, <2>2, <2>6, <2>9 DEF OnWord
  <2>11. InMenu(work, r, t)
    BY <2>9, <2>10, <1>13 DEF InMenu
  <2>12. Listed(list', work, phase')
    BY <1>2, <2>1, NothingListed
  <2> QED
    BY <1>2, <1>4, <2>1, <2>4, <2>7, <2>8, <2>9, <2>11, <2>12, StepKeeps
<1>14. CASE Len(ms) > 1 /\ set.all
  <2>1. text' = new /\ menu' = m /\ Display(ms)
    BY <1>11, <1>14
  <2>2. Listed(list', work, phase') /\ ListType(list') /\ phase' \in {"query", "listing"}
    BY <1>2, <1>3, <1>4, <2>1, DisplayIs
  <2>3. m.matches # <<>>
    BY <1>4
  <2> QED
    BY <1>2, <1>4, <1>9, <1>12, <2>1, <2>2, <2>3, StepKeeps
<1>15. CASE Len(ms) > 1 /\ ~set.all /\ set.prefix
  <2>1. text' = new /\ menu' = m /\ phase' = "key" /\ list' = list
    BY <1>11, <1>15
  <2>2. Listed(list', work, phase')
    BY <1>2, <2>1, NothingListed
  <2> QED
    BY <1>2, <1>4, <1>9, <1>12, <2>1, <2>2, StepKeeps
<1>16. CASE ~(Len(ms) = 1) /\ ~(Len(ms) > 1 /\ set.all) /\ ~(Len(ms) > 1 /\ ~set.all /\ set.prefix)
  <2>1. Offered(m, work.step, new, FALSE) /\ list' = list
    BY <1>11, <1>16
  <2>2. work.step \in Int
    BY <1>2 DEF WorkType
  <2>3. InMenu(work, menu', text') /\ MenuType(menu') /\ IsText(text') /\ phase' = "key"
    <3>1. FALSE <=> work.what = "old"
      BY <1>4
    <3> QED
      BY <1>2, <1>9, <2>1, <2>2, <3>1, OfferedIs
  <2>4. Listed(list', work, phase')
    BY <1>2, <2>1, <2>3, NothingListed
  <2> QED
    BY <1>2, <1>4, <2>1, <2>3, <2>4, StepKeeps
<1> QED
  BY <1>13, <1>14, <1>15, <1>16

\* The menu commands go on with their matches.
LEMMA MenuGoesOn ==
  ASSUME CompletionInductive, work.what \in {"old", "menu"}, menu.matches # <<>>,
         NEW step \in Int, NEW old \in BOOLEAN, old <=> work.what = "old", Offered(menu, step, text, old),
         tree' = tree, set' = set, last' = last, resized' = resized, work' = work, list' = list
  PROVE  CompletionInductive'
<1>1. /\ tree \in Trees /\ set \in Settings /\ resized \in BOOLEAN /\ WorkType(work) /\ ListType(list)
  BY DEF CompletionInductive, Typed
<1>2. /\ last \in {"old", "menu"} => work.what = last
      /\ work.what # "none" /\ AtWork(work)
  BY DEF CompletionInductive, Commands
<1>3. OnWord(work, menu, text)
  BY DEF CompletionInductive, Offering, InMenu
<1>4. InMenu(work, menu', text') /\ MenuType(menu') /\ IsText(text') /\ phase' = "key"
  BY <1>2, <1>3, OfferedIs
<1>5. Listed(list', work, phase')
  <2>1. list.since <= Height - 1
    BY DEF CompletionInductive, Listed
  <2> QED
    BY <2>1, <1>4, NotListed
<1> QED
  BY <1>1, <1>2, <1>4, <1>5, StepKeeps

\* A command that finds no menu leaves the line.
LEMMA NoMenuLeft ==
  ASSUME CompletionInductive, phase = "key",
         tree' = tree, set' = set, text' = text, last' = last, resized' = resized, work' = work,
         menu' = menu, list' = list, phase' = phase
  PROVE  CompletionInductive'
BY StepKeeps DEF CompletionInductive, Typed, Commands, Offering, Decided

\* rl_old_menu_complete
LEMMA OldMenuKeeps ==
  ASSUME CompletionInductive, OldMenuComplete
  PROVE  CompletionInductive'
<1>1. CASE last # "old"
  <2>1. Begin("old", "old", 1)
    BY <1>1 DEF OldMenuComplete
  <2>2. PICK command, what, step : command = "old" /\ what = "old" /\ step = 1
    OBVIOUS
  <2>3. /\ step \in Int /\ what \in {"list", "all", "unmodified", "insert", "each", "old", "menu"}
        /\ (command \in {"old", "menu"} => what = command) /\ Begin(command, what, step)
    BY <2>1, <2>2
  <2> QED
    BY ONLY CompletionInductive, <2>3, BeginKeeps
<1>2. CASE last = "old" /\ menu.matches = <<>>
  BY <1>2, NoMenuLeft DEF OldMenuComplete
<1>3. CASE last = "old" /\ menu.matches # <<>>
  <2>1. /\ Offered(menu, 1, text, TRUE) /\ tree' = tree /\ set' = set /\ last' = last
        /\ resized' = resized /\ work' = work /\ list' = list
    BY <1>3 DEF OldMenuComplete
  <2>2. work.what = "old"
    BY <1>3 DEF CompletionInductive, Commands
  <2>3. 1 \in Int /\ TRUE \in BOOLEAN
    OBVIOUS
  <2>4. /\ 1 \in Int /\ TRUE \in BOOLEAN /\ (TRUE <=> work.what = "old") /\ Offered(menu, 1, text, TRUE)
        /\ work.what \in {"old", "menu"} /\ menu.matches # <<>>
    BY <1>3, <2>1, <2>2, <2>3
  <2> QED
    BY ONLY CompletionInductive, <2>1, <2>4, MenuGoesOn
<1> QED
  BY <1>1, <1>2, <1>3

\* rl_menu_complete and rl_backward_menu_complete
LEMMA MenuKeeps ==
  ASSUME CompletionInductive, MenuComplete
  PROVE  CompletionInductive'
<1>1. PICK step \in {-1, 1} :
        IF last # "menu" \/ menu.full THEN Begin("menu", "menu", step)
        ELSE /\ IF menu.matches = <<>> THEN changed' = FALSE /\ UNCHANGED <<text, menu, phase>>
                ELSE Offered(menu, step, text, FALSE)
             /\ UNCHANGED <<tree, set, last, failed, resized, work, list>>
  BY DEF MenuComplete
<1>2. step \in Int /\ phase = "key"
  BY DEF MenuComplete
<1>3. CASE last # "menu" \/ menu.full
  <2>1. Begin("menu", "menu", step)
    BY <1>1, <1>3
  <2>2. PICK command, what : command = "menu" /\ what = "menu"
    OBVIOUS
  <2>3. /\ step \in Int /\ what \in {"list", "all", "unmodified", "insert", "each", "old", "menu"}
        /\ (command \in {"old", "menu"} => what = command) /\ Begin(command, what, step)
    BY <1>2, <2>1, <2>2
  <2> QED
    BY ONLY CompletionInductive, <2>3, BeginKeeps
<1>4. CASE ~(last # "menu" \/ menu.full) /\ menu.matches = <<>>
  BY <1>1, <1>2, <1>4, NoMenuLeft
<1>5. CASE ~(last # "menu" \/ menu.full) /\ menu.matches # <<>>
  <2>1. /\ Offered(menu, step, text, FALSE) /\ tree' = tree /\ set' = set /\ last' = last
        /\ resized' = resized /\ work' = work /\ list' = list
    BY <1>1, <1>5
  <2>2. work.what = "menu"
    BY <1>5 DEF CompletionInductive, Commands
  <2>3. PICK old : old = FALSE
    OBVIOUS
  <2>4. /\ step \in Int /\ old \in BOOLEAN /\ (old <=> work.what = "old") /\ Offered(menu, step, text, old)
        /\ work.what \in {"old", "menu"} /\ menu.matches # <<>>
    BY <1>2, <1>5, <2>1, <2>2, <2>3
  <2> QED
    BY ONLY CompletionInductive, <2>1, <2>4, MenuGoesOn
<1> QED
  BY <1>3, <1>4, <1>5

\* What the command does once the list has been shown, or was given up.
LEMMA AfterListKeeps ==
  ASSUME CompletionInductive, phase \in {"query", "listing", "more"}, AfterList,
         tree' = tree, set' = set, last' = last, resized' = resized, work' = work, list' = list
  PROVE  CompletionInductive'
<1>1. /\ tree \in Trees /\ set \in Settings /\ resized \in BOOLEAN /\ WorkType(work) /\ ListType(list)
      /\ IsText(text) /\ MenuType(menu) /\ work.step \in Int
  BY DEF CompletionInductive, Typed, WorkType
<1>2. /\ last \in {"old", "menu"} => work.what = last
      /\ work.what # "none" /\ AtWork(work)
  BY DEF CompletionInductive, Commands
<1>3. /\ menu.matches # <<>> => InMenu(work, menu, text)
      /\ work.what \in {"old", "menu"} => menu.matches # <<>>
  BY DEF CompletionInductive, Offering
<1>4. work.what \in {"insert", "all", "unmodified"} /\ ~work.cut => DecidedFor(work, text)
  BY DEF CompletionInductive, Decided
<1>5. Listed(list, work, "key")
  <2>1. list.since <= Height - 1
    BY DEF CompletionInductive, Listed
  <2> QED
    BY <2>1, NotListed
<1>6. CASE work.what = "old"
  <2>1. Offered(menu, 1, text, TRUE)
    BY <1>6 DEF AfterList
  <2>2. 1 \in Int /\ TRUE \in BOOLEAN
    OBVIOUS
  <2>3. /\ 1 \in Int /\ TRUE \in BOOLEAN /\ (TRUE <=> work.what = "old") /\ Offered(menu, 1, text, TRUE)
        /\ work.what \in {"old", "menu"} /\ menu.matches # <<>>
        /\ tree' = tree /\ set' = set /\ last' = last /\ resized' = resized /\ work' = work /\ list' = list
    BY <1>3, <1>6, <2>1, <2>2
  <2> QED
    BY ONLY CompletionInductive, <2>3, MenuGoesOn
<1>7. CASE work.what = "menu" /\ TooMany
  <2>1. menu' = [NoMenu EXCEPT !.full = TRUE] /\ phase' = "key" /\ text' = text
    BY <1>7 DEF AfterList
  <2>2. MenuType(menu') /\ menu'.matches = <<>>
    BY <2>1 DEF NoMenu, MenuType
  <2> QED
    BY <1>1, <1>2, <1>5, <1>7, <2>1, <2>2, StepKeeps
<1>8. CASE work.what = "menu" /\ ~TooMany /\ set.prefix
  <2>1. menu' = menu /\ phase' = "key" /\ text' = text
    BY <1>8 DEF AfterList
  <2> QED
    BY <1>1, <1>2, <1>3, <1>5, <1>8, <2>1, StepKeeps
<1>9. CASE work.what = "menu" /\ ~TooMany /\ ~set.prefix
  <2>1. Offered(menu, work.step, text, FALSE)
    BY <1>9 DEF AfterList
  <2>2. PICK step, old : step = work.step /\ old = FALSE
    OBVIOUS
  <2>3. /\ step \in Int /\ old \in BOOLEAN /\ (old <=> work.what = "old") /\ Offered(menu, step, text, old)
        /\ work.what \in {"old", "menu"} /\ menu.matches # <<>>
        /\ tree' = tree /\ set' = set /\ last' = last /\ resized' = resized /\ work' = work /\ list' = list
    BY <1>1, <1>3, <1>9, <2>1, <2>2
  <2> QED
    BY ONLY CompletionInductive, <2>3, MenuGoesOn
<1>10. CASE work.what \notin {"old", "menu"}
  <2>1. phase' = "key" /\ text' = text /\ menu' = menu
    BY <1>10 DEF AfterList
  <2> QED
    BY <1>1, <1>2, <1>3, <1>4, <1>5, <1>10, <2>1, StepKeeps
<1> QED
  BY <1>6, <1>7, <1>8, <1>9, <1>10

\* While a list is shown only the list and the phase change.
LEMMA ShowingKeeps ==
  ASSUME CompletionInductive, phase \in {"query", "listing", "more"},
         tree' = tree, set' = set, text' = text, last' = last, resized' = resized, work' = work, menu' = menu,
         ListType(list'), phase' \in {"listing", "more"}, Listed(list', work, phase')
  PROVE  CompletionInductive'
<1>1. /\ tree \in Trees /\ set \in Settings /\ resized \in BOOLEAN /\ WorkType(work)
      /\ IsText(text) /\ MenuType(menu)
  BY DEF CompletionInductive, Typed
<1>2. /\ last \in {"old", "menu"} => work.what = last
      /\ work.what # "none" /\ AtWork(work)
  BY DEF CompletionInductive, Commands
<1>3. /\ menu.matches # <<>> => InMenu(work, menu, text)
      /\ work.what \in {"old", "menu"} => menu.matches # <<>>
  BY DEF CompletionInductive, Offering
<1>4. work.what \in {"insert", "all", "unmodified"} /\ ~work.cut => DecidedFor(work, text)
  BY DEF CompletionInductive, Decided
<1> QED
  BY <1>1, <1>2, <1>3, <1>4, StepKeeps

\* A row is printed, and the pager stops in time.
LEMMA PrintKeeps ==
  ASSUME CompletionInductive, PrintRow
  PROVE  CompletionInductive'
<1>1. /\ phase = "listing" /\ list.rows # <<>> /\ ListType(list) /\ Listed(list, work, phase)
  BY DEF CompletionInductive, Typed, PrintRow
<1>2. /\ list' = [list EXCEPT !.rows = Tail(@), !.printed = @ \o Head(list.rows),
                              !.lines = @ + 1, !.since = @ + 1]
      /\ phase' = IF list.lines + 1 >= Height - 1 /\ Tail(list.rows) # <<>> THEN "more" ELSE "listing"
      /\ tree' = tree /\ set' = set /\ text' = text /\ last' = last /\ resized' = resized /\ work' = work
      /\ menu' = menu
  BY DEF PrintRow
<1>3. PICK l, ph : l = list' /\ ph = phase'
  OBVIOUS
<1>4. /\ l.names = list.names /\ l.rows = Tail(list.rows) /\ l.printed = list.printed \o Head(list.rows)
      /\ l.lines = list.lines + 1 /\ l.since = list.since + 1 /\ ListType(l)
  <2>1. PICK rows, printed, l1, s1 :
          /\ rows = Tail(list.rows) /\ printed = list.printed \o Head(list.rows)
          /\ l1 = list.lines + 1 /\ s1 = list.since + 1
    OBVIOUS
  <2>2. l = [list EXCEPT !.rows = rows, !.printed = printed, !.lines = l1, !.since = s1]
    BY <1>2, <1>3, <2>1
  <2>3. l1 \in Nat /\ s1 \in Nat
    BY <1>1, <2>1 DEF ListType
  <2>4. list = [names |-> list.names, rows |-> list.rows, printed |-> list.printed, lines |-> list.lines,
                since |-> list.since]
    BY <1>1 DEF ListType
  <2> QED
    BY ONLY <2>1, <2>2, <2>3, <2>4 DEF ListType
<1>5. /\ list.names \in Seq(Seq(Char)) /\ list.since <= list.lines /\ list.lines <= Height - 2
      /\ Held(list.printed, list.rows, Len(list.names))
      /\ work.cut \/ ToSet(list.names) = Candidates(work.word)
  BY <1>1 DEF Listed
<1>6. PICK n, p, r : n = Len(list.names) /\ p = list.printed /\ r = list.rows
  OBVIOUS
<1>7. Held(p \o Head(r), Tail(r), n)
  <2>1. n \in Nat /\ Held(p, r, n) /\ r # <<>>
    BY <1>1, <1>5, <1>6
  <2> QED
    BY ONLY <2>1, HeldOn
<1>8. list.lines \in Nat /\ list.since \in Nat /\ Height \in Nat \ {0, 1}
  BY <1>1, CompletionAssumption DEF ListType
<1>9. Listed(l, work, ph)
  <2>1. /\ l.since <= Height - 1 /\ l.since <= l.lines
    BY <1>4, <1>5, <1>8
  <2>2. ph = "listing" /\ l.rows # <<>> => l.lines <= Height - 2
    BY <1>2, <1>3, <1>4, <1>5, <1>8
  <2>3. ph = "more" => l.lines = Height - 1
    BY <1>2, <1>3, <1>4, <1>5, <1>8
  <2>4. ph \in {"listing", "more"} /\ ph # "query"
    BY <1>2, <1>3
  <2>5. l.names \in Seq(Seq(Char)) /\ Held(l.printed, l.rows, Len(l.names))
    BY <1>4, <1>5, <1>6, <1>7
  <2> QED
    BY <2>1, <2>2, <2>3, <2>4, <2>5, <1>4, <1>5 DEF Listed
<1>10. ph \in {"listing", "more"}
  BY <1>2, <1>3
<1> QED
  BY <1>1, <1>2, <1>3, <1>4, <1>9, <1>10, ShowingKeeps

\* The answers that go on with the list begin a new screen, or one line more.
LEMMA AnswerKeeps ==
  ASSUME CompletionInductive, AnswerYes \/ AnswerNewline
  PROVE  CompletionInductive'
<1>1. PICK n : n = IF AnswerYes THEN 0 ELSE list.lines - 1
  OBVIOUS
<1>2. /\ phase \in {"query", "more"} /\ phase' = "listing"
      /\ list' = [list EXCEPT !.lines = n, !.since = 0]
      /\ tree' = tree /\ set' = set /\ text' = text /\ last' = last /\ resized' = resized /\ work' = work
      /\ menu' = menu
      /\ n = 0 \/ (phase = "more" /\ n = list.lines - 1)
  <2>1. CASE AnswerYes
    <3>1. n = 0
      BY <1>1, <2>1
    <3> QED
      BY <2>1, <3>1 DEF AnswerYes
  <2>2. CASE ~AnswerYes
    <3>1. AnswerNewline /\ n = list.lines - 1
      BY <1>1, <2>2
    <3> QED
      BY <3>1 DEF AnswerNewline
  <2> QED
    BY <2>1, <2>2
<1>3. ListType(list) /\ Listed(list, work, phase) /\ Height \in Nat \ {0, 1}
  BY CompletionAssumption DEF CompletionInductive, Typed
<1>4. n \in Nat /\ n <= Height - 2
  BY <1>2, <1>3 DEF Listed
<1>5. PICK l, ph : l = list' /\ ph = phase'
  OBVIOUS
<1>6. /\ l.names = list.names /\ l.rows = list.rows /\ l.printed = list.printed
      /\ l.lines = n /\ l.since = 0 /\ ListType(l)
  BY <1>2, <1>3, <1>4, <1>5 DEF ListType
<1>7. Listed(l, work, ph)
  <2>1. /\ list.names \in Seq(Seq(Char)) /\ Held(list.printed, list.rows, Len(list.names))
        /\ work.cut \/ ToSet(list.names) = Candidates(work.word)
    BY <1>2, <1>3 DEF Listed
  <2>2. 0 <= n /\ 0 <= Height - 1
    BY <1>3, <1>4
  <2> QED
    BY <2>1, <2>2, <1>2, <1>4, <1>5, <1>6 DEF Listed
<1> QED
  BY <1>2, <1>5, <1>6, <1>7, ShowingKeeps

\* C-g leaves the line as it is.
LEMMA AbortKeeps ==
  ASSUME CompletionInductive, AnswerAbort
  PROVE  CompletionInductive'
<1>1. /\ phase \in {"query", "more"} /\ phase' = "key" /\ last' = "none"
      /\ tree' = tree /\ set' = set /\ text' = text /\ resized' = resized /\ work' = work
      /\ menu' = menu /\ list' = list
  BY DEF AnswerAbort
<1>2. /\ tree \in Trees /\ set \in Settings /\ resized \in BOOLEAN /\ WorkType(work)
      /\ IsText(text) /\ MenuType(menu) /\ ListType(list)
  BY DEF CompletionInductive, Typed
<1>3. work.what # "none" /\ AtWork(work)
  BY <1>1 DEF CompletionInductive, Commands
<1>4. menu.matches # <<>> => InMenu(work, menu, text)
  BY DEF CompletionInductive, Offering
<1>5. work.what \in {"insert", "all", "unmodified"} /\ ~work.cut => DecidedFor(work, text)
  BY <1>1 DEF CompletionInductive, Decided
<1>6. Listed(list, work, "key")
  <2>1. list.since <= Height - 1
    BY DEF CompletionInductive, Listed
  <2> QED
    BY <2>1, NotListed
<1> QED
  BY <1>1, <1>2, <1>3, <1>4, <1>5, <1>6, StepKeeps

\* Every step keeps the invariant.
LEMMA NextKeeps ==
  ASSUME CompletionInductive, [CompletionNext]_completionVars
  PROVE  CompletionInductive'
<1>1. CASE Complete
  <2>1. PICK what : what = Mode
    OBVIOUS
  <2>2. Begin("complete", what, 0) /\ what \in {"list", "all", "unmodified", "insert", "each", "old", "menu"}
    BY <1>1, <2>1 DEF Complete, Mode
  <2>3. PICK command, step : command = "complete" /\ step = 0
    OBVIOUS
  <2>4. step \in Int /\ (command \in {"old", "menu"} => what = command) /\ Begin(command, what, step)
    BY <2>2, <2>3
  <2> QED
    BY ONLY CompletionInductive, <2>2, <2>4, BeginKeeps
<1>2. CASE PossibleCompletions \/ InsertCompletions
  <2>1. PICK command, what, step :
          /\ step = 0 /\ command \in {"possible", "insert"} /\ what \in {"list", "each"}
          /\ Begin(command, what, step)
    BY <1>2 DEF PossibleCompletions, InsertCompletions
  <2>2. step \in Int /\ what \in {"list", "all", "unmodified", "insert", "each", "old", "menu"}
        /\ (command \in {"old", "menu"} => what = command)
    BY <2>1
  <2> QED
    BY ONLY CompletionInductive, <2>1, <2>2, BeginKeeps
<1>3. CASE ListEnds
  BY <1>3, AfterListKeeps DEF ListEnds
<1>4. CASE AnswerNo
  BY <1>4, AfterListKeeps DEF AnswerNo
<1>5. CASE UNCHANGED completionVars
  <2>1. /\ tree' = tree /\ set' = set /\ text' = text /\ last' = last /\ resized' = resized
        /\ work' = work /\ menu' = menu /\ list' = list /\ phase' = phase
    BY <1>5 DEF completionVars
  <2> QED
    BY <2>1, StepKeeps DEF CompletionInductive, Typed, Commands, Offering, Decided
<1> QED
  BY <1>1, <1>2, <1>3, <1>4, <1>5, OtherKeeps, OldMenuKeeps, MenuKeeps, CatchKeeps, ReadKeeps, FailKeeps,
     CompleteInternalKeeps, OldMenuBeginsKeeps, MenuBeginsKeeps, PrintKeeps, AnswerKeeps, AbortKeeps
     DEF CompletionNext

\* The invariant says that nothing was decided for the user, and that a list
\* that has ended held every match.
LEMMA InductiveSuffices ==
  ASSUME CompletionInductive
  PROVE  CompletionInvariant /\ MenuComesBack
<1>1. NothingExcluded
  <2>1. SUFFICES ASSUME phase = "key", work.what \in {"insert", "all", "unmodified"}, ~work.cut
                 PROVE  LET C == Candidates(work.word)
                        IN  /\ RestKept
                            /\ C = {} => text = work.before
                            /\ \A name \in C : C = {name} =>
                                 \E end \in {<<>>, <<"/">>, <<" ">>, work.delim} : WordNow = name \o end
                            /\ Cardinality(C) > 1 =>
                                 /\ C \subseteq Candidates(WordNow)
                                 /\ Candidates(WordNow) \subseteq C \cup Dots
                                 /\ \A c \in DOMAIN Rank \ {"/"} : Candidates(Append(WordNow, c)) # C
    BY DEF NothingExcluded
  <2>2. DecidedFor(work, text)
    BY <2>1 DEF CompletionInductive, Decided
  <2>3. WordNow = WordIn(text, work.start) /\ Dots = DotsIn(work.word) /\ DOMAIN Rank = Char
        /\ (RestKept <=> Around(text, work.before, work.start))
    BY DEF WordNow, WordIn, Dots, DotsIn, Char, RestKept, Around
  <2> QED
    BY <2>2, <2>3 DEF DecidedFor, EndedWith
<1>2. EveryMatchListed
  <2>1. Listed(list, work, phase)
    BY DEF CompletionInductive
  <2>2. ASSUME phase = "listing", list.rows = <<>>
        PROVE  /\ Len(list.printed) = Len(list.names) /\ ToSet(list.printed) = DOMAIN list.names
               /\ work.cut \/ ToSet(list.names) = Candidates(work.word)
    <3>1. /\ list.names \in Seq(Seq(Char)) /\ Held(list.printed, <<>>, Len(list.names))
          /\ work.cut \/ ToSet(list.names) = Candidates(work.word)
      BY <2>1, <2>2 DEF Listed
    <3>2. PICK n, p : n = Len(list.names) /\ p = list.printed
      OBVIOUS
    <3>3. n \in Nat /\ Held(p, <<>>, n) /\ DOMAIN list.names = 1 .. n
      BY <3>1, <3>2
    <3>4. Len(p) = n /\ ToSet(p) = 1 .. n
      BY ONLY <3>3, HeldLast
    <3> QED
      BY <3>1, <3>2, <3>3, <3>4
  <2> QED
    BY <2>1, <2>2 DEF EveryMatchListed, Listed
<1>3. MenuComesBack
  <2>1. SUFFICES ASSUME phase = "key", last \in {"old", "menu"}, Len(menu.matches) > 1
                 PROVE  /\ RestKept
                        /\ menu.index = 0 /\ last = "old" /\ ~set.skip => text = work.before
                        /\ menu.index = 0 /\ last = "menu" => WordNow = menu.matches[1]
                        /\ menu.index # 0 => \E end \in {<<>>, <<"/">>, <<" ">>, work.delim} :
                                               WordNow = menu.matches[menu.index + 1] \o end
    BY DEF MenuComesBack
  <2>2. menu.matches # <<>>
    BY <2>1
  <2>3. InMenu(work, menu, text) /\ work.what = last
    BY <2>1, <2>2 DEF CompletionInductive, Offering, Commands
  <2>4. WordNow = WordIn(text, work.start) /\ (RestKept <=> Around(text, work.before, work.start))
    BY DEF WordNow, WordIn, RestKept, Around
  <2> QED
    BY <2>1, <2>3, <2>4 DEF InMenu, OnWord, Stands, EndedWith
<1> QED
  BY <1>1, <1>2, <1>3 DEF CompletionInvariant

\* Completion never decides for the user, and a list that was not given up holds
\* every match once (rl_complete_internal, rl_display_match_list).
THEOREM CompletionInvariantHolds == CompletionSpec => []CompletionInvariant
<1>1. CompletionInit => CompletionInductive
  BY FirstState
<1>2. CompletionInductive /\ [CompletionNext]_completionVars => CompletionInductive'
  BY NextKeeps
<1>3. CompletionInductive => CompletionInvariant
  BY InductiveSuffices
<1> QED
  BY <1>1, <1>2, <1>3, PTL DEF CompletionSpec

\* Menu completion comes back to the word as it was typed or to the common
\* beginning, and offers each match in its place (rl_menu_complete,
\* rl_old_menu_complete).
THEOREM MenuComesBackHolds == CompletionSpec => []MenuComesBack
<1>1. CompletionInit => CompletionInductive
  BY FirstState
<1>2. CompletionInductive /\ [CompletionNext]_completionVars => CompletionInductive'
  BY NextKeeps
<1>3. CompletionInductive => MenuComesBack
  BY InductiveSuffices
<1> QED
  BY <1>1, <1>2, <1>3, PTL DEF CompletionSpec
=============================================================================
