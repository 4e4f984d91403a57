---------------------------- MODULE MCRlSignals ----------------------------
(* RlSignals for TLC: four kinds of signals, three of them coming, in two lines. *)
EXTENDS RlSignals

MCSignal == {"INT", "TSTP", "TERM", "WINCH"}

=============================================================================
