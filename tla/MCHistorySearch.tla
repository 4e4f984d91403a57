--------------------------- MODULE MCHistorySearch ---------------------------
(***************************************************************************)
(* HistorySearch for TLC, with lines of different lengths, one of which    *)
(* the user may type once more.                                            *)
(***************************************************************************)
EXTENDS HistorySearch

MCHistories == {<<<<"a", "b">>, <<"b">>>>}

=============================================================================
