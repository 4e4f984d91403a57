---- MODULE MCLineEditing ----
EXTENDS LineEditing

MCInsertions == {<<"a">>, <<"a", "A">>}
MCCases == {[c \in {"a", "A"} |-> "A"]}
MCLoaded == <<<<"a">>>>

====
