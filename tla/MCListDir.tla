------------------------------ MODULE MCListDir ------------------------------
(***************************************************************************)
(* Model checking ListDir with four names, one of them hidden and one      *)
(* without an owner; two have the same size.                               *)
(***************************************************************************)
EXTENDS ListDir

MCNames == 1 .. 4
MCHidden == {1}
MCUnowned == {3}
MCSize == [n \in MCNames |-> CASE n = 1 -> 1 [] n = 2 -> 0 [] n = 3 -> 1 [] n = 4 -> 0]

=============================================================================
