------------------------------ MODULE MCFiles ------------------------------
(* Constants of Files for TLC. *)
EXTENDS Files, TLC

CONSTANTS f1, f2, p1, h1, h2, e1, e2

TwoFiles == {f1, f2}
OnePerson == {p1}
TwoHolders == {h1, h2}
TwoEditors == {e1, e2}
AllByOne == [f \in File |-> p1]
=============================================================================
