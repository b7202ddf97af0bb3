---------------------------- MODULE MCWorkItems ----------------------------
(* Constants of WorkItems for TLC. *)
EXTENDS WorkItems, TLC

CONSTANTS t1, t2

TwoTx == {t1, t2}
TxSymmetry2 == Permutations(TwoTx)

GiverOne == [i \in 1 .. NItem |-> 1]
=============================================================================
