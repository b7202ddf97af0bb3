---------------------------- MODULE MCGuardians ----------------------------
(* Values of the constants of Guardians for TLC.                           *)
EXTENDS Guardians, TLC

CONSTANTS tx1, tx2, tx3

ThreeClients == {tx1, tx2, tx3}
Connections == Permutations(ThreeClients)

OneColleague == {2}
\* The colleague is the second guardian of the first child.
TwoChildren == {<<1, 1>>, <<1, 2>>, <<2, 1>>}
\* One period; two requests for it overlap.
OneSpan == {{1}}
=============================================================================
