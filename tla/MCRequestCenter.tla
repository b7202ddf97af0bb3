-------------------------- MODULE MCRequestCenter --------------------------
(* Constants of RequestCenter for TLC. *)
EXTENDS RequestCenter

CONSTANTS t1, t2, c1

OneClient == {t1, c1}
TwoClients == {t1, t2, c1}
GiverOne == [i \in 1 .. NItem |-> 1]

\* Person 1 is a counselor, 2 a vice principal, 3 the principal, and 4 (when
\* there is one) the organization's admin.
ByOrder == [p \in 1 .. NPerson |-> p - 1]
=============================================================================
