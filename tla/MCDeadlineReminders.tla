------------------------ MODULE MCDeadlineReminders ------------------------
(* Constants of DeadlineReminders for TLC. *)
EXTENDS DeadlineReminders, TLC

CONSTANTS p1, p2

OneAssignee == {p1}
TwoAssignees == {p1, p2}
EarlyOrLate == {4, 6}
InNightOrAfter == {7, 9}
Symmetry == Permutations(TwoAssignees)
=============================================================================
