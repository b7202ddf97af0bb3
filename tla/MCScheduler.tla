---------------------------- MODULE MCScheduler ----------------------------
(* Constants of Scheduler and Cron for TLC. *)
EXTENDS Cron, TLC

CONSTANTS w1, w2

FirstOrg == {1}
TwoWorkers == {w1, w2}

\* A midnight, and an hour inside a day.
MidnightAndLater == {MinutesPerDay, MinutesPerDay + 2 * MinutesPerHour}
=============================================================================
