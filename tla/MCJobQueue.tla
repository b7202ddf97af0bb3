---------------------------- MODULE MCJobQueue ----------------------------
(* Values of the constants of JobQueue and FairPick for TLC.               *)
EXTENDS FairPick

CONSTANTS j1, j2, w1, w2

TwoJobs == {j1, j2}
OneJob == {j1}
TwoWorkers == {w1, w2}
OneWorker == {w1}
=============================================================================
