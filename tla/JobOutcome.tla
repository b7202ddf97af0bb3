----------------------------- MODULE JobOutcome -----------------------------
(***************************************************************************)
(* What the job layer promises whoever enqueues a job (lib/jobs/runner.ts, *)
(* header): the handler's writes and the completion commit together or not *)
(* at all, so a job takes effect at most once; and a job does not stay     *)
(* open for ever - it is done, or dead-lettered for an operator to see.    *)
(***************************************************************************)
EXTENDS Naturals

CONSTANT Job

VARIABLES
    outcome,  \* of each job: none (not enqueued), open, done, dead
    effects   \* how many times the handler's writes of a job committed

vars == <<outcome, effects>>

Init ==
    /\ outcome = [j \in Job |-> "none"]
    /\ effects = [j \in Job |-> 0]

Ask(j) ==
    /\ outcome[j] = "none"
    /\ outcome' = [outcome EXCEPT ![j] = "open"]
    /\ UNCHANGED effects

Complete(j) ==
    /\ outcome[j] = "open"
    /\ outcome' = [outcome EXCEPT ![j] = "done"]
    /\ effects' = [effects EXCEPT ![j] = 1]

\* Several jobs may be given up in one step: a claim dead-letters all it finds.
GiveUp ==
    \E lost \in (SUBSET {j \in Job : outcome[j] = "open"}) \ {{}} :
        /\ outcome' = [j \in Job |-> IF j \in lost THEN "dead" ELSE outcome[j]]
        /\ UNCHANGED effects

Next == (\E j \in Job : Ask(j) \/ Complete(j)) \/ GiveUp

Spec == Init /\ [][Next]_vars

EveryJobEnds == \A j \in Job : outcome[j] = "open" ~> outcome[j] \in {"done", "dead"}

FairSpec == Spec /\ EveryJobEnds
=============================================================================
