------------------------------ MODULE JobQueue ------------------------------
(***************************************************************************)
(* The background job queue: ops.job, app.claim_jobs (drizzle/0032), the   *)
(* runner and the worker loop (src/src/lib/jobs).  Worker processes claim  *)
(* due rows under a lease, run each in one transaction that holds the row  *)
(* FOR UPDATE and commits the handler's writes with status = 'done', and   *)
(* record a failure in a second transaction.  A process may die at any     *)
(* moment; a restarted process has another worker id.                      *)
(*                                                                         *)
(* One job kind: `slots` is its `concurrency` within the process cap.      *)
(* Time is two facts per row: run_at has come (`due`), the lease has run   *)
(* out (`expired`), which it may while the run still lives.                *)
(***************************************************************************)
EXTENDS Naturals, FiniteSets

CONSTANTS
    Job,          \* job rows ever inserted
    Worker,       \* worker processes
    Slots,        \* runs of the kind at once in one process
    MaxAttempts,  \* ops.job.max_attempts
    NoJob,        \* a slot with nothing to do
    NoWorker      \* locked_by is null, or names a process that is gone

ASSUME NoneAssumption == NoJob \notin Job /\ NoWorker \notin Worker
ASSUME SlotsAssumption == Slots \in Nat \ {0}
ASSUME AttemptsAssumption == MaxAttempts \in Nat \ {0}

Run == Worker \X (1 .. Slots)
Owner(r) == r[1]

VARIABLES
    job,      \* the rows of ops.job
    run,      \* what each slot of each process is doing
    effects   \* per job, how often its handler's writes were committed

vars == <<job, run, effects>>

JobRow ==
    [status   : {"none", "queued", "running", "failed", "done", "dead", "pruned"},
     attempts : 0 .. MaxAttempts,
     by       : Worker \union {NoWorker},
     due      : BOOLEAN,
     expired  : BOOLEAN]

RunState ==
    [phase : {"idle", "claimed", "running", "failed", "after"},
     job : Job \union {NoJob}, attempt : 0 .. MaxAttempts, permanent : BOOLEAN]

Idle == [phase |-> "idle", job |-> NoJob, attempt |-> 0, permanent |-> FALSE]
Absent == [status |-> "none", attempts |-> 0, by |-> NoWorker, due |-> FALSE, expired |-> FALSE]

-----------------------------------------------------------------------------
(* Reads.                                                                  *)

\* (mutant of RowLocked: the fenced read takes no lock)
RowLocked_never(j) == FALSE

\* A live run holds its job's row FOR UPDATE from its fenced read to its end.
RowLocked(j) == \E r \in Run : run[r].phase = "running" /\ run[r].job = j

\* (mutant of Fence: a finished row still matches)
Fence_anyStatus(j, w) == job[j].by = w \/ job[j].status \in {"done", "dead"}

\* (mutant of Fence: whoever holds the lease)
Fence_anyWorker(j, w) == job[j].status = "running"

\* fence: the row is still leased to this worker.
Fence(j, w) == job[j].by = w /\ job[j].status = "running"

\* (mutant of Due: an expired lease is re-claimed however often it expired)
Due_noLimit(j) ==
    \/ job[j].status \in {"queued", "failed"} /\ job[j].due
    \/ job[j].status = "running" /\ job[j].expired

Due(j) ==
    \/ job[j].status \in {"queued", "failed"} /\ job[j].due
    \/ job[j].status = "running" /\ job[j].expired /\ job[j].attempts < MaxAttempts

\* Leases that ran out on the last attempt; a row a live run holds is skipped.
\* (mutant: they are left alone)
Abandoned_never == {}
Abandoned ==
    {j \in Job : /\ job[j].status = "running" /\ job[j].expired
                 /\ job[j].attempts >= MaxAttempts
                 /\ ~RowLocked(j)}

Free(w) == {r \in Run : Owner(r) = w /\ run[r].phase = "idle"}

\* The rows a claim picks before it locks them: as many as there are free
\* slots, whoever holds them.
Picks(n) ==
    LET rows == {j \in Job : Due(j)} IN
    {S \in SUBSET rows : Cardinality(S) = IF Cardinality(rows) < n THEN Cardinality(rows) ELSE n}

-----------------------------------------------------------------------------
(* The world around the workers.                                           *)

Queued(due) ==
    [status |-> "queued", attempts |-> 0, by |-> NoWorker, due |-> due, expired |-> FALSE]

\* insertJob, committed with the change that wanted the job; run_at now or later.
Enqueue(j) ==
    /\ job[j].status = "none"
    /\ \E due \in BOOLEAN : job' = [job EXCEPT ![j] = Queued(due)]
    /\ UNCHANGED <<run, effects>>

RunAtComes(j) ==
    /\ job[j].status \in {"queued", "failed"} /\ ~job[j].due
    /\ job' = [job EXCEPT ![j].due = TRUE]
    /\ UNCHANGED <<run, effects>>

LeaseRunsOut(j) ==
    /\ job[j].status = "running" /\ ~job[j].expired
    /\ job' = [job EXCEPT ![j].expired = TRUE]
    /\ UNCHANGED <<run, effects>>

\* ops.prune_jobs: finished rows, long after.
Prune(j) ==
    /\ job[j].status \in {"done", "dead"}
    /\ job' = [job EXCEPT ![j].status = "pruned"]
    /\ UNCHANGED <<run, effects>>

\* The process dies: its connections drop, its transactions roll back, and the
\* leases it holds name a worker that no longer exists.
Crash(w) ==
    /\ \E r \in Run : Owner(r) = w /\ run[r].phase # "idle"
    /\ run' = [r \in Run |-> IF Owner(r) = w THEN Idle ELSE run[r]]
    /\ job' = [j \in Job |-> IF job[j].by = w THEN [job[j] EXCEPT !.by = NoWorker] ELSE job[j]]
    /\ UNCHANGED effects

-----------------------------------------------------------------------------
(* The worker.                                                             *)

Leased(j, w) ==
    [job[j] EXCEPT !.status = "running", !.attempts = @ + 1, !.by = w, !.expired = FALSE]

DeadLettered(j) == [job[j] EXCEPT !.status = "dead", !.by = NoWorker]

Claimed(j) ==
    [phase |-> "claimed", job |-> j, attempt |-> job[j].attempts + 1, permanent |-> FALSE]

\* Each leased row is started in a free slot of its own; or the answer of the
\* claim never arrives and the leases belong to no run.
StartIn(w, mine) ==
    \/ UNCHANGED run
    \/ \E slot \in [mine -> Free(w)] :
         /\ \A i, j \in mine : slot[i] = slot[j] => i = j
         /\ run' = [r \in Run |->
                IF \E j \in mine : slot[j] = r THEN Claimed(CHOOSE j \in mine : slot[j] = r)
                ELSE run[r]]

\* claimJobs: dead-letter the abandoned rows, pick due ones, lock those that
\* nobody holds, lease them.
Claim(w) ==
    /\ Free(w) # {}
    /\ \E picked \in Picks(Cardinality(Free(w))) :
        LET mine == {j \in picked : ~RowLocked(j)} IN
        /\ mine # {} \/ Abandoned # {}
        /\ job' = [j \in Job |-> CASE j \in mine -> Leased(j, w)
                                  [] j \in Abandoned -> DeadLettered(j)
                                  [] OTHER -> job[j]]
        /\ StartIn(w, mine)
    /\ UNCHANGED effects

\* The fenced read FOR UPDATE SKIP LOCKED finds the row.
MayStart(r) == Fence(run[r].job, Owner(r)) /\ ~RowLocked(run[r].job)

Stop(r) == run' = [run EXCEPT ![r] = Idle]

\* runJob opens its transaction and reads the row; the payload may no longer
\* validate.
Open(r) ==
    /\ run[r].phase = "claimed" /\ MayStart(r)
    /\ \/ run' = [run EXCEPT ![r].phase = "running"]
       \/ run' = [run EXCEPT ![r].phase = "failed", ![r].permanent = TRUE]
    /\ UNCHANGED <<job, effects>>

\* LeaseLost: nothing runs.
Lost(r) ==
    /\ run[r].phase = "claimed" /\ ~MayStart(r)
    /\ Stop(r)
    /\ UNCHANGED <<job, effects>>

\* No connection, or no such kind: the transaction never opened.
OpenFails(r) ==
    /\ run[r].phase = "claimed"
    /\ \E permanent \in BOOLEAN :
         run' = [run EXCEPT ![r].phase = "failed", ![r].permanent = permanent]
    /\ UNCHANGED <<job, effects>>

\* The handler throws, the signal aborts it, a statement times out: rolled back.
Fail(r) ==
    /\ run[r].phase = "running"
    /\ \E permanent \in BOOLEAN :
         run' = [run EXCEPT ![r].phase = "failed", ![r].permanent = permanent]
    /\ UNCHANGED <<job, effects>>

\* The handler's writes and 'done' commit together; the process may fail to
\* hear of it.
Finish(r) ==
    LET j == run[r].job IN
    /\ run[r].phase = "running" /\ Fence(j, Owner(r))
    /\ job' = [job EXCEPT ![j].status = "done", ![j].by = NoWorker]
    /\ effects' = [effects EXCEPT ![j] = @ + 1]
    /\ \E phase \in {"after", "failed"} : run' = [run EXCEPT ![r].phase = phase]

\* afterCommit, whatever comes of it.
AfterCommit(r) ==
    /\ run[r].phase = "after"
    /\ Stop(r)
    /\ UNCHANGED <<job, effects>>

\* What recordFailure writes: a retry after a delay, or no more.
AfterFailure(j, permanent) ==
    IF permanent \/ job[j].attempts >= MaxAttempts THEN DeadLettered(j)
    ELSE [job[j] EXCEPT !.status = "failed", !.by = NoWorker, !.due = FALSE]

\* The second transaction; it waits for a run that holds the row.
RecordFailure(r) ==
    LET j == run[r].job IN
    /\ run[r].phase = "failed" /\ ~RowLocked(j)
    /\ job' = IF Fence(j, Owner(r)) THEN [job EXCEPT ![j] = AfterFailure(j, run[r].permanent)] ELSE job
    /\ Stop(r)
    /\ UNCHANGED effects

\* The database is unreachable: the row stays 'running' until its lease ends.
FailureNotRecorded(r) ==
    /\ run[r].phase = "failed"
    /\ Stop(r)
    /\ UNCHANGED <<job, effects>>

-----------------------------------------------------------------------------
Init ==
    /\ job = [j \in Job |-> Absent]
    /\ run = [r \in Run |-> Idle]
    /\ effects = [j \in Job |-> 0]

Begin(r) == Open(r) \/ Lost(r) \/ OpenFails(r)
Execute(r) == Fail(r) \/ Finish(r)
Record(r) == RecordFailure(r) \/ FailureNotRecorded(r)

Next ==
    \/ \E j \in Job : Enqueue(j) \/ RunAtComes(j) \/ LeaseRunsOut(j) \/ Prune(j)
    \/ \E w \in Worker : Claim(w) \/ Crash(w)
    \/ \E r \in Run : Begin(r) \/ Execute(r) \/ AfterCommit(r) \/ Record(r)

Spec == Init /\ [][Next]_vars

\* Time passes, the worker loop polls, and no step of a run hangs for ever (its
\* statement timeout and its signal see to that).  Crashes are never required
\* and never ruled out.
FairSpec ==
    /\ Spec
    /\ \A j \in Job : WF_vars(RunAtComes(j)) /\ WF_vars(LeaseRunsOut(j))
    /\ \A w \in Worker : WF_vars(Claim(w))
    /\ \A r \in Run : /\ WF_vars(Begin(r)) /\ WF_vars(Execute(r))
                      /\ WF_vars(AfterCommit(r)) /\ WF_vars(Record(r))

-----------------------------------------------------------------------------
(* Properties.                                                             *)

TypeOK ==
    /\ job \in [Job -> JobRow]
    /\ run \in [Run -> RunState]
    /\ effects \in [Job -> Nat]
    /\ \A r \in Run : run[r].phase = "idle" <=> run[r].job = NoJob

\* No two runs execute one job at the same time, though its lease may be taken
\* over while the first still runs ("it stays locked, so no other worker can
\* re-claim it even if the run outlives its lease").
OneRunAtATime ==
    \A r, s \in Run :
        (run[r].phase = "running" /\ run[s].phase = "running" /\ run[r].job = run[s].job) => r = s

\* The handler's writes are committed exactly once for a job that is done and
\* never for one that is not - across crashes, lost acknowledgements, retries.
EffectIffDone ==
    \A j \in Job :
        /\ job[j].status = "done" => effects[j] = 1
        /\ job[j].status \notin {"done", "pruned"} => effects[j] = 0
        /\ effects[j] <= 1

\* A job is tried at most max_attempts times, and one that waits for a retry has
\* an attempt left: a claim takes a failed row without counting.
AttemptsLeft ==
    \A j \in Job : job[j].status \in {"queued", "failed"} => job[j].attempts < MaxAttempts

\* What is done or dead stays so: no late failure report, expired lease or
\* second run reopens a finished job.
FinishedIsFinal ==
    [][\A j \in Job : job[j].status \in {"done", "dead", "pruned"} =>
            job'[j].status \in {job[j].status, "pruned"}]_vars

\* "The lease was taken over: this run must not commit anything" (LeaseLost):
\* only the run of the row's current attempt finishes it or records its failure.
StaleRunWritesNothing ==
    [][\A r \in Run :
        LET j == run[r].job IN
        (j # NoJob /\ run'[r] # run[r] /\ job'[j].status # job[j].status)
            => run[r].attempt = job[j].attempts]_vars

-----------------------------------------------------------------------------
(* The queue keeps its promise.                                            *)

Outcome(j) ==
    CASE job[j].status = "none" -> "none"
      [] job[j].status \in {"queued", "running", "failed"} -> "open"
      [] job[j].status = "dead" -> "dead"
      [] job[j].status = "done" -> "done"
      [] OTHER -> IF effects[j] > 0 THEN "done" ELSE "dead"

Promise == INSTANCE JobOutcome WITH outcome <- [j \in Job |-> Outcome(j)]

\* Every behaviour of the queue is one the promise allows.
KeepsPromise == Promise!Spec

\* Every job that was enqueued is done or dead-lettered in the end, however the
\* workers crash in between.
EveryJobEnds == Promise!EveryJobEnds
=============================================================================
