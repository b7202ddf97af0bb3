--------------------------- MODULE JobQueueProofs ---------------------------
(***************************************************************************)
(* Proofs about JobQueue, for every set of jobs and workers, every number  *)
(* of slots and of attempts.  The inductive invariant adds one fact to the *)
(* properties themselves, LeaseHeld: a run that holds its row still owns   *)
(* the lease, because everything else that writes a leased row either      *)
(* skips locked rows (the claim) or waits for them (recordFailure).        *)
(*                                                                         *)
(* The last part is about FairPick, for every number of kinds, rows and    *)
(* organizations: sums and the hand-out are defined by recursion, and are  *)
(* reasoned about by the least counterexample (LeastNatural), which needs  *)
(* no induction theorem.                                                   *)
(***************************************************************************)
EXTENDS FairPick, FiniteSetTheorems, WellFoundedInduction, TLAPS

\* A run between its fenced read and its end still passes the fence, though its
\* lease may have expired: Finish never meets LeaseLost.
LeaseHeld == \A r \in Run : run[r].phase = "running" => Fence(run[r].job, Owner(r))

IInv == TypeOK /\ AttemptsLeft /\ LeaseHeld /\ OneRunAtATime /\ EffectIffDone

\* The shape of a run and of a row, for the steps below.
LEMMA Shapes ==
    ASSUME TypeOK
    PROVE  /\ \A r \in Run : /\ Owner(r) \in Worker
                             /\ run[r] \in RunState
                             /\ run[r].phase # "idle" => run[r].job \in Job
           /\ \A j \in Job : job[j] \in JobRow /\ effects[j] \in Nat
           /\ Idle \in RunState /\ Absent \in JobRow
           /\ \A r \in Run : run[r].phase = "idle" <=> run[r].job = NoJob
BY NoneAssumption, SlotsAssumption, AttemptsAssumption
   DEF TypeOK, RunState, JobRow, Run, Owner, Idle, Absent

\* The initial state.
LEMMA InitIInv == Init => IInv
<1> SUFFICES ASSUME Init PROVE IInv
    OBVIOUS
<1>1. TypeOK
  BY NoneAssumption, SlotsAssumption, AttemptsAssumption
     DEF Init, TypeOK, RunState, JobRow, Run, Idle, Absent
<1>2. AttemptsLeft
  BY DEF Init, AttemptsLeft, Absent
<1>3. LeaseHeld /\ OneRunAtATime
  BY DEF Init, LeaseHeld, OneRunAtATime, Idle
<1>4. EffectIffDone
  BY DEF Init, EffectIffDone, Absent
<1> QED
  BY <1>1, <1>2, <1>3, <1>4 DEF IInv

-----------------------------------------------------------------------------
(* Steps that start no run and complete no job.                            *)

\* What such a step must respect: the counts of the rows, and the lease of every
\* run that goes on.
LEMMA QuietStep ==
    ASSUME IInv, TypeOK', effects' = effects,
           \A r \in Run : run'[r].phase = "running" => run'[r] = run[r],
           \A r \in Run : run'[r].phase = "running" =>
                job'[run[r].job].status = "running" /\ job'[run[r].job].by = Owner(r),
           \A j \in Job :
                /\ job'[j].status \in {"queued", "failed"} => job'[j].attempts < MaxAttempts
                /\ job'[j].status = "done" => job[j].status = "done"
                /\ job'[j].status \notin {"done", "pruned"} => job[j].status \notin {"done", "pruned"}
    PROVE  IInv'
<1>1. AttemptsLeft'
  BY DEF AttemptsLeft
<1>2. LeaseHeld'
  BY DEF LeaseHeld, Fence
<1>3. OneRunAtATime'
  BY DEF IInv, OneRunAtATime
<1>4. EffectIffDone'
  BY DEF IInv, EffectIffDone
<1> QED
  BY <1>1, <1>2, <1>3, <1>4 DEF IInv

\* What the two ways to leave a run make of `run`.
LEMMA RunLeaves ==
    ASSUME TypeOK, NEW r \in Run, run[r].phase # "idle",
           \/ Stop(r)
           \/ \E permanent \in BOOLEAN :
                run' = [run EXCEPT ![r].phase = "failed", ![r].permanent = permanent]
    PROVE  /\ run' \in [Run -> RunState]
           /\ \A q \in Run : q # r => run'[q] = run[q]
           /\ run'[r].phase \in {"idle", "failed"}
           /\ run'[r].phase = "idle" <=> run'[r].job = NoJob
<1>0. run \in [Run -> RunState] /\ run[r] \in RunState /\ run[r].job \in Job
  BY Shapes DEF TypeOK
<1>1. CASE Stop(r)
  BY <1>0, <1>1, Shapes DEF Stop, Idle
<1>2. ASSUME NEW permanent \in BOOLEAN,
             run' = [run EXCEPT ![r].phase = "failed", ![r].permanent = permanent]
      PROVE  /\ run' \in [Run -> RunState]
             /\ \A q \in Run : q # r => run'[q] = run[q]
             /\ run'[r].phase \in {"idle", "failed"}
             /\ run'[r].phase = "idle" <=> run'[r].job = NoJob
  <2> DEFINE v == [run[r] EXCEPT !.phase = "failed", !.permanent = permanent]
  <2>1. v \in RunState /\ v.phase = "failed" /\ v.job = run[r].job
    BY <1>0 DEF RunState
  <2>2. run' = [run EXCEPT ![r] = v]
    BY <1>0, <1>2
  <2> HIDE DEF v
  <2> QED
    BY <1>0, <2>1, <2>2, NoneAssumption
<1> QED
  BY <1>1, <1>2

\* A run that ends or fails without touching its row disturbs nothing.
LEMMA RunStops ==
    ASSUME IInv, NEW r \in Run, run[r].phase # "idle", job' = job, effects' = effects,
           \/ Stop(r)
           \/ \E permanent \in BOOLEAN :
                run' = [run EXCEPT ![r].phase = "failed", ![r].permanent = permanent]
    PROVE  IInv'
<1>1. /\ run' \in [Run -> RunState]
      /\ \A q \in Run : q # r => run'[q] = run[q]
      /\ run'[r].phase \in {"idle", "failed"}
      /\ run'[r].phase = "idle" <=> run'[r].job = NoJob
  BY RunLeaves DEF IInv
<1>2. TypeOK'
  BY <1>1 DEF IInv, TypeOK
<1>3. \A q \in Run : run'[q].phase = "running" =>
            job'[run[q].job].status = "running" /\ job'[run[q].job].by = Owner(q)
  BY <1>1 DEF IInv, LeaseHeld, Fence
<1>4. \A j \in Job : job'[j].status \in {"queued", "failed"} => job'[j].attempts < MaxAttempts
  BY DEF IInv, AttemptsLeft
<1> QED
  BY <1>1, <1>2, <1>3, <1>4, QuietStep

\* The fenced read: the row is leased to this worker and nobody holds it.
LEMMA OpenIInv == ASSUME IInv, NEW r \in Run, Open(r) PROVE IInv'
<1>1. CASE run' = [run EXCEPT ![r].phase = "running"]
  <2> DEFINE v == [run[r] EXCEPT !.phase = "running"]
  <2>0. /\ run \in [Run -> RunState] /\ run[r] \in RunState /\ run[r].job \in Job
        /\ v \in RunState /\ v.phase = "running" /\ v.job = run[r].job
        /\ run' = [run EXCEPT ![r] = v]
    BY <1>1, Shapes DEF IInv, TypeOK, Open, RunState
  <2> HIDE DEF v
  <2>2. \A q \in Run : q # r => run'[q] = run[q]
    BY <2>0
  <2>3. run'[r] = v /\ run'[r].phase = "running" /\ run'[r].job = run[r].job
    BY <2>0
  <2>1. TypeOK'
    BY <2>0, <2>2, <2>3, NoneAssumption DEF IInv, Open, TypeOK
  <2>4. Fence(run[r].job, Owner(r)) /\ ~RowLocked(run[r].job)
    BY DEF Open, MayStart
  <2>5. LeaseHeld'
    BY <2>2, <2>3, <2>4 DEF IInv, LeaseHeld, Open, Fence
  <2>6. OneRunAtATime'
    BY <2>2, <2>3, <2>4 DEF IInv, OneRunAtATime, RowLocked
  <2>7. AttemptsLeft' /\ EffectIffDone'
    BY DEF IInv, Open, AttemptsLeft, EffectIffDone
  <2> QED
    BY <2>1, <2>5, <2>6, <2>7 DEF IInv
<1>2. CASE run' = [run EXCEPT ![r].phase = "failed", ![r].permanent = TRUE]
  BY <1>2, RunStops DEF Open
<1> QED
  BY <1>1, <1>2 DEF Open

-----------------------------------------------------------------------------
(* Steps that write rows.                                                  *)

\* A step that rewrites one row nobody holds.
LEMMA OneRow ==
    ASSUME IInv, NEW j \in Job, NEW row \in JobRow,
           job' = [job EXCEPT ![j] = row], run' = run, effects' = effects,
           ~RowLocked(j) \/ (row.status = job[j].status /\ row.by = job[j].by),
           row.status \in {"queued", "failed"} => row.attempts < MaxAttempts,
           row.status # "done" \/ job[j].status = "done",
           row.status \notin {"done", "pruned"} => job[j].status \notin {"done", "pruned"}
    PROVE  IInv'
<1>1. TypeOK'
  BY DEF IInv, TypeOK
<1>2. job'[j] = row /\ \A k \in Job : k # j => job'[k] = job[k]
  BY DEF IInv, TypeOK
<1>3. \A r \in Run : run'[r].phase = "running" =>
            job'[run[r].job].status = "running" /\ job'[run[r].job].by = Owner(r)
  BY <1>2, Shapes DEF IInv, LeaseHeld, Fence, RowLocked
<1>4. \A k \in Job : job'[k].status \in {"queued", "failed"} => job'[k].attempts < MaxAttempts
  BY <1>2 DEF IInv, AttemptsLeft
<1> QED
  BY <1>1, <1>2, <1>3, <1>4, QuietStep

\* Every run in progress reads a leased row.
LEMMA LockedIsRunning ==
    ASSUME IInv, NEW j \in Job, RowLocked(j)
    PROVE  job[j].status = "running"
BY DEF IInv, LeaseHeld, Fence, RowLocked

\* The world around the workers.
LEMMA WorldIInv ==
    ASSUME IInv, NEW j \in Job, Enqueue(j) \/ RunAtComes(j) \/ LeaseRunsOut(j) \/ Prune(j)
    PROVE  IInv'
<1>0. job[j] \in JobRow /\ Absent \in JobRow /\ job \in [Job -> JobRow]
  BY Shapes DEF IInv, TypeOK
<1>1. CASE Enqueue(j)
  <2>1. PICK due \in BOOLEAN : job' = [job EXCEPT ![j] = Queued(due)]
    BY <1>1 DEF Enqueue
  <2> DEFINE row == Queued(due)
  <2>2. row \in JobRow /\ row.status = "queued" /\ row.attempts < MaxAttempts
    BY AttemptsAssumption DEF Queued, JobRow
  <2>3. ~RowLocked(j)
    BY <1>1, LockedIsRunning DEF Enqueue
  <2> HIDE DEF row
  <2> QED
    BY <1>1, <2>1, <2>2, <2>3, OneRow DEF Enqueue, row
<1>2. CASE RunAtComes(j)
  <2> DEFINE row == [job[j] EXCEPT !.due = TRUE]
  <2>1. row \in JobRow /\ row.status = job[j].status /\ row.by = job[j].by /\ row.attempts = job[j].attempts
    BY <1>0 DEF JobRow
  <2>2. job' = [job EXCEPT ![j] = row] /\ run' = run /\ effects' = effects
    BY <1>0, <1>2 DEF RunAtComes
  <2> HIDE DEF row
  <2> QED
    BY <2>1, <2>2, OneRow DEF IInv, AttemptsLeft
<1>3. CASE LeaseRunsOut(j)
  <2> DEFINE row == [job[j] EXCEPT !.expired = TRUE]
  <2>1. row \in JobRow /\ row.status = job[j].status /\ row.by = job[j].by /\ row.attempts = job[j].attempts
    BY <1>0 DEF JobRow
  <2>2. job' = [job EXCEPT ![j] = row] /\ run' = run /\ effects' = effects
    BY <1>0, <1>3 DEF LeaseRunsOut
  <2> HIDE DEF row
  <2> QED
    BY <2>1, <2>2, OneRow DEF IInv, AttemptsLeft
<1>4. CASE Prune(j)
  <2> DEFINE row == [job[j] EXCEPT !.status = "pruned"]
  <2>1. row \in JobRow /\ row.status = "pruned"
    BY <1>0 DEF JobRow
  <2>2. job' = [job EXCEPT ![j] = row] /\ run' = run /\ effects' = effects
    BY <1>0, <1>4 DEF Prune
  <2>3. ~RowLocked(j)
    BY <1>4, LockedIsRunning DEF Prune
  <2> HIDE DEF row
  <2> QED
    BY <2>1, <2>2, <2>3, OneRow
<1> QED
  BY <1>1, <1>2, <1>3, <1>4

\* A process dies: its runs stop, and the rows it leased name nobody.
LEMMA CrashIInv == ASSUME IInv, NEW w \in Worker, Crash(w) PROVE IInv'
<1> DEFINE gone(j) == [job[j] EXCEPT !.by = NoWorker]
<1>0. /\ job \in [Job -> JobRow] /\ run \in [Run -> RunState] /\ effects' = effects
      /\ job' = [j \in Job |-> IF job[j].by = w THEN gone(j) ELSE job[j]]
      /\ run' = [r \in Run |-> IF Owner(r) = w THEN Idle ELSE run[r]]
  BY DEF IInv, TypeOK, Crash
<1>1. \A j \in Job : /\ gone(j) \in JobRow /\ gone(j).status = job[j].status
                     /\ gone(j).attempts = job[j].attempts
  BY <1>0 DEF JobRow
<1> HIDE DEF gone
<1>2. \A j \in Job : /\ job'[j] \in JobRow /\ job'[j].status = job[j].status
                     /\ job'[j].attempts = job[j].attempts
                     /\ job[j].by # w => job'[j] = job[j]
  BY <1>0, <1>1
<1>3. \A r \in Run : run'[r] = IF Owner(r) = w THEN Idle ELSE run[r]
  BY <1>0
<1>4. TypeOK'
  <2>1. run' \in [Run -> RunState] /\ job' \in [Job -> JobRow] /\ effects' \in [Job -> Nat]
    BY <1>0, <1>2, Shapes DEF IInv, TypeOK
  <2>2. \A r \in Run : run'[r].phase = "idle" <=> run'[r].job = NoJob
    BY <1>3 DEF IInv, TypeOK, Idle
  <2> QED
    BY <2>1, <2>2 DEF TypeOK
<1>5. \A r \in Run : run'[r].phase = "running" => run'[r] = run[r] /\ Owner(r) # w
  BY <1>3 DEF Idle
<1>6. \A r \in Run : run'[r].phase = "running" =>
            job'[run[r].job].status = "running" /\ job'[run[r].job].by = Owner(r)
  <2> SUFFICES ASSUME NEW r \in Run, run'[r].phase = "running"
               PROVE  job'[run[r].job].status = "running" /\ job'[run[r].job].by = Owner(r)
    OBVIOUS
  <2>1. run[r].phase = "running" /\ Owner(r) # w
    BY <1>5
  <2>2. run[r].job \in Job /\ job[run[r].job].by = Owner(r) /\ job[run[r].job].status = "running"
    BY <2>1, Shapes DEF IInv, LeaseHeld, Fence
  <2>3. job'[run[r].job] = job[run[r].job]
    BY <1>2, <2>1, <2>2
  <2> QED
    BY <2>2, <2>3
<1>7. ASSUME NEW j \in Job, job'[j].status \in {"queued", "failed"}
      PROVE  job'[j].attempts < MaxAttempts
  <2>1. job'[j].attempts = job[j].attempts /\ job[j].status \in {"queued", "failed"}
    BY <1>2, <1>7
  <2>2. job[j].attempts < MaxAttempts
    BY <2>1 DEF IInv, AttemptsLeft
  <2> QED
    BY <2>1, <2>2
<1> QED
  BY <1>0, <1>2, <1>4, <1>5, <1>6, <1>7, QuietStep

\* The rows a claim and a failure report write.
LEMMA WrittenRows ==
    ASSUME TypeOK, NEW j \in Job
    PROVE  /\ DeadLettered(j) \in JobRow /\ DeadLettered(j).status = "dead"
           /\ \A w \in Worker :
                job[j].attempts < MaxAttempts =>
                    /\ Leased(j, w) \in JobRow /\ Leased(j, w).status = "running"
                    /\ Claimed(j) \in RunState /\ Claimed(j).phase = "claimed" /\ Claimed(j).job = j
           /\ \A permanent \in BOOLEAN :
                /\ AfterFailure(j, permanent) \in JobRow
                /\ AfterFailure(j, permanent).status \in {"dead", "failed"}
                /\ AfterFailure(j, permanent).status = "failed" =>
                        AfterFailure(j, permanent).attempts < MaxAttempts
<1>1. job[j] \in JobRow /\ job[j].attempts \in 0 .. MaxAttempts
  BY DEF TypeOK, JobRow
<1>2. DeadLettered(j) \in JobRow /\ DeadLettered(j).status = "dead"
  BY <1>1 DEF DeadLettered, JobRow
<1>3. ASSUME NEW w \in Worker, job[j].attempts < MaxAttempts
      PROVE  /\ Leased(j, w) \in JobRow /\ Leased(j, w).status = "running"
             /\ Claimed(j) \in RunState /\ Claimed(j).phase = "claimed" /\ Claimed(j).job = j
  <2>1. job[j].attempts + 1 \in 0 .. MaxAttempts
    BY <1>1, <1>3, AttemptsAssumption
  <2> QED
    BY <1>1, <2>1 DEF Leased, JobRow, Claimed, RunState
<1>4. ASSUME NEW permanent \in BOOLEAN
      PROVE  /\ AfterFailure(j, permanent) \in JobRow
             /\ AfterFailure(j, permanent).status \in {"dead", "failed"}
             /\ AfterFailure(j, permanent).status = "failed" =>
                     AfterFailure(j, permanent).attempts < MaxAttempts
  <2> DEFINE again == [job[j] EXCEPT !.status = "failed", !.by = NoWorker, !.due = FALSE]
  <2>1. again \in JobRow /\ again.status = "failed" /\ again.attempts = job[j].attempts
    BY <1>1 DEF JobRow
  <2>2. AfterFailure(j, permanent) =
            IF permanent \/ job[j].attempts >= MaxAttempts THEN DeadLettered(j) ELSE again
    BY DEF AfterFailure
  <2> HIDE DEF again
  <2> QED
    BY <1>1, <1>2, <2>1, <2>2, AttemptsAssumption
<1> QED
  BY <1>2, <1>3, <1>4

\* What a claim does to each row and to each run.
LEMMA ClaimFacts ==
    ASSUME IInv, NEW w \in Worker, Claim(w)
    PROVE  /\ effects' = effects
           /\ job' \in [Job -> JobRow] /\ run' \in [Run -> RunState]
           /\ \A r \in Run : run'[r] = run[r] \/ (run'[r].phase = "claimed" /\ run'[r].job \in Job)
           /\ \A j \in Job :
                \/ job'[j] = job[j] /\ j \notin Abandoned
                \/ /\ job'[j].status = "running" /\ j \notin Abandoned
                   /\ job[j].status \in {"queued", "failed", "running"} /\ ~RowLocked(j)
                \/ job'[j].status = "dead" /\ j \in Abandoned
<1>0. job \in [Job -> JobRow] /\ run \in [Run -> RunState] /\ effects' = effects
  BY DEF IInv, TypeOK, Claim
<1>1. PICK mine \in SUBSET Job :
        /\ \A j \in mine : Due(j) /\ ~RowLocked(j)
        /\ job' = [j \in Job |-> CASE j \in mine -> Leased(j, w)
                                  [] j \in Abandoned -> DeadLettered(j)
                                  [] OTHER -> job[j]]
        /\ StartIn(w, mine)
  BY DEF Claim, Picks
<1>2. \A j \in mine : /\ job[j].attempts < MaxAttempts
                      /\ job[j].status \in {"queued", "failed", "running"}
                      /\ j \notin Abandoned
  <2> SUFFICES ASSUME NEW j \in mine
               PROVE  /\ job[j].attempts < MaxAttempts
                      /\ job[j].status \in {"queued", "failed", "running"}
                      /\ j \notin Abandoned
    OBVIOUS
  <2>1. job[j].attempts \in 0 .. MaxAttempts /\ Due(j)
    BY <1>0, <1>1 DEF JobRow
  <2>2. job[j].attempts < MaxAttempts /\ job[j].status \in {"queued", "failed", "running"}
    BY <2>1 DEF IInv, AttemptsLeft, Due
  <2>3. j \notin Abandoned
    BY <2>1, <2>2, AttemptsAssumption DEF Abandoned
  <2> QED
    BY <2>2, <2>3
<1>3. ASSUME NEW j \in Job
      PROVE  /\ job'[j] \in JobRow
             /\ \/ job'[j] = job[j] /\ j \notin Abandoned
                \/ /\ job'[j].status = "running" /\ j \notin Abandoned
                   /\ job[j].status \in {"queued", "failed", "running"} /\ ~RowLocked(j)
                \/ job'[j].status = "dead" /\ j \in Abandoned
  <2>1. CASE j \in mine
    <3>1. job'[j] = Leased(j, w)
      BY <1>1, <1>2, <2>1
    <3> QED
      BY <1>1, <1>2, <2>1, <3>1, WrittenRows DEF IInv
  <2>2. CASE j \notin mine /\ j \in Abandoned
    <3>1. job'[j] = DeadLettered(j)
      BY <1>1, <2>2
    <3> QED
      BY <2>2, <3>1, WrittenRows DEF IInv
  <2>3. CASE j \notin mine /\ j \notin Abandoned
    BY <1>0, <1>1, <2>3
  <2> QED
    BY <2>1, <2>2, <2>3
<1>4. job' \in [Job -> JobRow]
  <2>1. job' = [j \in Job |-> job'[j]]
    BY <1>1
  <2> QED
    BY <1>3, <2>1
<1>5. /\ run' \in [Run -> RunState]
      /\ \A r \in Run : run'[r] = run[r] \/ (run'[r].phase = "claimed" /\ run'[r].job \in Job)
  <2>1. CASE UNCHANGED run
    BY <1>0, <2>1
  <2>2. ASSUME NEW slot \in [mine -> Free(w)],
               run' = [r \in Run |->
                         IF \E j \in mine : slot[j] = r THEN Claimed(CHOOSE j \in mine : slot[j] = r)
                         ELSE run[r]]
        PROVE  /\ run' \in [Run -> RunState]
               /\ \A r \in Run : run'[r] = run[r] \/ (run'[r].phase = "claimed" /\ run'[r].job \in Job)
    <3>1. ASSUME NEW r \in Run
          PROVE  /\ run'[r] \in RunState
                 /\ run'[r] = run[r] \/ (run'[r].phase = "claimed" /\ run'[r].job \in Job)
      <4>1. CASE \E j \in mine : slot[j] = r
        <5>1. PICK j \in mine : run'[r] = Claimed(j)
          BY <2>2, <4>1
        <5> QED
          BY <1>2, <5>1, WrittenRows DEF IInv
      <4>2. CASE ~\E j \in mine : slot[j] = r
        BY <1>0, <2>2, <4>2
      <4> QED
        BY <4>1, <4>2
    <3>2. run' = [r \in Run |-> run'[r]]
      BY <2>2
    <3> QED
      BY <3>1, <3>2
  <2> QED
    BY <1>1, <2>1, <2>2 DEF StartIn
<1> QED
  BY <1>0, <1>3, <1>4, <1>5

\* A claim leaves alone whatever a live run holds.
LEMMA ClaimIInv == ASSUME IInv, NEW w \in Worker, Claim(w) PROVE IInv'
<1>1. TypeOK'
  BY ClaimFacts, NoneAssumption DEF IInv, TypeOK
<1>2. \A r \in Run : run'[r].phase = "running" => run'[r] = run[r]
  BY ClaimFacts
<1>3. ASSUME NEW r \in Run, run'[r].phase = "running"
      PROVE  job'[run[r].job].status = "running" /\ job'[run[r].job].by = Owner(r)
  <2>1. run[r].phase = "running" /\ run[r].job \in Job /\ RowLocked(run[r].job)
    BY <1>2, <1>3, Shapes DEF IInv, RowLocked
  <2>2. run[r].job \notin Abandoned
    BY <2>1 DEF Abandoned
  <2>3. job'[run[r].job] = job[run[r].job]
    BY <2>1, <2>2, ClaimFacts
  <2> QED
    BY <2>1, <2>3 DEF IInv, LeaseHeld, Fence
<1>4. ASSUME NEW j \in Job
      PROVE  /\ job'[j].status \in {"queued", "failed"} => job'[j].attempts < MaxAttempts
             /\ job'[j].status = "done" => job[j].status = "done"
             /\ job'[j].status \notin {"done", "pruned"} => job[j].status \notin {"done", "pruned"}
  <2>1. CASE job'[j] = job[j]
    BY <2>1 DEF IInv, AttemptsLeft
  <2>2. CASE job'[j].status = "running" /\ job[j].status \in {"queued", "failed", "running"}
    BY <2>2
  <2>3. CASE job'[j].status = "dead" /\ j \in Abandoned
    BY <2>3 DEF Abandoned
  <2> QED
    BY <2>1, <2>2, <2>3, ClaimFacts
<1> QED
  BY <1>1, <1>2, <1>3, <1>4, QuietStep, ClaimFacts

-----------------------------------------------------------------------------
(* The ends of a run.                                                      *)

\* The only step that completes a job: its run is the only one that holds the
\* row, so no other goes on without a lease, and the effects are its first.
LEMMA FinishIInv == ASSUME IInv, NEW r \in Run, Finish(r) PROVE IInv'
<1> DEFINE j == run[r].job
           row == [job[j] EXCEPT !.status = "done", !.by = NoWorker]
<1>0. /\ run[r].phase = "running" /\ j \in Job /\ run[r] \in RunState
      /\ job[j].status = "running" /\ job[j] \in JobRow
      /\ job \in [Job -> JobRow] /\ run \in [Run -> RunState] /\ effects \in [Job -> Nat]
  BY Shapes DEF IInv, TypeOK, Finish, Fence
<1>1. row \in JobRow /\ row.status = "done"
  BY <1>0 DEF JobRow
<1>2. job' = [job EXCEPT ![j] = row] /\ effects' = [effects EXCEPT ![j] = @ + 1]
  BY <1>0 DEF Finish
<1>3. PICK v \in RunState : /\ run' = [run EXCEPT ![r] = v]
                           /\ v.phase \in {"after", "failed"} /\ v.job = j
  <2>1. PICK phase \in {"after", "failed"} : run' = [run EXCEPT ![r].phase = phase]
    BY DEF Finish
  <2> DEFINE v == [run[r] EXCEPT !.phase = phase]
  <2>2. v \in RunState /\ v.phase = phase /\ v.job = j
    BY <1>0 DEF RunState
  <2>3. run' = [run EXCEPT ![r] = v]
    BY <1>0, <2>1
  <2> HIDE DEF v
  <2> QED
    BY <2>2, <2>3
<1> HIDE DEF j, row
<1>4. /\ job'[j].status = "done" /\ effects'[j] = effects[j] + 1
      /\ \A k \in Job : k # j => job'[k] = job[k] /\ effects'[k] = effects[k]
      /\ run'[r].phase # "running" /\ \A q \in Run : q # r => run'[q] = run[q]
  BY <1>0, <1>1, <1>2, <1>3
<1>5. TypeOK'
  BY <1>0, <1>1, <1>2, <1>3, NoneAssumption DEF IInv, TypeOK
<1>6. AttemptsLeft'
  BY <1>4 DEF IInv, AttemptsLeft
<1>7. LeaseHeld' /\ OneRunAtATime'
  <2>1. \A q \in Run : run'[q].phase = "running" =>
            run'[q] = run[q] /\ run[q].job # j /\ run[q].job \in Job
    BY <1>0, <1>4, Shapes DEF IInv, OneRunAtATime, j
  <2> QED
    BY <1>4, <2>1 DEF IInv, LeaseHeld, Fence, OneRunAtATime
<1>8. EffectIffDone'
  BY <1>0, <1>4 DEF IInv, EffectIffDone
<1> QED
  BY <1>5, <1>6, <1>7, <1>8 DEF IInv

\* The failure report finds a row it still owns, or changes nothing.
LEMMA RecordIInv == ASSUME IInv, NEW r \in Run, RecordFailure(r) PROVE IInv'
<1> DEFINE j == run[r].job
<1>0. /\ run[r].phase = "failed" /\ j \in Job /\ run[r].permanent \in BOOLEAN
      /\ ~RowLocked(j) /\ Stop(r) /\ effects' = effects /\ job \in [Job -> JobRow]
  BY Shapes DEF IInv, TypeOK, RecordFailure, RunState
<1>1. CASE ~Fence(j, Owner(r))
  BY <1>0, <1>1, RunStops DEF RecordFailure
<1>2. CASE Fence(j, Owner(r))
  <2> DEFINE row == AfterFailure(j, run[r].permanent)
  <2>1. job' = [job EXCEPT ![j] = row]
    BY <1>2 DEF RecordFailure
  <2>2. /\ row \in JobRow /\ row.status \in {"dead", "failed"}
        /\ row.status = "failed" => row.attempts < MaxAttempts
    BY <1>0, WrittenRows DEF IInv
  <2> HIDE DEF row
  <2>3. job'[j] = row /\ \A k \in Job : k # j => job'[k] = job[k]
    BY <1>0, <2>1
  <2>4. /\ run' \in [Run -> RunState]
        /\ \A q \in Run : q # r => run'[q] = run[q]
        /\ run'[r].phase \in {"idle", "failed"}
        /\ run'[r].phase = "idle" <=> run'[r].job = NoJob
    BY <1>0, RunLeaves DEF IInv
  <2>5. TypeOK'
    BY <1>0, <2>1, <2>2, <2>4 DEF IInv, TypeOK
  <2>6. \A q \in Run : run'[q].phase = "running" => run'[q] = run[q]
    BY <2>4
  <2>7. ASSUME NEW q \in Run, run'[q].phase = "running"
        PROVE  job'[run[q].job].status = "running" /\ job'[run[q].job].by = Owner(q)
    <3>1. run[q].phase = "running" /\ run[q].job \in Job /\ run[q].job # j
      BY <1>0, <2>6, <2>7, Shapes DEF IInv, RowLocked
    <3> QED
      BY <2>3, <3>1 DEF IInv, LeaseHeld, Fence
  <2>8. ASSUME NEW k \in Job
        PROVE  /\ job'[k].status \in {"queued", "failed"} => job'[k].attempts < MaxAttempts
               /\ job'[k].status = "done" => job[k].status = "done"
               /\ job'[k].status \notin {"done", "pruned"} => job[k].status \notin {"done", "pruned"}
    BY <1>2, <2>2, <2>3 DEF IInv, AttemptsLeft, Fence
  <2> QED
    BY <1>0, <2>5, <2>6, <2>7, <2>8, QuietStep
<1> QED
  BY <1>1, <1>2

-----------------------------------------------------------------------------
(* The theorems.                                                           *)

LEMMA StepIInv == IInv /\ [Next]_vars => IInv'
<1> SUFFICES ASSUME IInv, [Next]_vars PROVE IInv'
  OBVIOUS
<1>1. ASSUME NEW j \in Job, Enqueue(j) \/ RunAtComes(j) \/ LeaseRunsOut(j) \/ Prune(j) PROVE IInv'
  BY <1>1, WorldIInv
<1>2. ASSUME NEW w \in Worker, Claim(w) PROVE IInv'
  BY <1>2, ClaimIInv
<1>3. ASSUME NEW w \in Worker, Crash(w) PROVE IInv'
  BY <1>3, CrashIInv
<1>4. ASSUME NEW r \in Run, Open(r) PROVE IInv'
  BY <1>4, OpenIInv
<1>5. ASSUME NEW r \in Run,
             Lost(r) \/ OpenFails(r) \/ Fail(r) \/ AfterCommit(r) \/ FailureNotRecorded(r)
      PROVE  IInv'
  BY <1>5, RunStops DEF Lost, OpenFails, Fail, AfterCommit, FailureNotRecorded
<1>6. ASSUME NEW r \in Run, Finish(r) PROVE IInv'
  BY <1>6, FinishIInv
<1>7. ASSUME NEW r \in Run, RecordFailure(r) PROVE IInv'
  BY <1>7, RecordIInv
<1>8. CASE UNCHANGED vars
  BY <1>8 DEF vars, IInv, TypeOK, AttemptsLeft, LeaseHeld, Fence, OneRunAtATime, EffectIffDone
<1> QED
  BY <1>1, <1>2, <1>3, <1>4, <1>5, <1>6, <1>7, <1>8 DEF Next, Begin, Execute, Record

THEOREM Inductive == Spec => []IInv
BY InitIInv, StepIInv, PTL DEF Spec

\* Rows and runs keep their types: attempts never pass max_attempts.
THEOREM TypeCorrect == Spec => []TypeOK
<1>1. IInv => TypeOK
  BY DEF IInv
<1> QED BY <1>1, Inductive, PTL

\* No two runs execute one job at a time, even when a run outlives its lease.
THEOREM RunsExclude == Spec => []OneRunAtATime
<1>1. IInv => OneRunAtATime
  BY DEF IInv
<1> QED BY <1>1, Inductive, PTL

\* A done job's writes were committed once, any other's never.
THEOREM EffectsExact == Spec => []EffectIffDone
<1>1. IInv => EffectIffDone
  BY DEF IInv
<1> QED BY <1>1, Inductive, PTL

\* A row that waits for a retry has an attempt left.
THEOREM AttemptsBounded == Spec => []AttemptsLeft
<1>1. IInv => AttemptsLeft
  BY DEF IInv
<1> QED BY <1>1, Inductive, PTL

\* A run that reaches its end still owns its row: 'done' is never refused by the
\* fence (runJob's second LeaseLost cannot happen).
THEOREM LeaseSurvives == Spec => []LeaseHeld
<1>1. IInv => LeaseHeld
  BY DEF IInv
<1> QED BY <1>1, Inductive, PTL

-----------------------------------------------------------------------------
(* What a step does to the status of a job.                                *)

\* Every step keeps each job's place in its life - open, done, dead - except the
\* three that move it: Enqueue and Finish one job, Claim and RecordFailure to
\* the dead.
LEMMA StatusSteps ==
    ASSUME IInv, [Next]_vars
    PROVE  \/ /\ effects' = effects
              /\ \A j \in Job :
                    \/ job'[j].status = job[j].status
                    \/ {job[j].status, job'[j].status} \subseteq {"queued", "running", "failed"}
                    \/ job[j].status \in {"queued", "running", "failed"} /\ job'[j].status = "dead"
                    \/ job[j].status \in {"done", "dead"} /\ job'[j].status = "pruned"
           \/ /\ effects' = effects
              /\ \E j \in Job : /\ job[j].status = "none" /\ job'[j].status = "queued"
                                /\ \A k \in Job : k # j => job'[k] = job[k]
           \/ \E j \in Job : /\ job[j].status = "running" /\ job'[j].status = "done"
                             /\ effects' = [effects EXCEPT ![j] = 1]
                             /\ \A k \in Job : k # j => job'[k] = job[k]
<1> DEFINE Quiet == /\ effects' = effects
                    /\ \A j \in Job :
                         \/ job'[j].status = job[j].status
                         \/ {job[j].status, job'[j].status} \subseteq {"queued", "running", "failed"}
                         \/ job[j].status \in {"queued", "running", "failed"} /\ job'[j].status = "dead"
                         \/ job[j].status \in {"done", "dead"} /\ job'[j].status = "pruned"
<1>0. job \in [Job -> JobRow] /\ \A j \in Job : job[j] \in JobRow
  BY DEF IInv, TypeOK
<1>1. ASSUME NEW j \in Job, Enqueue(j)
      PROVE  /\ effects' = effects
             /\ job[j].status = "none" /\ job'[j].status = "queued"
             /\ \A k \in Job : k # j => job'[k] = job[k]
  <2>1. PICK due \in BOOLEAN : job' = [job EXCEPT ![j] = Queued(due)]
    BY <1>1 DEF Enqueue
  <2>2. Queued(due).status = "queued"
    BY DEF Queued
  <2> QED
    BY <1>0, <1>1, <2>1, <2>2 DEF Enqueue
<1>2. ASSUME NEW j \in Job, RunAtComes(j) \/ LeaseRunsOut(j) \/ Prune(j) PROVE Quiet
  BY <1>0, <1>2 DEF RunAtComes, LeaseRunsOut, Prune, JobRow
<1>3. ASSUME NEW w \in Worker, Claim(w) PROVE Quiet
  <2>1. ASSUME NEW j \in Abandoned PROVE job[j].status = "running"
    BY DEF Abandoned
  <2> QED
    BY <1>3, <2>1, ClaimFacts
<1>4. ASSUME NEW w \in Worker, Crash(w) PROVE Quiet
  BY <1>0, <1>4 DEF Crash, JobRow
<1>5. ASSUME NEW r \in Run,
             Open(r) \/ Lost(r) \/ OpenFails(r) \/ Fail(r) \/ AfterCommit(r) \/ FailureNotRecorded(r)
      PROVE  Quiet
  BY <1>5 DEF Open, Lost, OpenFails, Fail, AfterCommit, FailureNotRecorded
<1>6. ASSUME NEW r \in Run, RecordFailure(r) PROVE Quiet
  <2>1. run[r].job \in Job /\ run[r].permanent \in BOOLEAN
    BY <1>6, Shapes DEF IInv, RecordFailure, RunState
  <2>2. AfterFailure(run[r].job, run[r].permanent).status \in {"dead", "failed"}
    BY <2>1, WrittenRows DEF IInv
  <2> QED
    BY <1>0, <1>6, <2>1, <2>2 DEF RecordFailure, Fence
<1>7. ASSUME NEW r \in Run, Finish(r)
      PROVE  \E j \in Job : /\ job[j].status = "running" /\ job'[j].status = "done"
                            /\ effects' = [effects EXCEPT ![j] = 1]
                            /\ \A k \in Job : k # j => job'[k] = job[k]
  <2> DEFINE j == run[r].job
  <2>1. j \in Job /\ job[j].status = "running" /\ effects[j] = 0
    BY <1>7, Shapes DEF IInv, Finish, Fence, EffectIffDone
  <2>2. effects' = [effects EXCEPT ![j] = 1]
    BY <1>7, <2>1 DEF Finish
  <2> QED
    BY <1>0, <1>7, <2>1, <2>2 DEF Finish, JobRow
<1>8. CASE UNCHANGED vars
  BY <1>8 DEF vars
<1> QED
  BY <1>1, <1>2, <1>3, <1>4, <1>5, <1>6, <1>7, <1>8 DEF Next, Begin, Execute, Record

\* A finished job is never reopened: by no late report, lease or second run.
THEOREM FinishedStays == Spec => FinishedIsFinal
<1>1. IInv /\ [Next]_vars =>
        [\A j \in Job : job[j].status \in {"done", "dead", "pruned"} =>
            job'[j].status \in {job[j].status, "pruned"}]_vars
  BY StatusSteps
<1> QED
  BY <1>1, Inductive, PTL DEF Spec, FinishedIsFinal

-----------------------------------------------------------------------------
(* One run of the kind per process: the fence then names the attempt.      *)

\* Whoever passes the fence runs the row's current attempt.
AttemptCurrent ==
    \A r \in Run : (run[r].job # NoJob /\ Fence(run[r].job, Owner(r)))
                        => run[r].attempt = job[run[r].job].attempts

\* A run that goes on with its attempt stays current if its row, as long as it
\* passes the fence, keeps the attempt it has.
LEMMA StaysCurrent ==
    ASSUME IInv, AttemptCurrent,
           NEW r \in Run, run'[r].job # NoJob, Fence(run[r].job, Owner(r))',
           run'[r].job = run[r].job, run'[r].attempt = run[r].attempt,
           Fence(run[r].job, Owner(r)),
           job'[run[r].job].attempts = job[run[r].job].attempts
    PROVE  run'[r].attempt = job'[run'[r].job].attempts
BY DEF AttemptCurrent

\* A claim finds the only slot of its process idle, so nothing the process is
\* still busy with can take the new lease for its own.
LEMMA ClaimCurrent ==
    ASSUME IInv, AttemptCurrent, Slots = 1, NEW w \in Worker, Claim(w)
    PROVE  AttemptCurrent'
<1>0. job \in [Job -> JobRow] /\ run \in [Run -> RunState]
  BY DEF IInv, TypeOK
<1>1. PICK mine \in SUBSET Job :
        /\ \A j \in mine : Due(j) /\ ~RowLocked(j)
        /\ job' = [j \in Job |-> CASE j \in mine -> Leased(j, w)
                                  [] j \in Abandoned -> DeadLettered(j)
                                  [] OTHER -> job[j]]
        /\ StartIn(w, mine)
  BY DEF Claim, Picks
<1>1a. \A j \in mine : j \notin Abandoned
  BY <1>0, <1>1, AttemptsAssumption DEF Due, Abandoned, JobRow, IInv, AttemptsLeft
<1>2. PICK f \in Run : Free(w) = {f} /\ \A r \in Run : Owner(r) = w => r = f
  <2>1. \A r \in Run : r = <<Owner(r), 1>>
    BY SlotsAssumption DEF Run, Owner
  <2>2. PICK f \in Run : f \in Free(w)
    BY DEF Claim, Free
  <2> QED
    BY <2>1, <2>2 DEF Free
<1>3. run[f].phase = "idle" /\ run[f].job = NoJob
  BY <1>2, Shapes DEF Free, IInv
<1>4. \/ UNCHANGED run
      \/ \E slot \in [mine -> {f}] :
            run' = [r \in Run |->
                      IF \E j \in mine : slot[j] = r THEN Claimed(CHOOSE j \in mine : slot[j] = r)
                      ELSE run[r]]
  BY <1>1, <1>2 DEF StartIn
<1>5. \A r \in Run : \/ run'[r] = run[r]
                     \/ r = f /\ \E j \in mine : run'[r] = Claimed(j)
  <2>1. ASSUME NEW slot \in [mine -> {f}],
               run' = [r \in Run |->
                      IF \E j \in mine : slot[j] = r THEN Claimed(CHOOSE j \in mine : slot[j] = r)
                      ELSE run[r]],
               NEW r \in Run
        PROVE  run'[r] = run[r] \/ (r = f /\ \E j \in mine : run'[r] = Claimed(j))
    <3>1. CASE \E j \in mine : slot[j] = r
      <4>1. PICK j \in mine : run'[r] = Claimed(j) /\ slot[j] = r
        BY <2>1, <3>1
      <4> QED BY <4>1
    <3>2. CASE ~\E j \in mine : slot[j] = r
      BY <2>1, <3>2
    <3> QED BY <3>1, <3>2
  <2> QED BY <1>4, <2>1
<1>6. SUFFICES ASSUME NEW r \in Run, run'[r].job # NoJob, Fence(run[r].job, Owner(r))'
      PROVE  run'[r].attempt = job'[run'[r].job].attempts
  BY DEF AttemptCurrent
<1>7. CASE r = f
  <2>1. PICK j \in mine : run'[r] = Claimed(j)
    BY <1>3, <1>5, <1>6, <1>7
  <2>2. job'[j] = Leased(j, w) /\ job[j] \in JobRow
    BY <1>0, <1>1, <1>1a
  <2>3. Leased(j, w).attempts = job[j].attempts + 1
    BY <2>2 DEF Leased, JobRow
  <2> QED
    BY <2>1, <2>2, <2>3 DEF Claimed
<1>8. CASE r # f
  <2> DEFINE j == run[r].job
  <2>1. run'[r] = run[r] /\ Owner(r) # w /\ j \in Job
    BY <1>2, <1>5, <1>6, <1>8, Shapes DEF IInv
  <2>2. job[j] \in JobRow /\ job'[j].by = Owner(r) /\ job'[j].status = "running"
    BY <1>0, <1>6, <2>1 DEF Fence
  <2>3. j \notin mine
    <3>1. j \in mine => job'[j].by = w
      BY <1>1, <1>1a, <2>2 DEF Leased, JobRow
    <3> QED BY <2>1, <2>2, <3>1
  <2>4. j \notin Abandoned
    <3>1. j \in Abandoned => job'[j].status = "dead"
      BY <1>1, <2>1, <2>3, WrittenRows DEF IInv
    <3> QED BY <2>2, <3>1
  <2>5. job'[j] = job[j]
    BY <1>1, <2>1, <2>3, <2>4
  <2> QED
    BY <1>6, <2>1, <2>5, StaysCurrent DEF Fence
<1> QED
  BY <1>7, <1>8

\* No step of a run, and nothing the world does, starts an attempt.
LEMMA StepCurrent == IInv /\ AttemptCurrent /\ Slots = 1 /\ [Next]_vars => AttemptCurrent'
<1> SUFFICES ASSUME IInv, AttemptCurrent, Slots = 1, [Next]_vars PROVE AttemptCurrent'
  OBVIOUS
<1>0. /\ job \in [Job -> JobRow] /\ run \in [Run -> RunState]
      /\ \A r \in Run : run[r] \in RunState /\ Owner(r) \in Worker
      /\ \A r \in Run : run[r].job # NoJob => run[r].job \in Job
      /\ \A j \in Job : job[j] \in JobRow
  BY Shapes DEF IInv, TypeOK
<1> DEFINE Kept ==
      /\ \A r \in Run : \/ run'[r].job = NoJob
                        \/ run'[r].job = run[r].job /\ run'[r].attempt = run[r].attempt
      /\ \A j \in Job : \/ job'[j].status # "running" \/ job'[j].by \notin Worker
                        \/ job'[j].status = job[j].status /\ job'[j].by = job[j].by
                           /\ job'[j].attempts = job[j].attempts
<1>1. ASSUME Kept PROVE AttemptCurrent'
  <2> SUFFICES ASSUME NEW r \in Run, run'[r].job # NoJob, Fence(run[r].job, Owner(r))'
               PROVE  run'[r].attempt = job'[run'[r].job].attempts
    BY DEF AttemptCurrent
  <2>1. run'[r].job = run[r].job /\ run'[r].attempt = run[r].attempt /\ run[r].job \in Job
    BY <1>0, <1>1
  <2>2. job'[run[r].job].status = "running" /\ job'[run[r].job].by = Owner(r)
    BY <2>1 DEF Fence
  <2>3. /\ Fence(run[r].job, Owner(r))
        /\ job'[run[r].job].attempts = job[run[r].job].attempts
    BY <1>0, <1>1, <2>1, <2>2 DEF Fence
  <2> QED BY <2>1, <2>3, StaysCurrent
<1>2. ASSUME NEW j \in Job, Enqueue(j) \/ RunAtComes(j) \/ LeaseRunsOut(j) \/ Prune(j) PROVE Kept
  <2>1. run' = run /\ \A k \in Job : k # j => job'[k] = job[k]
    BY <1>0, <1>2 DEF Enqueue, RunAtComes, LeaseRunsOut, Prune
  <2>2. CASE Enqueue(j)
    <3>1. job'[j].status = "queued" BY <1>0, <2>2 DEF Enqueue, Queued
    <3> QED BY <2>1, <3>1
  <2>3. CASE RunAtComes(j) \/ LeaseRunsOut(j) \/ Prune(j)
    <3>1. \/ job'[j].status # "running"
          \/ job'[j].status = job[j].status /\ job'[j].by = job[j].by
             /\ job'[j].attempts = job[j].attempts
      BY <1>0, <2>3 DEF RunAtComes, LeaseRunsOut, Prune, JobRow
    <3> QED BY <2>1, <3>1
  <2> QED BY <1>2, <2>2, <2>3
<1>3. ASSUME NEW w \in Worker, Crash(w) PROVE Kept
  <2>1. \A r \in Run : run'[r] = run[r] \/ run'[r] = Idle
    BY <1>0, <1>3 DEF Crash
  <2>2. \A j \in Job : job'[j] = job[j] \/ job'[j].by = NoWorker
    BY <1>0, <1>3 DEF Crash, JobRow
  <2> QED BY <2>1, <2>2, NoneAssumption DEF Idle
<1>4. ASSUME NEW r \in Run, Begin(r) \/ Execute(r) \/ AfterCommit(r) \/ Record(r)
      PROVE  \A q \in Run : \/ run'[q].job = NoJob
                            \/ run'[q].job = run[q].job /\ run'[q].attempt = run[q].attempt
  BY <1>0, <1>4 DEF Begin, Execute, Record, Open, Lost, OpenFails, Fail, Finish, AfterCommit,
                    RecordFailure, FailureNotRecorded, Stop, Idle, RunState
<1>5. ASSUME NEW r \in Run, Begin(r) \/ Execute(r) \/ AfterCommit(r) \/ Record(r)
      PROVE  \A j \in Job : job'[j].status # "running" \/ job'[j] = job[j]
  <2>1. CASE Finish(r)
    BY <1>0, <2>1 DEF Finish, JobRow
  <2>2. CASE RecordFailure(r)
    <3>1. run[r].job \in Job /\ run[r].permanent \in BOOLEAN
      BY <2>2, Shapes DEF IInv, RecordFailure, RunState
    <3>2. AfterFailure(run[r].job, run[r].permanent).status \in {"dead", "failed"}
      BY <3>1, WrittenRows DEF IInv
    <3> QED BY <1>0, <2>2, <3>1, <3>2 DEF RecordFailure
  <2>3. CASE job' = job
    BY <2>3
  <2> QED
    BY <1>5, <2>1, <2>2, <2>3
       DEF Begin, Execute, Record, Open, Lost, OpenFails, Fail, AfterCommit, FailureNotRecorded
<1>6. ASSUME NEW w \in Worker, Claim(w) PROVE AttemptCurrent'
  BY <1>6, ClaimCurrent
<1>7. CASE UNCHANGED vars
  BY <1>7 DEF vars, AttemptCurrent, Fence
<1> QED
  BY <1>1, <1>2, <1>3, <1>4, <1>5, <1>6, <1>7 DEF Next

\* "The lease was taken over: this run must not commit anything": with one run
\* of the kind per process, only the current attempt's run writes the row.  Two
\* slots break it (run jobs_fence), so the assumption is needed.
THEOREM StaleWritesNothing == Slots = 1 /\ Spec => StaleRunWritesNothing
<1> SUFFICES ASSUME Slots = 1 PROVE Spec => StaleRunWritesNothing
  OBVIOUS
<1>1. Init => AttemptCurrent
  BY DEF Init, AttemptCurrent, Idle
<1>2. IInv /\ AttemptCurrent /\ [Next]_vars =>
        [\A r \in Run :
            LET j == run[r].job IN
            (j # NoJob /\ run'[r] # run[r] /\ job'[j].status # job[j].status)
                => run[r].attempt = job[j].attempts]_vars
  <2> SUFFICES ASSUME IInv, AttemptCurrent, Next, NEW r \in Run, run[r].job # NoJob, run'[r] # run[r],
                      job'[run[r].job].status # job[run[r].job].status
               PROVE  Fence(run[r].job, Owner(r))
    BY DEF AttemptCurrent
  <2>0. /\ job \in [Job -> JobRow] /\ run \in [Run -> RunState]
        /\ run[r].job \in Job /\ run[r].phase # "idle"
    BY Shapes DEF IInv, TypeOK
  <2>1. ASSUME NEW w \in Worker, Claim(w) PROVE FALSE
    <3>1. ASSUME NEW mine, NEW slot \in [mine -> Free(w)],
                 run' = [q \in Run |->
                     IF \E j \in mine : slot[j] = q THEN Claimed(CHOOSE j \in mine : slot[j] = q)
                     ELSE run[q]]
          PROVE  FALSE
      BY <2>0, <3>1 DEF Free
    <3>2. \E mine : StartIn(w, mine)
      BY <2>1 DEF Claim
    <3> QED BY <2>0, <3>1, <3>2 DEF StartIn
  <2>2. ASSUME NEW w \in Worker, Crash(w) PROVE FALSE
    BY <2>0, <2>2 DEF Crash, JobRow
  <2>3. ASSUME NEW q \in Run, Begin(q) \/ Execute(q) \/ AfterCommit(q) \/ Record(q)
        PROVE  Fence(run[r].job, Owner(r))
    <3>1. q = r
      BY <2>0, <2>3 DEF Begin, Execute, Record, Open, Lost, OpenFails, Fail, Finish, AfterCommit,
                        RecordFailure, FailureNotRecorded, Stop
    <3> QED
      BY <2>0, <2>3, <3>1 DEF Begin, Execute, Record, Open, Lost, OpenFails, Fail, Finish,
                        AfterCommit, RecordFailure, FailureNotRecorded
  <2>4. ASSUME NEW j \in Job, Enqueue(j) \/ RunAtComes(j) \/ LeaseRunsOut(j) \/ Prune(j)
        PROVE  FALSE
    BY <2>4 DEF Enqueue, RunAtComes, LeaseRunsOut, Prune
  <2> QED BY <2>1, <2>2, <2>3, <2>4 DEF Next
<1>3. IInv /\ AttemptCurrent /\ [Next]_vars => AttemptCurrent'
  BY StepCurrent
<1> QED
  BY <1>1, <1>2, <1>3, Inductive, PTL DEF Spec, StaleRunWritesNothing

-----------------------------------------------------------------------------
(* The queue implements the promise.                                       *)

\* A job's outcome, status by status.
LEMMA OutcomeValues ==
    ASSUME NEW j \in Job
    PROVE  /\ job[j].status = "none" => Outcome(j) = "none"
           /\ job[j].status \in {"queued", "running", "failed"} => Outcome(j) = "open"
           /\ job[j].status = "dead" => Outcome(j) = "dead"
           /\ job[j].status = "done" => Outcome(j) = "done"
           /\ job[j].status = "pruned" => Outcome(j) = IF effects[j] > 0 THEN "done" ELSE "dead"
BY DEF Outcome

LEMMA OutcomeValuesNext ==
    ASSUME NEW j \in Job
    PROVE  /\ job'[j].status = "none" => Outcome(j)' = "none"
           /\ job'[j].status \in {"queued", "running", "failed"} => Outcome(j)' = "open"
           /\ job'[j].status = "dead" => Outcome(j)' = "dead"
           /\ job'[j].status = "done" => Outcome(j)' = "done"
           /\ job'[j].status = "pruned" => Outcome(j)' = IF effects'[j] > 0 THEN "done" ELSE "dead"
BY DEF Outcome

LEMMA StepRefines == IInv /\ [Next]_vars => [Promise!Next]_(Promise!vars)
<1> SUFFICES ASSUME IInv, [Next]_vars PROVE [Promise!Next]_(Promise!vars)
  OBVIOUS
<1> DEFINE o == [j \in Job |-> Outcome(j)]
<1>0. /\ \A j \in Job : job[j] \in JobRow /\ effects[j] \in Nat
      /\ \A j \in Job : job[j].status = "done" => effects[j] = 1
      /\ \A j \in Job : job[j].status \notin {"done", "pruned"} => effects[j] = 0
  BY Shapes DEF IInv, EffectIffDone
<1>1. /\ \A j \in Job : o[j] = Outcome(j) /\ o'[j] = Outcome(j)'
      /\ o' = [j \in Job |-> Outcome(j)']
  OBVIOUS
<1>2. ASSUME NEW j \in Job, job'[j] = job[j], effects'[j] = effects[j]
      PROVE  Outcome(j)' = Outcome(j)
  BY <1>2 DEF Outcome
<1>3. CASE /\ effects' = effects
           /\ \E j \in Job : /\ job[j].status = "none" /\ job'[j].status = "queued"
                             /\ \A k \in Job : k # j => job'[k] = job[k]
  <2>1. PICK j \in Job : /\ job[j].status = "none" /\ job'[j].status = "queued"
                        /\ \A k \in Job : k # j => job'[k] = job[k]
    BY <1>3
  <2>2. Outcome(j) = "none" /\ Outcome(j)' = "open"
    BY <2>1, OutcomeValues, OutcomeValuesNext
  <2>3. o' = [o EXCEPT ![j] = "open"]
    BY <1>1, <1>2, <1>3, <2>1, <2>2
  <2>4. Promise!Ask(j)
    BY <1>1, <1>3, <2>2, <2>3 DEF Promise!Ask
  <2> QED
    BY <2>4 DEF Promise!Next
<1>4. CASE \E j \in Job : /\ job[j].status = "running" /\ job'[j].status = "done"
                         /\ effects' = [effects EXCEPT ![j] = 1]
                         /\ \A k \in Job : k # j => job'[k] = job[k]
  <2>1. PICK j \in Job : /\ job[j].status = "running" /\ job'[j].status = "done"
                        /\ effects' = [effects EXCEPT ![j] = 1]
                        /\ \A k \in Job : k # j => job'[k] = job[k]
    BY <1>4
  <2>2. Outcome(j) = "open" /\ Outcome(j)' = "done"
    BY <2>1, OutcomeValues, OutcomeValuesNext
  <2>3. \A k \in Job : k # j => Outcome(k)' = Outcome(k)
    BY <1>2, <2>1 DEF IInv, TypeOK
  <2>4. o' = [o EXCEPT ![j] = "done"]
    BY <1>1, <2>2, <2>3
  <2>5. Promise!Complete(j)
    BY <1>1, <2>1, <2>2, <2>4 DEF Promise!Complete
  <2> QED
    BY <2>5 DEF Promise!Next
<1>5. CASE /\ effects' = effects
           /\ \A j \in Job :
                 \/ job'[j].status = job[j].status
                 \/ {job[j].status, job'[j].status} \subseteq {"queued", "running", "failed"}
                 \/ job[j].status \in {"queued", "running", "failed"} /\ job'[j].status = "dead"
                 \/ job[j].status \in {"done", "dead"} /\ job'[j].status = "pruned"
  <2> DEFINE lost == {j \in Job : job[j].status \in {"queued", "running", "failed"} /\ job'[j].status = "dead"}
  <2>1. \A j \in lost : Outcome(j) = "open" /\ Outcome(j)' = "dead"
    BY OutcomeValues, OutcomeValuesNext
  <2>2. ASSUME NEW j \in Job \ lost PROVE Outcome(j)' = Outcome(j)
    <3>1. CASE job'[j].status = job[j].status
      BY <1>5, <3>1 DEF Outcome
    <3>2. CASE {job[j].status, job'[j].status} \subseteq {"queued", "running", "failed"}
      BY <3>2, OutcomeValues, OutcomeValuesNext
    <3>3. CASE job[j].status = "done" /\ job'[j].status = "pruned"
      BY <1>0, <1>5, <3>3, OutcomeValues, OutcomeValuesNext
    <3>4. CASE job[j].status = "dead" /\ job'[j].status = "pruned"
      BY <1>0, <1>5, <3>4, OutcomeValues, OutcomeValuesNext
    <3> QED
      BY <1>5, <3>1, <3>2, <3>3, <3>4
  <2>3. o' = [j \in Job |-> IF j \in lost THEN "dead" ELSE o[j]]
    BY <1>1, <2>1, <2>2
  <2>4. CASE lost = {}
    <3>1. o' = o
      BY <2>3, <2>4
    <3> QED
      BY <1>5, <3>1 DEF Promise!vars
  <2>5. CASE lost # {}
    <3>1. lost \in (SUBSET {j \in Job : o[j] = "open"}) \ {{}}
      BY <1>1, <2>1, <2>5
    <3>2. Promise!GiveUp
      BY <1>5, <2>3, <3>1 DEF Promise!GiveUp
    <3> QED
      BY <3>2 DEF Promise!Next
  <2> QED
    BY <2>4, <2>5
<1> QED
  BY <1>3, <1>4, <1>5, StatusSteps

\* Every behaviour of the queue is one JobOutcome allows: a job takes effect at
\* most once, exactly when it is done.
THEOREM Refines == Spec => KeepsPromise
<1>1. Init => Promise!Init
  BY DEF Init, Promise!Init, Outcome, Absent
<1> QED
  BY <1>1, StepRefines, Inductive, PTL DEF Spec, KeepsPromise, Promise!Spec
-----------------------------------------------------------------------------
(* Sums and the hand-out, by the least counterexample: what holds of no    *)
(* least number holds of all.                                              *)

\* A set of naturals has a least one.
LEMMA LeastNatural ==
    ASSUME NEW T \in SUBSET Nat, T # {}
    PROVE  \E x \in T : \A y \in T : x <= y
<1> DEFINE R == {ss \in Nat \X Nat : ss[1] < ss[2]}
<1>1. IsWellFoundedOn(R, Nat)
  BY NatLessThanWellFounded DEF OpToRel
<1>2. PICK x \in T : \A y \in T : ~(<<y, x>> \in R)
  <2> HIDE DEF R
  <2> QED BY <1>1, WFMin
<1>3. ASSUME NEW y \in T PROVE x <= y
  <2>1. ~(<<y, x>> \in R) /\ x \in Nat /\ y \in Nat
    BY <1>2
  <2> QED BY <2>1
<1> QED BY <1>3

\* The sums of f over parts of its domain, as SumFunction computes them.
SumRule(f, iter, s) ==
    IF s = {} THEN 0 ELSE LET x == CHOOSE x \in s : TRUE IN f[x] + iter[s \ {x}]
Sums(f) == LET iter[s \in SUBSET DOMAIN f] == SumRule(f, iter, s) IN iter

\* f summed over its parts of at most n elements.
SumsTo(f, n, g) ==
    g = [s \in {s \in SUBSET DOMAIN f : Cardinality(s) <= n} |-> SumRule(f, g, s)]

LEMMA SumFunctionIs == ASSUME NEW f PROVE SumFunction(f) = Sums(f)[DOMAIN f]
BY DEF SumFunction, SumFunctionOnSet, FoldFunctionOnSet, MapThenFoldSet, Sums, SumRule

LEMMA PartCardinality ==
    ASSUME NEW S, IsFiniteSet(S), NEW s \in SUBSET S
    PROVE  /\ IsFiniteSet(s) /\ Cardinality(s) \in Nat /\ Cardinality(s) <= Cardinality(S)
           /\ Cardinality(s) = 0 <=> s = {}
           /\ \A x \in s : Cardinality(s \ {x}) = Cardinality(s) - 1 /\ s \ {x} \in SUBSET S
BY FS_Subset, FS_CardinalityType, FS_EmptySet, FS_RemoveElement

LEMMA SumsExist ==
    ASSUME NEW f, IsFiniteSet(DOMAIN f)
    PROVE  \A n \in Nat : \E g : SumsTo(f, n, g)
<1> DEFINE S == DOMAIN f
           Parts(n) == {s \in SUBSET S : Cardinality(s) <= n}
           Bad == {n \in Nat : ~ \E g : SumsTo(f, n, g)}
<1>1. SUFFICES ASSUME Bad # {} PROVE FALSE
  OBVIOUS
<1>2. PICK n \in Bad : \A m \in Bad : n <= m
  <2>1. Bad \in SUBSET Nat
    OBVIOUS
  <2> HIDE DEF Bad
  <2> QED BY <1>1, <2>1, LeastNatural
<1>3. n # 0
  <2>1. Parts(0) = {{}}
    <3>1. \A s \in SUBSET S : Cardinality(s) \in Nat /\ (Cardinality(s) = 0 <=> s = {})
      BY PartCardinality
    <3>2. {} \in SUBSET S
      OBVIOUS
    <3> QED BY <3>1, <3>2
  <2> DEFINE g == [s \in Parts(0) |-> 0]
  <2>2. g = [s \in Parts(0) |-> SumRule(f, g, s)]
    BY <2>1 DEF SumRule
  <2>3. SumsTo(f, 0, g)
    BY <2>2 DEF SumsTo
  <2> QED BY <2>3
<1>4. PICK g : SumsTo(f, n - 1, g)
  <2>1. n - 1 \in Nat /\ n - 1 < n
    BY <1>3
  <2> QED BY <1>2, <2>1
<1> DEFINE h == [s \in Parts(n) |-> SumRule(f, g, s)]
<1>5. DOMAIN g = Parts(n - 1) /\ \A s \in Parts(n - 1) : g[s] = SumRule(f, g, s)
  BY <1>4 DEF SumsTo
<1>6. Parts(n - 1) \subseteq Parts(n)
  BY PartCardinality
<1>7. \A s \in Parts(n - 1) : h[s] = g[s]
  BY <1>5, <1>6
<1>8. ASSUME NEW s \in Parts(n) PROVE SumRule(f, h, s) = SumRule(f, g, s)
  <2>1. CASE s = {}
    BY <2>1 DEF SumRule
  <2>2. CASE s # {}
    <3> DEFINE x == CHOOSE x \in s : TRUE
    <3>1. x \in s
      BY <2>2
    <3>2. s \ {x} \in Parts(n - 1)
      BY <3>1, PartCardinality
    <3> HIDE DEF h
    <3> QED BY <1>7, <2>2, <3>2 DEF SumRule
  <2> QED BY <2>1, <2>2
<1>9. h = [s \in Parts(n) |-> SumRule(f, h, s)]
  BY <1>8
<1>10. SumsTo(f, n, h)
  BY <1>9 DEF SumsTo
<1> QED BY <1>2, <1>10

LEMMA SumsFacts ==
    ASSUME NEW f, IsFiniteSet(DOMAIN f)
    PROVE  /\ Sums(f)[{}] = 0
           /\ \A s \in SUBSET DOMAIN f : s # {} =>
                 LET x == CHOOSE x \in s : TRUE
                 IN  x \in s /\ Sums(f)[s] = f[x] + Sums(f)[s \ {x}]
<1> DEFINE S == DOMAIN f
           Rule(g) == g = [s \in SUBSET S |-> SumRule(f, g, s)]
<1>1. Cardinality(S) \in Nat
  BY FS_CardinalityType
<1>2. SUBSET S = {s \in SUBSET S : Cardinality(s) <= Cardinality(S)}
  BY PartCardinality
<1>3. \E g : Rule(g)
  <2>1. PICK g : SumsTo(f, Cardinality(S), g)
    BY <1>1, SumsExist
  <2> QED BY <1>2, <2>1 DEF SumsTo
<1>4. Sums(f) = CHOOSE g : Rule(g)
  BY DEF Sums
<1>5. Rule(Sums(f))
  BY <1>3, <1>4
<1>6. \A s \in SUBSET S : Sums(f)[s] = SumRule(f, Sums(f), s)
  BY <1>5
<1> QED BY <1>6 DEF SumRule

LEMMA SumsBounded ==
    ASSUME NEW S, IsFiniteSet(S), NEW f \in [S -> Nat], NEW g \in [S -> Nat], \A x \in S : f[x] <= g[x]
    PROVE  \A s \in SUBSET S :
              Sums(f)[s] \in Nat /\ Sums(g)[s] \in Nat /\ Sums(f)[s] <= Sums(g)[s]
<1> DEFINE Good(s) == Sums(f)[s] \in Nat /\ Sums(g)[s] \in Nat /\ Sums(f)[s] <= Sums(g)[s]
           Bad == {n \in Nat : \E s \in SUBSET S : Cardinality(s) = n /\ ~Good(s)}
<1>0. \A s \in SUBSET S : Cardinality(s) \in Nat
  BY PartCardinality
<1>1. SUFFICES ASSUME Bad # {} PROVE FALSE
  BY <1>0
<1>2. PICK n \in Bad : \A m \in Bad : n <= m
  <2>1. Bad \in SUBSET Nat
    OBVIOUS
  <2> HIDE DEF Bad
  <2> QED BY <1>1, <2>1, LeastNatural
<1>3. PICK s \in SUBSET S : Cardinality(s) = n /\ ~Good(s)
  OBVIOUS
<1>4. s # {} /\ DOMAIN f = S /\ DOMAIN g = S
  <2>1. DOMAIN f = S /\ DOMAIN g = S
    OBVIOUS
  <2>2. Sums(f)[{}] = 0 /\ Sums(g)[{}] = 0
    BY <2>1, SumsFacts
  <2> QED BY <1>3, <2>1, <2>2
<1> DEFINE x == CHOOSE x \in s : TRUE
<1>5. /\ x \in s /\ x \in S
      /\ Sums(f)[s] = f[x] + Sums(f)[s \ {x}] /\ Sums(g)[s] = g[x] + Sums(g)[s \ {x}]
  <2>0. IsFiniteSet(DOMAIN f) /\ IsFiniteSet(DOMAIN g)
    BY <1>4
  <2> HIDE DEF x
  <2>1. \A q \in SUBSET DOMAIN f : q # {} =>
          LET y == CHOOSE y \in q : TRUE
          IN  y \in q /\ Sums(f)[q] = f[y] + Sums(f)[q \ {y}]
    BY <2>0, SumsFacts
  <2>2. \A q \in SUBSET DOMAIN g : q # {} =>
          LET y == CHOOSE y \in q : TRUE
          IN  y \in q /\ Sums(g)[q] = g[y] + Sums(g)[q \ {y}]
    BY <2>0, SumsFacts
  <2> QED BY <1>4, <2>1, <2>2 DEF x
<1>6. s \ {x} \in SUBSET S /\ Cardinality(s \ {x}) = n - 1 /\ n - 1 \in Nat
  <2>1. \A y \in s : Cardinality(s \ {y}) = Cardinality(s) - 1 /\ s \ {y} \in SUBSET S
    BY PartCardinality
  <2> HIDE DEF x
  <2>2. Cardinality(s \ {x}) \in Nat
    BY <1>0, <1>5, <2>1
  <2> QED BY <1>3, <1>5, <2>1, <2>2
<1> HIDE DEF x
<1>7. Good(s \ {x})
  <2>1. n - 1 \notin Bad
    BY <1>2, <1>6
  <2> QED BY <1>6, <2>1
<1>8. f[x] \in Nat /\ g[x] \in Nat /\ f[x] <= g[x]
  BY <1>5
<1> QED BY <1>3, <1>5, <1>7, <1>8

\* A sum does not depend on the order.
LEMMA SumsAnyOrder ==
    ASSUME NEW S, IsFiniteSet(S), NEW f \in [S -> Nat]
    PROVE  \A s \in SUBSET S : \A x \in s : Sums(f)[s] = f[x] + Sums(f)[s \ {x}]
<1> DEFINE Good(s) == \A x \in s : Sums(f)[s] = f[x] + Sums(f)[s \ {x}]
           Bad == {n \in Nat : \E s \in SUBSET S : Cardinality(s) = n /\ ~Good(s)}
<1>0. \A s \in SUBSET S : Cardinality(s) \in Nat
  BY PartCardinality
<1>1. SUFFICES ASSUME Bad # {} PROVE FALSE
  BY <1>0
<1>2. PICK n \in Bad : \A m \in Bad : n <= m
  <2>1. Bad \in SUBSET Nat
    OBVIOUS
  <2> HIDE DEF Bad
  <2> QED BY <1>1, <2>1, LeastNatural
<1>3. PICK s \in SUBSET S : Cardinality(s) = n /\ ~Good(s)
  OBVIOUS
<1>4. PICK x \in s : Sums(f)[s] # f[x] + Sums(f)[s \ {x}]
  BY <1>3
<1> DEFINE c == CHOOSE c \in s : TRUE
<1>5. c \in s /\ c \in S /\ Sums(f)[s] = f[c] + Sums(f)[s \ {c}]
  <2>0. DOMAIN f = S /\ s # {}
    BY <1>4
  <2>1. \A q \in SUBSET DOMAIN f : q # {} =>
          LET y == CHOOSE y \in q : TRUE
          IN  y \in q /\ Sums(f)[q] = f[y] + Sums(f)[q \ {y}]
    BY <2>0, SumsFacts
  <2> QED BY <2>0, <2>1 DEF c
<1> HIDE DEF c
<1>6. c # x /\ x \in s \ {c} /\ c \in s \ {x}
  BY <1>4, <1>5
<1>7. /\ s \ {c} \in SUBSET S /\ Cardinality(s \ {c}) = n - 1 /\ n - 1 \in Nat
      /\ s \ {x} \in SUBSET S /\ Cardinality(s \ {x}) = n - 1
  <2>1. \A y \in s : Cardinality(s \ {y}) = Cardinality(s) - 1 /\ s \ {y} \in SUBSET S
    BY PartCardinality
  <2> QED BY <1>0, <1>3, <1>5, <1>6, <2>1
<1>8. Good(s \ {c}) /\ Good(s \ {x})
  <2>1. n - 1 \notin Bad
    BY <1>2, <1>7
  <2> QED BY <1>7, <2>1
<1>9. Sums(f)[s \ {c}] = f[x] + Sums(f)[(s \ {c}) \ {x}]
  BY <1>6, <1>8
<1>10. Sums(f)[s \ {x}] = f[c] + Sums(f)[(s \ {x}) \ {c}]
  BY <1>6, <1>8
<1>11. (s \ {c}) \ {x} = (s \ {x}) \ {c}
  OBVIOUS
<1>12. f[x] \in Nat /\ f[c] \in Nat /\ Sums(f)[(s \ {x}) \ {c}] \in Nat
  <2>1. (s \ {x}) \ {c} \in SUBSET S
    OBVIOUS
  <2> QED BY <1>5, <2>1, SumsBounded
<1> DEFINE rest == Sums(f)[(s \ {x}) \ {c}]
<1>13. rest \in Nat /\ Sums(f)[s \ {c}] = f[x] + rest /\ Sums(f)[s \ {x}] = f[c] + rest
  BY <1>9, <1>10, <1>11, <1>12
<1> HIDE DEF rest
<1>14. f[c] + (f[x] + rest) = f[x] + (f[c] + rest)
  BY <1>12, <1>13
<1> QED BY <1>4, <1>5, <1>13, <1>14

-----------------------------------------------------------------------------
(* The hand-out.                                                           *)

LEMMA ModFacts ==
    ASSUME NEW n \in Nat \ {0}, NEW k \in 0 .. n - 1
    PROVE  k % n = k /\ (k + n) % n = k
<1>1. k % n = k
  OBVIOUS
<1>2. (k + n) % n = k
  OBVIOUS
<1> QED BY <1>1, <1>2

\* From any start every kind has one place in the order.
LEMMA KindAtFacts ==
    ASSUME NEW rotate \in Kind
    PROVE  /\ \A i \in Kind : KindAt(i, rotate) \in Kind
           /\ \A i, j \in Kind : KindAt(i, rotate) = KindAt(j, rotate) => i = j
           /\ \A k \in Kind : \E i \in Kind : KindAt(i, rotate) = k
           /\ KindAt(0, rotate) = rotate
<1> USE FairPickAssumption DEF Kind
<1>1. \A i \in Kind : KindAt(i, rotate) = IF i + rotate < NKind THEN i + rotate ELSE i + rotate - NKind
  <2> TAKE i \in Kind
  <2>1. CASE i + rotate < NKind
    <3>1. i + rotate \in 0 .. NKind - 1
      BY <2>1
    <3> QED BY <2>1, <3>1, ModFacts DEF KindAt
  <2>2. CASE i + rotate >= NKind
    <3>1. i + rotate - NKind \in 0 .. NKind - 1
      BY <2>2
    <3>2. i + rotate = (i + rotate - NKind) + NKind
      OBVIOUS
    <3>3. (i + rotate) % NKind = i + rotate - NKind
      BY <3>1, <3>2, ModFacts
    <3> QED BY <2>2, <3>3 DEF KindAt
  <2> QED BY <2>1, <2>2
<1>2. ASSUME NEW k \in Kind PROVE \E i \in Kind : KindAt(i, rotate) = k
  <2>1. CASE k >= rotate
    <3>1. k - rotate \in Kind /\ KindAt(k - rotate, rotate) = k
      BY <1>1, <2>1
    <3> QED BY <3>1
  <2>2. CASE k < rotate
    <3>1. k - rotate + NKind \in Kind /\ KindAt(k - rotate + NKind, rotate) = k
      BY <1>1, <2>2
    <3> QED BY <3>1
  <2> QED BY <2>1, <2>2
<1>3. \A i \in Kind : KindAt(i, rotate) \in Kind
  BY <1>1
<1>4. \A i, j \in Kind : KindAt(i, rotate) = KindAt(j, rotate) => i = j
  BY <1>1
<1>5. KindAt(0, rotate) = rotate
  BY <1>1
<1> QED BY <1>2, <1>3, <1>4, <1>5

LEMMA MinFacts ==
    ASSUME NEW a \in Nat, NEW b \in Nat
    PROVE  Min({a, b}) = IF a <= b THEN a ELSE b
<1> DEFINE m == IF a <= b THEN a ELSE b
<1>1. m \in {a, b} /\ \A y \in {a, b} : m <= y
  OBVIOUS
<1>2. \A x \in {a, b} : (\A y \in {a, b} : x <= y) => x = m
  OBVIOUS
<1> QED BY <1>1, <1>2 DEF Min

\* The hand-out, up to the n-th kind.
LeftRule(room, free, rotate, left, i) ==
    IF i = 0 THEN free ELSE left[i - 1] - Min({room[KindAt(i - 1, rotate)], left[i - 1]})
LeftTo(room, free, rotate, n, left) ==
    left = [i \in 0 .. n |-> LeftRule(room, free, rotate, left, i)]

LEMMA LeftExists ==
    ASSUME NEW room, NEW free, NEW rotate
    PROVE  \A n \in Nat : \E left : LeftTo(room, free, rotate, n, left)
<1> DEFINE To(n, g) == LeftTo(room, free, rotate, n, g)
           Rule(g, i) == LeftRule(room, free, rotate, g, i)
           Bad == {n \in Nat : ~ \E g : To(n, g)}
<1>1. SUFFICES ASSUME Bad # {} PROVE FALSE
  OBVIOUS
<1>2. PICK n \in Bad : \A m \in Bad : n <= m
  <2>1. Bad \in SUBSET Nat
    OBVIOUS
  <2> HIDE DEF Bad
  <2> QED BY <1>1, <2>1, LeastNatural
<1>3. n # 0
  <2> DEFINE g == [i \in 0 .. 0 |-> free]
  <2>1. g = [i \in 0 .. 0 |-> Rule(g, i)]
    BY DEF LeftRule
  <2>2. To(0, g)
    BY <2>1 DEF LeftTo
  <2> QED BY <2>2
<1>4. PICK g : To(n - 1, g)
  <2>1. n - 1 \in Nat /\ n - 1 < n
    BY <1>3
  <2> QED BY <1>2, <2>1
<1> DEFINE h == [i \in 0 .. n |-> Rule(g, i)]
<1>5. \A i \in 0 .. n - 1 : g[i] = Rule(g, i)
  BY <1>4 DEF LeftTo
<1>6. \A i \in 0 .. n - 1 : h[i] = g[i]
  BY <1>5
<1>7. \A i \in 0 .. n : Rule(h, i) = Rule(g, i)
  <2> TAKE i \in 0 .. n
  <2>1. CASE i = 0
    BY <2>1 DEF LeftRule
  <2>2. CASE i # 0
    <3>1. i - 1 \in 0 .. n - 1
      BY <2>2
    <3>2. h[i - 1] = g[i - 1]
      BY <1>6, <3>1
    <3> HIDE DEF h
    <3> QED BY <2>2, <3>2 DEF LeftRule
  <2> QED BY <2>1, <2>2
<1>8. To(n, h)
  BY <1>7 DEF LeftTo
<1> QED BY <1>2, <1>8

LEMMA LeftFacts ==
    ASSUME NEW free \in Nat, NEW rotate \in Kind, NEW room \in [Kind -> Nat]
    PROVE  LET left == Left(room, free, rotate)
               at(i) == room[KindAt(i, rotate)]
           IN  /\ left[0] = free
               /\ \A i \in 0 .. NKind : left[i] \in Nat
               /\ \A i \in Kind : /\ at(i) \in Nat
                                  /\ left[i + 1] = left[i] - (IF at(i) <= left[i] THEN at(i) ELSE left[i])
<1> USE FairPickAssumption
<1> DEFINE left == Left(room, free, rotate)
           at(i) == room[KindAt(i, rotate)]
           Rule(g) == g = [i \in 0 .. NKind |-> LeftRule(room, free, rotate, g, i)]
<1>1. \E g : Rule(g)
  <2>1. \E g : LeftTo(room, free, rotate, NKind, g)
    BY LeftExists
  <2> QED BY <2>1 DEF LeftTo
<1>2. left = CHOOSE g : Rule(g)
  BY DEF Left, LeftRule
<1>3. Rule(left)
  BY <1>1, <1>2
<1> HIDE DEF left
<1>4. \A i \in 0 .. NKind : left[i] = LeftRule(room, free, rotate, left, i)
  BY <1>3
<1>5. left[0] = free
  <2>1. 0 \in 0 .. NKind
    OBVIOUS
  <2> QED BY <1>4, <2>1 DEF LeftRule
<1>6. \A i \in Kind : at(i) \in Nat
  BY KindAtFacts
<1>7. ASSUME NEW i \in Kind
      PROVE  left[i + 1] = left[i] - Min({at(i), left[i]})
  <2>1. i + 1 \in 0 .. NKind /\ i + 1 # 0 /\ (i + 1) - 1 = i
    BY DEF Kind
  <2>2. left[i + 1] = left[(i + 1) - 1] - Min({room[KindAt((i + 1) - 1, rotate)], left[(i + 1) - 1]})
    BY <1>4, <2>1 DEF LeftRule
  <2> QED BY <2>1, <2>2
<1>8. ASSUME NEW i \in Kind, left[i] \in Nat
      PROVE  left[i + 1] = left[i] - (IF at(i) <= left[i] THEN at(i) ELSE left[i])
  BY <1>6, <1>7, <1>8, MinFacts
<1>9. \A i \in 0 .. NKind : left[i] \in Nat
  <2> DEFINE Bad == {i \in 0 .. NKind : left[i] \notin Nat}
  <2>1. SUFFICES ASSUME Bad # {} PROVE FALSE
    OBVIOUS
  <2>2. PICK n \in Bad : \A m \in Bad : n <= m
    <3>1. Bad \in SUBSET Nat
      OBVIOUS
    <3> HIDE DEF Bad
    <3> QED BY <2>1, <3>1, LeastNatural
  <2>3. n # 0
    BY <1>5
  <2>4. n - 1 \in Kind /\ n - 1 \notin Bad /\ (n - 1) + 1 = n
    BY <2>2, <2>3 DEF Kind
  <2>5. left[n - 1] \in Nat
    BY <2>4 DEF Kind
  <2>6. left[n] = left[n - 1] - (IF at(n - 1) <= left[n - 1] THEN at(n - 1) ELSE left[n - 1])
    BY <1>8, <2>4, <2>5
  <2>7. left[n] \in Nat
    BY <1>6, <2>4, <2>5, <2>6
  <2> QED BY <2>7
<1>10. \A i \in Kind : left[i] \in Nat
  BY <1>9 DEF Kind
<1>11. \A i \in Kind : left[i + 1] = left[i] - (IF at(i) <= left[i] THEN at(i) ELSE left[i])
  BY <1>8, <1>10
<1> QED BY <1>5, <1>6, <1>9, <1>11 DEF left

\* What a kind is handed out, by its place.
LEMMA WantedFacts ==
    ASSUME NEW free \in Nat, NEW rotate \in Kind, NEW room \in [Kind -> Nat], NEW i \in Kind
    PROVE  LET left == Left(room, free, rotate)
               k == KindAt(i, rotate)
               w == Wanted(room, free, rotate, k)
           IN  /\ k \in Kind /\ room[k] \in Nat /\ left[i] \in Nat /\ left[i + 1] \in Nat
               /\ w \in 0 .. room[k] /\ w = left[i] - left[i + 1]
               /\ w # room[k] => left[i + 1] = 0
<1> DEFINE left == Left(room, free, rotate)
           k == KindAt(i, rotate)
           w == Wanted(room, free, rotate, k)
<1>1. k \in Kind /\ (CHOOSE n \in Kind : KindAt(n, rotate) = k) = i
  BY KindAtFacts
<1>2. w = left[i] - left[i + 1]
  BY <1>1 DEF Wanted
<1>3. /\ left[i] \in Nat /\ left[i + 1] \in Nat /\ room[k] \in Nat
      /\ left[i + 1] = left[i] - (IF room[k] <= left[i] THEN room[k] ELSE left[i])
  <2>1. i \in 0 .. NKind /\ i + 1 \in 0 .. NKind
    BY FairPickAssumption DEF Kind
  <2> QED BY <2>1, LeftFacts
<1> HIDE DEF left, k, w
<1>4. w \in 0 .. room[k] /\ (w # room[k] => left[i + 1] = 0)
  BY <1>2, <1>3
<1> QED BY <1>1, <1>2, <1>3, <1>4 DEF left, k, w

\* The first n kinds of the order are handed out what is no longer left.
LEMMA HandedOut ==
    ASSUME NEW free \in Nat, NEW rotate \in Kind, NEW room \in [Kind -> Nat],
           NEW wanted \in [Kind -> Nat], \A k \in Kind : wanted[k] = Wanted(room, free, rotate, k)
    PROVE  SumFunction(wanted) = free - Left(room, free, rotate)[NKind]
<1> USE FairPickAssumption
<1> DEFINE left == Left(room, free, rotate)
           First(n) == {KindAt(i, rotate) : i \in 0 .. n - 1}
           Good(n) == Sums(wanted)[First(n)] = free - left[n]
           Bad == {n \in 0 .. NKind : ~Good(n)}
<1>0. IsFiniteSet(Kind) /\ DOMAIN wanted = Kind
  BY FS_Interval DEF Kind
<1>1. First(NKind) = Kind
  <2>1. 0 .. NKind - 1 = Kind
    BY DEF Kind
  <2>2. \A i \in Kind : KindAt(i, rotate) \in Kind
    BY KindAtFacts
  <2>3. \A k \in Kind : \E i \in Kind : KindAt(i, rotate) = k
    BY KindAtFacts
  <2> QED BY <2>1, <2>2, <2>3
<1>2. Bad = {}
  <2>1. SUFFICES ASSUME Bad # {} PROVE FALSE
    OBVIOUS
  <2>2. PICK n \in Bad : \A m \in Bad : n <= m
    <3>1. Bad \in SUBSET Nat
      OBVIOUS
    <3> HIDE DEF Bad
    <3> QED BY <2>1, <3>1, LeastNatural
  <2>3. n # 0
    <3>1. First(0) = {}
      OBVIOUS
    <3>2. Sums(wanted)[{}] = 0
      BY <1>0, SumsFacts
    <3>3. left[0] = free
      BY LeftFacts
    <3>4. Good(0)
      BY <3>1, <3>2, <3>3
    <3> QED BY <3>4
  <2> DEFINE i == n - 1
  <2>4. i \in Kind /\ i + 1 = n /\ Good(i) /\ i \in 0 .. NKind
    <3>1. i \in Kind /\ i + 1 = n /\ i \in 0 .. NKind /\ i < n
      BY <2>3 DEF Kind
    <3>2. i \notin Bad
      BY <2>2, <3>1
    <3> QED BY <3>1, <3>2
  <2> DEFINE k == KindAt(i, rotate)
  <2>5. /\ k \in Kind /\ left[i] \in Nat /\ left[n] \in Nat
        /\ wanted[k] = left[i] - left[n]
    BY <2>4, WantedFacts
  <2>6. k \in First(n) /\ First(n) \ {k} = First(i)
    <3>1. 0 .. n - 1 = (0 .. i - 1) \union {i} /\ i \notin 0 .. i - 1 /\ 0 .. i - 1 \subseteq Kind
      BY <2>4 DEF Kind
    <3>2. \A j \in 0 .. i - 1 : KindAt(j, rotate) # k
      BY <2>4, <3>1, KindAtFacts
    <3> HIDE DEF i
    <3> QED BY <3>1, <3>2
  <2>7. First(n) \in SUBSET Kind
    <3>1. 0 .. n - 1 \subseteq Kind
      BY <2>4 DEF Kind
    <3> QED BY <3>1, KindAtFacts
  <2> HIDE DEF k, i, First, left
  <2>8. Sums(wanted)[First(n)] = wanted[k] + Sums(wanted)[First(n) \ {k}]
    BY <1>0, <2>6, <2>7, SumsAnyOrder
  <2>9. Sums(wanted)[First(n)] = free - left[n]
    <3>1. Sums(wanted)[First(i)] = free - left[i]
      BY <2>4
    <3>2. Sums(wanted)[First(n)] = wanted[k] + (free - left[i])
      BY <2>6, <2>8, <3>1
    <3> QED BY <2>5, <3>2
  <2> QED BY <2>2, <2>9
<1>3. Good(NKind)
  <2>1. NKind \in 0 .. NKind
    OBVIOUS
  <2> HIDE DEF Good
  <2> QED BY <1>2, <2>1
<1>4. SumFunction(wanted) = Sums(wanted)[Kind]
  BY <1>0, SumFunctionIs
<1> QED BY <1>1, <1>3, <1>4

LEMMA NothingLeftStays ==
    ASSUME NEW free \in Nat, NEW rotate \in Kind, NEW room \in [Kind -> Nat], NEW i \in Kind,
           Left(room, free, rotate)[i + 1] = 0
    PROVE  Left(room, free, rotate)[NKind] = 0
<1> USE FairPickAssumption
<1> DEFINE left == Left(room, free, rotate)
           Bad == {m \in i + 1 .. NKind : left[m] # 0}
<1>1. SUFFICES ASSUME Bad # {} PROVE FALSE
  <2>1. NKind \in i + 1 .. NKind
    BY DEF Kind
  <2> QED BY <2>1
<1>2. PICK n \in Bad : \A m \in Bad : n <= m
  <2>1. Bad \in SUBSET Nat
    BY DEF Kind
  <2> HIDE DEF Bad
  <2> QED BY <1>1, <2>1, LeastNatural
<1>3. n # i + 1
  OBVIOUS
<1>4. n - 1 \in i + 1 .. NKind /\ n - 1 \in Kind /\ n - 1 \notin Bad /\ (n - 1) + 1 = n
  BY <1>2, <1>3 DEF Kind
<1>5. left[n - 1] = 0
  BY <1>4
<1>6. /\ room[KindAt(n - 1, rotate)] \in Nat
      /\ left[(n - 1) + 1] = left[n - 1] -
            (IF room[KindAt(n - 1, rotate)] <= left[n - 1] THEN room[KindAt(n - 1, rotate)] ELSE left[n - 1])
  <2>1. \A j \in Kind :
           /\ room[KindAt(j, rotate)] \in Nat
           /\ left[j + 1] = left[j] - (IF room[KindAt(j, rotate)] <= left[j] THEN room[KindAt(j, rotate)] ELSE left[j])
    BY LeftFacts
  <2> HIDE DEF left, Bad
  <2> QED BY <1>4, <2>1
<1> HIDE DEF left
<1>7. left[n] = 0
  BY <1>4, <1>5, <1>6
<1> QED BY <1>7

\* A turn asks for as much as it has slots or the kinds have room for, and in
\* one turn out of NKind a kind with room is asked for.
LEMMA PlansAreFair == \A free \in Nat : PlanIsFair(free)
<1> USE FairPickAssumption
<1> SUFFICES ASSUME NEW free \in Nat, NEW room \in [Kind -> 0 .. Cap]
             PROVE  /\ \A rotate \in Kind :
                          LET wanted == [k \in Kind |-> Wanted(room, free, rotate, k)] IN
                          /\ \A k \in Kind : wanted[k] \in 0 .. room[k]
                          /\ SumFunction(wanted) = Min({free, SumFunction(room)})
                    /\ \A k \in Kind :
                          room[k] > 0 /\ free > 0 => \E rotate \in Kind : Wanted(room, free, rotate, k) > 0
  BY DEF PlanIsFair
<1>0. room \in [Kind -> Nat] /\ IsFiniteSet(Kind) /\ DOMAIN room = Kind
  <2>1. NKind - 1 \in Int
    OBVIOUS
  <2>2. IsFiniteSet(0 .. NKind - 1)
    BY <2>1, FS_Interval
  <2> QED BY <2>2 DEF Kind
<1>1. ASSUME NEW rotate \in Kind
      PROVE  LET wanted == [k \in Kind |-> Wanted(room, free, rotate, k)] IN
             /\ \A k \in Kind : wanted[k] \in 0 .. room[k]
             /\ SumFunction(wanted) = Min({free, SumFunction(room)})
  <2> DEFINE wanted == [k \in Kind |-> Wanted(room, free, rotate, k)]
             left == Left(room, free, rotate)
  <2>1. ASSUME NEW k \in Kind PROVE wanted[k] \in 0 .. room[k]
    <3>1. PICK i \in Kind : KindAt(i, rotate) = k
      BY KindAtFacts
    <3> QED BY <1>0, <3>1, WantedFacts
  <2>2. wanted \in [Kind -> Nat] /\ \A k \in Kind : wanted[k] <= room[k]
    BY <1>0, <2>1
  <2>3. /\ \A k \in Kind : wanted[k] = Wanted(room, free, rotate, k)
        /\ DOMAIN wanted = Kind
    OBVIOUS
  <2>4. ASSUME left[NKind] # 0 PROVE wanted = room
    <3>1. ASSUME NEW k \in Kind PROVE wanted[k] = room[k]
      <4>1. PICK i \in Kind : KindAt(i, rotate) = k
        BY KindAtFacts
      <4>2. Wanted(room, free, rotate, k) # room[k] => left[i + 1] = 0
        BY <1>0, <4>1, WantedFacts
      <4>3. left[i + 1] # 0
        BY <1>0, <2>4, NothingLeftStays
      <4> QED BY <4>2, <4>3
    <3> QED BY <1>0, <2>3, <3>1
  <2>5. left[NKind] \in Nat
    <3>1. NKind \in 0 .. NKind
      OBVIOUS
    <3> QED BY <1>0, <3>1, LeftFacts
  <2> HIDE DEF wanted, left
  <2>6. SumFunction(wanted) = free - left[NKind]
    BY <1>0, <2>2, <2>3, HandedOut DEF left
  <2>7. /\ SumFunction(wanted) = Sums(wanted)[Kind] /\ SumFunction(room) = Sums(room)[Kind]
        /\ Sums(wanted)[Kind] \in Nat /\ Sums(room)[Kind] \in Nat
        /\ Sums(wanted)[Kind] <= Sums(room)[Kind]
    <3>1. SumFunction(wanted) = Sums(wanted)[Kind] /\ SumFunction(room) = Sums(room)[Kind]
      BY <1>0, <2>3, SumFunctionIs
    <3> QED BY <1>0, <2>2, <3>1, SumsBounded
  <2>8. SumFunction(wanted) = Min({free, SumFunction(room)})
    <3>1. Min({free, SumFunction(room)}) = IF free <= SumFunction(room) THEN free ELSE SumFunction(room)
      BY <2>7, MinFacts
    <3>2. CASE left[NKind] = 0
      BY <2>6, <2>7, <3>1, <3>2
    <3>3. CASE left[NKind] # 0
      BY <2>4, <2>5, <2>6, <2>7, <3>1, <3>3
    <3> QED BY <3>2, <3>3
  <2> QED BY <2>1, <2>8 DEF wanted
<1>2. ASSUME NEW k \in Kind, room[k] > 0, free > 0
      PROVE  Wanted(room, free, k, k) > 0
  <2> DEFINE left == Left(room, free, k)
             w == Wanted(room, free, k, k)
  <2>1. 0 \in Kind /\ KindAt(0, k) = k
    BY KindAtFacts DEF Kind
  <2>2. left[0] = free
    BY <1>0, LeftFacts
  <2>3. w \in 0 .. room[k] /\ w = left[0] - left[0 + 1] /\ (w # room[k] => left[0 + 1] = 0)
    BY <1>0, <2>1, WantedFacts
  <2> HIDE DEF left, w
  <2>4. w > 0
    BY <1>2, <2>2, <2>3
  <2> QED BY <2>4 DEF w
<1> QED BY <1>1, <1>2

-----------------------------------------------------------------------------
(* The claim.                                                              *)

Rows(org, size, i) == {j \in 1 .. size : Before(org, j, i)}

LEMMA TurnFacts ==
    ASSUME NEW org, NEW i \in Nat
    PROVE  /\ IsFiniteSet({j \in 1 .. i : org[j] = org[i]}) /\ Turn(org, i) \in Nat
           /\ \A k \in 1 .. i : org[k] = org[i] /\ k # i => Turn(org, k) < Turn(org, i)
<1> DEFINE Own(k) == {j \in 1 .. k : org[j] = org[k]}
<1>1. \A k \in Nat : IsFiniteSet(Own(k)) /\ Turn(org, k) = Cardinality(Own(k)) /\ Turn(org, k) \in Nat
  <2> TAKE k \in Nat
  <2>1. IsFiniteSet(1 .. k)
    BY FS_Interval
  <2>2. Own(k) \in SUBSET (1 .. k)
    OBVIOUS
  <2>3. IsFiniteSet(Own(k))
    BY <2>1, <2>2, FS_Subset
  <2> QED BY <2>3, FS_CardinalityType DEF Turn
<1>2. ASSUME NEW k \in 1 .. i, org[k] = org[i], k # i
      PROVE  Turn(org, k) < Turn(org, i)
  <2>1. Own(k) \in SUBSET Own(i) /\ i \in Own(i) /\ i \notin Own(k) /\ k \in Nat
    BY <1>2
  <2> HIDE DEF Own
  <2>2. IsFiniteSet(Own(i)) /\ Cardinality(Own(i)) \in Nat /\ Cardinality(Own(k)) \in Nat
    BY <1>1, <2>1
  <2>3. Cardinality(Own(k)) <= Cardinality(Own(i)) /\ Cardinality(Own(k)) # Cardinality(Own(i))
    <3>1. Own(k) # Own(i)
      BY <2>1
    <3> QED BY <2>1, <2>2, <3>1, FS_Subset
  <2>4. Turn(org, k) = Cardinality(Own(k)) /\ Turn(org, i) = Cardinality(Own(i))
    BY <1>1, <2>1
  <2> QED BY <2>2, <2>3, <2>4
<1> QED BY <1>1, <1>2

LEMMA BeforeOrders ==
    ASSUME NEW org, NEW i \in Nat, NEW j \in Nat, NEW k \in Nat
    PROVE  /\ ~Before(org, i, i)
           /\ Before(org, i, j) /\ Before(org, j, k) => Before(org, i, k)
           /\ i # j => Before(org, i, j) \/ Before(org, j, i)
<1>1. Turn(org, i) \in Nat /\ Turn(org, j) \in Nat /\ Turn(org, k) \in Nat
  BY TurnFacts
<1> QED BY <1>1 DEF Before

LEMMA RowsFacts ==
    ASSUME NEW org, NEW size \in Nat
    PROVE  /\ \A i \in 1 .. size : IsFiniteSet(Rows(org, size, i)) /\ Cardinality(Rows(org, size, i)) \in 0 .. size - 1
           /\ \A i, j \in 1 .. size : Before(org, j, i) =>
                 Cardinality(Rows(org, size, j)) < Cardinality(Rows(org, size, i))
<1> DEFINE All == 1 .. size
           R(i) == Rows(org, size, i)
<1>1. IsFiniteSet(All) /\ Cardinality(All) = size
  BY FS_Interval
<1>a. \A i, j, k \in All :
        /\ ~Before(org, i, i)
        /\ Before(org, i, j) /\ Before(org, j, k) => Before(org, i, k)
  <2> SUFFICES ASSUME NEW i \in Nat, NEW j \in Nat, NEW k \in Nat
               PROVE  /\ ~Before(org, i, i)
                      /\ Before(org, i, j) /\ Before(org, j, k) => Before(org, i, k)
    OBVIOUS
  <2> QED BY BeforeOrders
<1>2. \A i \in All : R(i) \in SUBSET All /\ i \notin R(i)
  BY <1>a DEF Rows
<1>3. \A i \in All : IsFiniteSet(R(i)) /\ Cardinality(R(i)) \in Nat /\ Cardinality(R(i)) <= size /\ Cardinality(R(i)) # size
  <2> TAKE i \in All
  <2>1. R(i) \in SUBSET All /\ R(i) # All
    BY <1>2
  <2> HIDE DEF R, All
  <2> QED BY <1>1, <2>1, FS_Subset, FS_CardinalityType
<1>4. ASSUME NEW i \in All, NEW j \in All, Before(org, j, i)
      PROVE  Cardinality(R(j)) < Cardinality(R(i))
  <2>1. R(j) \in SUBSET R(i) /\ j \in R(i) /\ j \notin R(j)
    BY <1>4, <1>a DEF Rows
  <2> HIDE DEF R
  <2>2. IsFiniteSet(R(i)) /\ Cardinality(R(i)) \in Nat /\ Cardinality(R(j)) \in Nat
    BY <1>3
  <2>3. Cardinality(R(j)) <= Cardinality(R(i)) /\ Cardinality(R(j)) # Cardinality(R(i))
    <3>1. R(j) # R(i)
      BY <2>1
    <3> QED BY <2>1, <2>2, <3>1, FS_Subset
  <2> QED BY <2>2, <2>3
<1> QED BY <1>3, <1>4

\* The claim takes as many as it asks for, or all there are.
LEMMA ChosenCount ==
    ASSUME NEW org, NEW size \in Nat, NEW lim \in Nat
    PROVE  /\ Cardinality(Chosen(org, size, lim)) = Min({lim, size})
           /\ \A i \in Chosen(org, size, lim), j \in 1 .. size : Before(org, j, i) => j \in Chosen(org, size, lim)
<1> DEFINE All == 1 .. size
           rank == [i \in All |-> Cardinality(Rows(org, size, i))]
           C == Chosen(org, size, lim)
           n == IF lim <= size THEN lim ELSE size
<1>0. n \in Nat /\ n <= size /\ n <= lim /\ (n = lim \/ n = size)
  OBVIOUS
<1>1. /\ IsFiniteSet(All) /\ Cardinality(All) = size
      /\ IsFiniteSet(0 .. size - 1) /\ Cardinality(0 .. size - 1) = size
      /\ IsFiniteSet(0 .. n - 1) /\ Cardinality(0 .. n - 1) = n
  <2>1. \A m \in Nat : IsFiniteSet(0 .. m - 1) /\ Cardinality(0 .. m - 1) = m
    <3> TAKE m \in Nat
    <3>1. m - 1 \in Int
      OBVIOUS
    <3>2. IsFiniteSet(0 .. m - 1)
      BY <3>1, FS_Interval
    <3>3. Cardinality(0 .. m - 1) = IF 0 > m - 1 THEN 0 ELSE (m - 1) - 0 + 1
      BY <3>1, FS_Interval
    <3> QED BY <3>2, <3>3
  <2>2. IsFiniteSet(All) /\ Cardinality(All) = size
    BY FS_Interval
  <2> HIDE DEF n
  <2> QED BY <1>0, <2>1, <2>2
<1>2. rank \in [All -> 0 .. size - 1]
  BY RowsFacts
<1>3. C = {i \in All : rank[i] < lim}
  BY DEF Chosen, Rows
<1>4. \A i, j \in All : Before(org, j, i) => rank[j] < rank[i]
  BY RowsFacts
<1> HIDE DEF rank, C
<1>5. \A i, j \in All : rank[i] = rank[j] => i = j
  <2> SUFFICES ASSUME NEW i \in All, NEW j \in All, rank[i] = rank[j], i # j PROVE FALSE
    OBVIOUS
  <2>1. Before(org, i, j) \/ Before(org, j, i)
    <3>1. i \in Nat /\ j \in Nat
      OBVIOUS
    <3> QED BY <3>1, BeforeOrders
  <2>2. rank[i] \in 0 .. size - 1
    BY <1>2
  <2> QED BY <1>4, <2>1, <2>2
<1>6. rank \in Injection(All, 0 .. size - 1)
  BY <1>2, <1>5 DEF Injection, IsInjective
<1>7. rank \in Surjection(All, 0 .. size - 1)
  BY <1>1, <1>6, FS_Injection
<1>8. \A r \in 0 .. size - 1 : \E i \in All : rank[i] = r
  BY <1>7 DEF Surjection
<1> DEFINE g == [i \in C |-> rank[i]]
<1>9. g \in Bijection(C, 0 .. n - 1)
  <2>1. g \in [C -> 0 .. n - 1]
    BY <1>2, <1>3
  <2>2. \A i, j \in C : g[i] = g[j] => i = j
    BY <1>3, <1>5
  <2>3. \A r \in 0 .. n - 1 : \E i \in C : g[i] = r
    <3> TAKE r \in 0 .. n - 1
    <3>1. r \in 0 .. size - 1 /\ r < lim
      OBVIOUS
    <3> QED BY <1>3, <1>8, <3>1
  <2> HIDE DEF g
  <2> QED BY <2>1, <2>2, <2>3 DEF Bijection, Injection, Surjection, IsInjective
<1>10. C \in SUBSET All /\ IsFiniteSet(C)
  BY <1>1, <1>3, FS_Subset
<1>11. Cardinality(C) = n
  BY <1>1, <1>9, <1>10, FS_Bijection DEF ExistsBijection
<1>12. \A i \in C, j \in All : Before(org, j, i) => j \in C
  <2> SUFFICES ASSUME NEW i \in C, NEW j \in All, Before(org, j, i) PROVE j \in C
    OBVIOUS
  <2>1. rank[j] < rank[i] /\ rank[i] < lim /\ rank[j] \in Int /\ rank[i] \in Int
    BY <1>2, <1>3, <1>4
  <2>2. rank[j] < lim
    BY <2>1
  <2> QED BY <1>3, <2>2
<1> QED BY <1>11, <1>12, MinFacts DEF C

\* The oldest of each organization first, and no organization gets two more than
\* another that has rows left.
LEMMA ChosenIsFair ==
    ASSUME NEW org, NEW size \in Nat, NEW lim \in Nat
    PROVE  IsFair(org, size, Chosen(org, size, lim))
<1> DEFINE All == 1 .. size
           picked == Chosen(org, size, lim)
           share(o) == {i \in picked : org[i] = o}
           all(o) == {i \in All : org[i] = o}
<1>1. picked \in SUBSET All /\ IsFiniteSet(All)
  BY FS_Interval DEF Chosen
<1>2. \A i \in picked, j \in All : Before(org, j, i) => j \in picked
  BY ChosenCount
<1> HIDE DEF picked
<1>t. ASSUME NEW i \in Nat
      PROVE  /\ IsFiniteSet({j \in 1 .. i : org[j] = org[i]})
             /\ Turn(org, i) = Cardinality({j \in 1 .. i : org[j] = org[i]})
             /\ Turn(org, i) \in Nat
             /\ \A k \in 1 .. i : org[k] = org[i] /\ k # i => Turn(org, k) < Turn(org, i)
  BY TurnFacts DEF Turn
<1>3. \A i \in picked, j \in All : org[i] = org[j] /\ j < i => j \in picked
  <2> SUFFICES ASSUME NEW i \in picked, NEW j \in All, org[i] = org[j], j < i PROVE j \in picked
    OBVIOUS
  <2>1. i \in Nat /\ j \in 1 .. i /\ org[j] = org[i] /\ j # i
    BY <1>1
  <2>2. Turn(org, j) < Turn(org, i)
    BY <2>1, TurnFacts
  <2> QED BY <1>2, <2>2 DEF Before
<1>4. ASSUME NEW o, NEW p, share(p) # all(p)
      PROVE  Cardinality(share(o)) <= Cardinality(share(p)) + 1
  <2>1. all(p) \ share(p) # {} /\ all(p) \ share(p) \in SUBSET Nat
    <3>1. share(p) \in SUBSET all(p) /\ all(p) \in SUBSET Nat
      <4>1. ASSUME NEW x \in share(p) PROVE x \in all(p)
        BY <1>1
      <4>2. ASSUME NEW x \in all(p) PROVE x \in Nat
        OBVIOUS
      <4> HIDE DEF all, share
      <4> QED BY <4>1, <4>2
    <3> HIDE DEF all, share
    <3> QED BY <1>4, <3>1
  <2>2. PICK j \in all(p) \ share(p) : \A k \in all(p) \ share(p) : j <= k
    <3> HIDE DEF all, share
    <3> QED BY <2>1, LeastNatural
  <2>3. j \in All /\ org[j] = p /\ j \notin picked /\ j \in Nat
    BY <2>2
  <2> DEFINE own == {k \in 1 .. j : org[k] = org[j]}
  <2>4. IsFiniteSet(own) /\ Turn(org, j) = Cardinality(own) /\ j \in own /\ Turn(org, j) \in Nat
    BY <2>3, <1>t
  <2>5. own \ {j} \in SUBSET share(p)
    <3> SUFFICES ASSUME NEW k \in own, k # j PROVE k \in share(p)
      OBVIOUS
    <3>1. k \in all(p) /\ k < j
      BY <2>3
    <3>2. k \in share(p)
      BY <2>2, <3>1, <2>3
    <3> QED BY <3>2
  <2>6. \A q : IsFiniteSet(share(q)) /\ Cardinality(share(q)) \in Nat
    <3> TAKE q
    <3>1. share(q) \in SUBSET All
      BY <1>1
    <3> HIDE DEF share
    <3> QED BY <1>1, <3>1, FS_Subset, FS_CardinalityType
  <2>7. Turn(org, j) <= Cardinality(share(p)) + 1
    <3>1. Cardinality(own \ {j}) = Cardinality(own) - 1
      BY <2>4, FS_RemoveElement
    <3>2. Cardinality(own \ {j}) <= Cardinality(share(p))
      BY <2>5, <2>6, FS_Subset
    <3> HIDE DEF own, share
    <3> QED BY <2>4, <2>6, <3>1, <3>2
  <2>8. ASSUME NEW i \in share(o)
        PROVE  Turn(org, i) \in 1 .. Turn(org, j) /\ i \in Nat
    <3>0. i \in picked /\ i \in All /\ i \in Nat
      BY <1>1
    <3>1. i \in picked /\ i \in All /\ i \in Nat /\ Turn(org, i) \in Nat
      BY <3>0, <1>t
    <3>2. ~Before(org, j, i)
      BY <1>2, <2>3, <3>1
    <3>3. Turn(org, i) <= Turn(org, j)
      BY <2>4, <3>1, <3>2 DEF Before
    <3>4. Turn(org, i) >= 1
      <4> DEFINE mine == {k \in 1 .. i : org[k] = org[i]}
      <4>1. IsFiniteSet(mine) /\ Turn(org, i) = Cardinality(mine) /\ i \in mine
        BY <3>1, TurnFacts DEF Turn
      <4> HIDE DEF mine
      <4> QED BY <3>1, <4>1, FS_EmptySet
    <3> QED BY <3>1, <3>3, <3>4
  <2> DEFINE turn == [i \in share(o) |-> Turn(org, i)]
  <2>9. turn \in Injection(share(o), 1 .. Turn(org, j))
    <3>1. turn \in [share(o) -> 1 .. Turn(org, j)]
      BY <2>8
    <3>2. ASSUME NEW i \in share(o), NEW k \in share(o), i < k PROVE turn[i] # turn[k]
      <4>1. i \in Nat /\ k \in Nat /\ i \in 1 .. k /\ org[i] = org[k]
        BY <1>1, <2>8, <3>2
      <4>2. Turn(org, i) \in Nat /\ Turn(org, k) \in Nat
        BY <4>1, <1>t
      <4>3. \A m \in 1 .. k : org[m] = org[k] /\ m # k => Turn(org, m) < Turn(org, k)
        BY <4>1, <1>t
      <4>4. i # k
        BY <3>2, <4>1
      <4>5. Turn(org, i) < Turn(org, k)
        BY <4>1, <4>3, <4>4
      <4> QED BY <4>2, <4>5
    <3>3. \A i, k \in share(o) : turn[i] = turn[k] => i = k
      <4> SUFFICES ASSUME NEW i \in share(o), NEW k \in share(o), turn[i] = turn[k], i # k PROVE FALSE
        OBVIOUS
      <4>1. i < k \/ k < i
        BY <2>8
      <4> QED BY <3>2, <4>1
    <3> HIDE DEF turn
    <3> QED BY <3>1, <3>3 DEF Injection, IsInjective
  <2>10. IsFiniteSet(1 .. Turn(org, j)) /\ Cardinality(1 .. Turn(org, j)) = Turn(org, j)
    BY <2>4, FS_Interval
  <2>11. Cardinality(share(o)) <= Turn(org, j)
    BY <2>9, <2>10, FS_Injection
  <2> QED BY <2>4, <2>6, <2>7, <2>11
<1>5. \A q : Cardinality(share(q)) \in Nat
  <2> TAKE q
  <2>1. share(q) \in SUBSET All
    BY <1>1
  <2> HIDE DEF share
  <2> QED BY <1>1, <2>1, FS_Subset, FS_CardinalityType
<1>6. ASSUME NEW o, NEW p, Cardinality(share(o)) > Cardinality(share(p)) + 1
      PROVE  share(p) = all(p)
  <2> SUFFICES ASSUME share(p) # all(p) PROVE FALSE
    OBVIOUS
  <2> HIDE DEF share, all
  <2>1. Cardinality(share(o)) <= Cardinality(share(p)) + 1
    BY <1>4
  <2> QED BY <1>5, <1>6, <2>1
<1> QED BY <1>3, <1>6 DEF IsFair, picked

-----------------------------------------------------------------------------
(* The turn.                                                               *)

\* A claim for any number of rows is fair.
LEMMA PicksAreFair == \A lim \in Nat : PickIsFair(lim)
<1> SUFFICES ASSUME NEW lim \in Nat, NEW org \in [1 .. NRow -> 1 .. NOrg], NEW size \in 0 .. NRow
             PROVE  /\ Cardinality(Chosen(org, size, lim)) = Min({lim, size})
                    /\ IsFair(org, size, Chosen(org, size, lim))
  BY DEF PickIsFair
<1>1. size \in Nat
  BY FairPickAssumption
<1> QED BY <1>1, ChosenCount, ChosenIsFair

\* Whatever slots a worker has free, one turn of its loop starves no kind and no
\* organization, for any number of kinds, of rows and of organizations
\* (claimWants in plan.ts, app.claim_jobs).
THEOREM TurnsAreFair == Spec => []ClaimIsFair
<1>1. \A n \in 0 .. ProcessCap : PlanIsFair(n) /\ PickIsFair(n)
  <2>1. 0 .. ProcessCap \in SUBSET Nat
    BY FairPickAssumption
  <2> QED BY <2>1, PlansAreFair, PicksAreFair
<1>2. \A n \in DOMAIN TurnIsFair : TurnIsFair[n]
  <2>1. DOMAIN TurnIsFair = 0 .. ProcessCap
    BY DEF TurnIsFair
  <2>2. ASSUME NEW n \in 0 .. ProcessCap PROVE TurnIsFair[n]
    BY <1>1, Zenon DEF TurnIsFair
  <2> QED BY <2>1, <2>2
<1>3. ClaimIsFair
  BY <1>2 DEF ClaimIsFair
<1> QED BY <1>3, PTL
=============================================================================
