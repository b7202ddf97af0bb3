-------------------------- MODULE SchedulerProofs --------------------------
(***************************************************************************)
(* Theorems about Scheduler, for any number of organizations and workers   *)
(* and any period.  The inductive invariant adds to the properties the two *)
(* facts the code's comments rely on: the dedupe key of a job is the tick  *)
(* it was fired for, and a turn that fires has already seen to every       *)
(* organization that is no longer on its list.  The last part is about     *)
(* Cron: nextFire against the first match.                                 *)
(***************************************************************************)
EXTENDS Cron, FiniteSetTheorems, WellFoundedInduction, TLAPS

\* The key names the tick: two jobs of a tick in one organization would collide.
KeyIsTick == \A j \in jobs : j[3] = j[2]

\* What is off the list of a firing turn has its job.
ListedOrDone ==
    \A w \in Worker : turn[w].pc = "firing" =>
        \A o \in Steady \ turn[w].todo : \E j \in jobs : j[1] = o /\ j[2] = turn[w].tick

IInv ==
    /\ TypeOK
    /\ KeyIsTick
    /\ OneJobPerTick
    /\ FiringIsDue
    /\ ListedOrDone
    /\ FiredForAll

-----------------------------------------------------------------------------
\* The next tick is a tick of the cron, later than the time it is computed from.
LEMMA NextFireIsTick ==
    ASSUME NEW t \in Nat
    PROVE  NextFire(t) \in Tick /\ NextFire(t) > t
<1>1. t \div Period \in Nat BY SizesAssumption
<1>2. /\ (t \div Period + 1) * Period \in Nat
      /\ (t \div Period + 1) * Period > t
    BY SizesAssumption
<1>3. ((t \div Period + 1) * Period) % Period = 0
    <2>1. \A k \in Nat : (k * Period) % Period = 0 BY SizesAssumption
    <2> QED BY <1>1, <2>1
<1> QED BY <1>2, <1>3 DEF NextFire, Tick

LEMMA IdleTurn == Idle \in Turn /\ Idle.pc = "idle"
<1>1. 0 \in Tick BY SizesAssumption DEF Tick
<1> QED BY <1>1 DEF Idle, Turn

\* A turn that changes to one that does not fire disturbs nothing: every
\* worker that fires after the step fired before it, with the same turn.
LEMMA StopsFiring ==
    ASSUME IInv, NEW w \in Worker, NEW r \in Turn, r.pc # "firing",
           turn' = [turn EXCEPT ![w] = r], UNCHANGED <<row, jobs>>
    PROVE  FiringIsDue' /\ ListedOrDone' /\ turn' \in [Worker -> Turn]
<1> USE DEF IInv, TypeOK
<1>1. \A v \in Worker : turn'[v].pc = "firing" => turn'[v] = turn[v]
    OBVIOUS
<1>2. FiringIsDue' BY <1>1 DEF FiringIsDue
<1>3. ListedOrDone' BY <1>1 DEF ListedOrDone
<1> QED BY <1>2, <1>3

-----------------------------------------------------------------------------
LEMMA InitIInv == Init => IInv
<1> SUFFICES ASSUME Init PROVE IInv OBVIOUS
<1> USE DEF Init
<1>1. 0 \in Tick BY SizesAssumption DEF Tick
<1>2. TypeOK BY <1>1, IdleTurn DEF TypeOK
<1>3. KeyIsTick /\ OneJobPerTick /\ FiredForAll
    BY DEF KeyIsTick, OneJobPerTick, FiredForAll
<1>4. FiringIsDue /\ ListedOrDone
    BY IdleTurn DEF FiringIsDue, ListedOrDone
<1> QED BY <1>2, <1>3, <1>4 DEF IInv

\* Everything but the clock, the suspensions and the history stays.
LEMMA WorldIInv ==
    ASSUME IInv, UNCHANGED <<row, jobs, turn>>, TypeOK'
    PROVE  IInv'
BY DEF IInv, KeyIsTick, OneJobPerTick, FiringIsDue, ListedOrDone, FiredForAll

LEMMA TimePassesIInv == IInv /\ TimePasses => IInv'
<1> SUFFICES ASSUME IInv, TimePasses PROVE IInv' OBVIOUS
<1>1. recent' \in [Org -> Nat] BY DEF IInv, TypeOK, TimePasses
<1>2. TypeOK' BY <1>1 DEF IInv, TypeOK, TimePasses
<1> QED BY <1>2, WorldIInv DEF TimePasses

LEMMA SuspendIInv == ASSUME NEW o \in Org PROVE IInv /\ Suspend(o) => IInv'
<1> SUFFICES ASSUME IInv, Suspend(o) PROVE IInv' OBVIOUS
<1>1. TypeOK' BY DEF IInv, TypeOK, Suspend
<1> QED BY <1>1, WorldIInv DEF Suspend

\* A turn that begins, ends without firing or dies.
LEMMA TurnOnlyIInv ==
    ASSUME IInv, NEW w \in Worker, NEW r \in Turn, r.pc # "firing",
           turn' = [turn EXCEPT ![w] = r], crashes' \in Nat,
           UNCHANGED <<now, suspended, row, jobs, recent>>
    PROVE  IInv'
<1>1. FiringIsDue' /\ ListedOrDone' /\ turn' \in [Worker -> Turn]
    BY StopsFiring
<1>2. TypeOK' BY <1>1 DEF IInv, TypeOK
<1> QED BY <1>1, <1>2 DEF IInv, KeyIsTick, OneJobPerTick, FiredForAll

LEMMA BeginsIInv ==
    ASSUME NEW w \in Worker PROVE IInv /\ (TurnStart(w) \/ SyncStart(w) \/ Crash(w)) => IInv'
<1> SUFFICES ASSUME IInv, TurnStart(w) \/ SyncStart(w) \/ Crash(w) PROVE IInv' OBVIOUS
<1>1. now \in Nat /\ crashes \in Nat BY DEF IInv, TypeOK
<1>2. CASE TurnStart(w)
    <2> DEFINE r == [Idle EXCEPT !.pc = "ticking", !.at = now]
    <2>1. r \in Turn /\ r.pc # "firing" BY <1>1, IdleTurn DEF Turn, Idle
    <2>2. turn' = [turn EXCEPT ![w] = r] /\ crashes' \in Nat
        BY <1>1, <1>2 DEF TurnStart
    <2> HIDE DEF r
    <2> QED BY <1>2, <2>1, <2>2, TurnOnlyIInv DEF TurnStart
<1>3. CASE SyncStart(w)
    <2> DEFINE r == [Idle EXCEPT !.pc = "syncing", !.at = now]
    <2>1. r \in Turn /\ r.pc # "firing" BY <1>1, IdleTurn DEF Turn, Idle
    <2>2. turn' = [turn EXCEPT ![w] = r] /\ crashes' \in Nat
        BY <1>1, <1>3 DEF SyncStart
    <2> HIDE DEF r
    <2> QED BY <1>3, <2>1, <2>2, TurnOnlyIInv DEF SyncStart
<1>4. CASE Crash(w)
    <2>1. turn' = [turn EXCEPT ![w] = Idle] /\ crashes' \in Nat
        BY <1>1, <1>4 DEF Crash
    <2> QED BY <1>4, <2>1, IdleTurn, TurnOnlyIInv DEF Crash
<1> QED BY <1>2, <1>3, <1>4

\* The upsert may move the row, but no turn fires while it does.
LEMMA SyncWriteIInv == ASSUME NEW w \in Worker PROVE IInv /\ SyncWrite(w) => IInv'
<1> SUFFICES ASSUME IInv, SyncWrite(w) PROVE IInv' OBVIOUS
<1> USE DEF IInv, TypeOK, SyncWrite
<1>1. turn[w].at \in Nat BY DEF Turn
<1>2. NextFire(turn[w].at) \in Tick BY <1>1, NextFireIsTick
<1>3. row' \in [next : Tick, last : Tick] /\ row'.last = row.last
    <2> DEFINE next == NextFire(turn[w].at)
    <2> HIDE DEF next
    <2>1. row' = IF row.next = 0 \/ row.next > next THEN [row EXCEPT !.next = next] ELSE row
        BY DEF next
    <2>2. next \in Tick BY <1>2 DEF next
    <2> QED BY <2>1, <2>2
<1>4. \A v \in Worker : turn'[v].pc # "firing"
    BY IdleTurn DEF RowHeld
<1>5. TypeOK' BY <1>3, IdleTurn
<1>6. FiringIsDue' /\ ListedOrDone' BY <1>4 DEF FiringIsDue, ListedOrDone
<1>7. FiredForAll' BY <1>3 DEF FiredForAll
<1> QED BY <1>5, <1>6, <1>7 DEF KeyIsTick, OneJobPerTick

\* The due row is taken when nobody holds it, and every organization that is
\* never suspended is on the list.
LEMMA TakeDueIInv == ASSUME NEW w \in Worker PROVE IInv /\ TakeDue(w) => IInv'
<1> SUFFICES ASSUME IInv, TakeDue(w) PROVE IInv' OBVIOUS
<1> USE DEF IInv, TypeOK
<1>1. CASE ~(row.next # 0 /\ row.next <= turn[w].at /\ ~RowHeld)
    <2>1. turn' = [turn EXCEPT ![w] = Idle] BY <1>1 DEF TakeDue
    <2> QED BY <2>1, IdleTurn, TurnOnlyIInv DEF TakeDue
<1>2. CASE row.next # 0 /\ row.next <= turn[w].at /\ ~RowHeld
    <2> DEFINE r == [pc |-> "firing", at |-> turn[w].at, tick |-> row.next, todo |-> Live]
    <2>1. turn' = [turn EXCEPT ![w] = r] BY <1>2 DEF TakeDue
    <2>2. r \in Turn BY DEF Turn, Live
    <2>3. r.tick = row.next /\ r.todo = Live OBVIOUS
    <2>4. Steady \subseteq Live BY SizesAssumption DEF Live
    <2> HIDE DEF r
    <2>5. \A v \in Worker : turn'[v].pc = "firing" => v = w /\ turn'[v] = r
        BY <1>2, <2>1 DEF RowHeld
    <2>6. TypeOK' BY <2>1, <2>2 DEF TakeDue
    <2>7. FiringIsDue' BY <2>3, <2>5 DEF FiringIsDue, TakeDue
    <2>8. ListedOrDone' BY <2>3, <2>4, <2>5 DEF ListedOrDone
    <2> QED BY <2>6, <2>7, <2>8 DEF TakeDue, KeyIsTick, OneJobPerTick, FiredForAll
<1> QED BY <1>1, <1>2

\* One more organization of the list is served; a job of this tick it already
\* has, from an earlier turn, is found by the key.
LEMMA InsertJobIInv == ASSUME NEW w \in Worker PROVE IInv /\ InsertJob(w) => IInv'
<1> SUFFICES ASSUME IInv, InsertJob(w) PROVE IInv' OBVIOUS
<1> USE DEF IInv, TypeOK
<1> DEFINE t == turn[w]
<1>1. t \in Turn /\ t.pc = "firing" BY DEF InsertJob
<1>2. PICK o \in t.todo :
        /\ turn' = [turn EXCEPT ![w].todo = @ \ {o}]
        /\ IF \E j \in jobs : j[1] = o /\ j[3] = DedupeKey(t)
           THEN UNCHANGED <<jobs, recent>>
           ELSE /\ jobs' = jobs \union {<<o, t.tick, DedupeKey(t)>>}
                /\ recent' = IF Fresh(t) THEN [recent EXCEPT ![o] = @ + 1] ELSE recent
    BY DEF InsertJob
<1>3. UNCHANGED <<now, suspended, row, crashes>> BY DEF InsertJob
<1>4. o \in Org /\ t.tick \in Tick /\ t.tick \in Nat /\ t.todo \subseteq Org
    BY <1>1 DEF Turn, Tick
<1>5. turn' \in [Worker -> Turn] /\ turn'[w].tick = t.tick
      /\ turn'[w].todo = t.todo \ {o} /\ turn'[w].pc = "firing"
    BY <1>1, <1>2 DEF Turn
<1>6. \A v \in Worker : turn'[v].pc = "firing" => v = w
    BY <1>1, <1>2 DEF FiringIsDue
<1>7. /\ jobs' \subseteq Org \X Tick \X Nat
      /\ recent' \in [Org -> Nat]
      /\ jobs \subseteq jobs'
      /\ KeyIsTick'
      /\ OneJobPerTick'
      /\ \E j \in jobs' : j[1] = o /\ j[2] = t.tick
    <2>1. CASE \E j \in jobs : j[1] = o /\ j[3] = DedupeKey(t)
        <3>1. jobs' = jobs /\ recent' = recent BY <1>2, <2>1
        <3>2. \E j \in jobs : j[1] = o /\ j[2] = t.tick
            BY <2>1 DEF KeyIsTick, DedupeKey
        <3> QED BY <3>1, <3>2 DEF KeyIsTick, OneJobPerTick
    <2>2. CASE ~ \E j \in jobs : j[1] = o /\ j[3] = DedupeKey(t)
        <3> DEFINE n == <<o, t.tick, t.tick>>
        <3>1. jobs' = jobs \union {n} /\ recent' \in {recent, [recent EXCEPT ![o] = @ + 1]}
            BY <1>2, <2>2 DEF DedupeKey
        <3>2. n \in Org \X Tick \X Nat /\ n[1] = o /\ n[2] = t.tick /\ n[3] = t.tick
            BY <1>4
        <3>3. \A j \in jobs : ~(j[1] = o /\ j[2] = t.tick)
            BY <2>2 DEF KeyIsTick, DedupeKey
        <3> HIDE DEF n
        <3>4. KeyIsTick' BY <3>1, <3>2 DEF KeyIsTick
        <3>5. OneJobPerTick' BY <3>1, <3>2, <3>3 DEF OneJobPerTick
        <3>6. jobs' \subseteq Org \X Tick \X Nat BY <3>1, <3>2
        <3>7. recent' \in [Org -> Nat] BY <3>1, <1>4
        <3> QED BY <3>1, <3>2, <3>4, <3>5, <3>6, <3>7
    <2> QED BY <2>1, <2>2
<1>8. TypeOK' BY <1>3, <1>5, <1>7
<1>9. FiringIsDue' BY <1>1, <1>3, <1>5, <1>6 DEF FiringIsDue
<1>10. ListedOrDone'
    <2> SUFFICES ASSUME NEW p \in Steady \ (t.todo \ {o})
                 PROVE  \E j \in jobs' : j[1] = p /\ j[2] = t.tick
        BY <1>5, <1>6 DEF ListedOrDone
    <2>1. CASE p = o BY <2>1, <1>7
    <2>2. CASE p # o
        <3>1. \E j \in jobs : j[1] = p /\ j[2] = t.tick
            BY <2>2, <1>1 DEF ListedOrDone
        <3> QED BY <3>1, <1>7
    <2> QED BY <2>1, <2>2
<1>11. FiredForAll' BY <1>3, <1>7 DEF FiredForAll
<1> QED BY <1>7, <1>8, <1>9, <1>10, <1>11

\* The row moves on when the list is empty: the tick it records is complete.
LEMMA AdvanceIInv == ASSUME NEW w \in Worker PROVE IInv /\ Advance(w) => IInv'
<1> SUFFICES ASSUME IInv, Advance(w) PROVE IInv' OBVIOUS
<1> USE DEF IInv, TypeOK
<1> DEFINE t == turn[w]
<1>1. t \in Turn /\ t.pc = "firing" /\ t.todo = {} BY DEF Advance, MayAdvance
<1>2. t.at \in Nat /\ t.tick \in Tick BY <1>1 DEF Turn
<1>3. row' = [next |-> NextFire(t.at), last |-> t.tick] BY DEF Advance, Advanced
<1>4. row' \in [next : Tick, last : Tick] /\ row'.last = t.tick
    BY <1>2, <1>3, NextFireIsTick
<1>5. turn' = [turn EXCEPT ![w] = Idle] /\ UNCHANGED <<now, suspended, jobs, crashes, recent>>
    BY DEF Advance
<1>6. \A v \in Worker : turn'[v].pc # "firing"
    BY <1>1, <1>5, IdleTurn DEF FiringIsDue
<1>7. TypeOK' BY <1>4, <1>5, IdleTurn
<1>8. FiringIsDue' /\ ListedOrDone' BY <1>6 DEF FiringIsDue, ListedOrDone
<1>9. FiredForAll' BY <1>1, <1>4, <1>5 DEF FiredForAll, ListedOrDone
<1> QED BY <1>5, <1>7, <1>8, <1>9 DEF KeyIsTick, OneJobPerTick

-----------------------------------------------------------------------------
LEMMA InductiveStep == IInv /\ [Next]_vars => IInv'
<1> SUFFICES ASSUME IInv, [Next]_vars PROVE IInv' OBVIOUS
<1>1. CASE TimePasses BY <1>1, TimePassesIInv
<1>2. ASSUME NEW o \in Org, Suspend(o) PROVE IInv' BY <1>2, SuspendIInv
<1>3. ASSUME NEW w \in Worker, TurnStart(w) \/ SyncStart(w) \/ Crash(w) PROVE IInv'
    BY <1>3, BeginsIInv
<1>4. ASSUME NEW w \in Worker, TakeDue(w) PROVE IInv' BY <1>4, TakeDueIInv
<1>5. ASSUME NEW w \in Worker, InsertJob(w) PROVE IInv' BY <1>5, InsertJobIInv
<1>6. ASSUME NEW w \in Worker, Advance(w) PROVE IInv' BY <1>6, AdvanceIInv
<1>7. ASSUME NEW w \in Worker, SyncWrite(w) PROVE IInv' BY <1>7, SyncWriteIInv
<1>8. CASE UNCHANGED vars
    BY <1>8 DEF vars, IInv, TypeOK, KeyIsTick, OneJobPerTick, FiringIsDue, ListedOrDone, FiredForAll
<1> QED BY <1>1, <1>2, <1>3, <1>4, <1>5, <1>6, <1>7, <1>8 DEF Next, Step

\* Every reachable state satisfies the inductive invariant (lib/jobs/scheduler.ts).
THEOREM Inductive == Spec => []IInv
BY InitIInv, InductiveStep, PTL DEF Spec

\* Types, and every tick in the row, in a turn or in a job is one of the cron's.
THEOREM TypeCorrect == Spec => []TypeOK
<1>1. IInv => TypeOK BY DEF IInv
<1> QED BY <1>1, Inductive, PTL

\* A tick fires at most once per organization, whatever the number of workers,
\* wherever a turn dies and whenever a starting worker takes the tick back.
THEOREM FiresOnce == Spec => []OneJobPerTick
<1>1. IInv => OneJobPerTick BY DEF IInv
<1> QED BY <1>1, Inductive, PTL

\* A tick that is recorded as fired was fired for every organization that was
\* not suspended in the meantime: the row moves on only after all of them.
THEOREM FiresForAll == Spec => []FiredForAll
<1>1. IInv => FiredForAll BY DEF IInv
<1> QED BY <1>1, Inductive, PTL

\* One worker fires at a time and fires the tick the row still holds.
THEOREM OneLeader == Spec => []FiringIsDue
<1>1. IInv => FiringIsDue BY DEF IInv
<1> QED BY <1>1, Inductive, PTL

-----------------------------------------------------------------------------
(* No burst.  A worker is stale when it still acts on a reading of the     *)
(* clock from before the last tick of the cron.  One job is owed to an     *)
(* organization while the row is due with a tick it has no job of; only a  *)
(* stale turn, at its end, makes the row due again once it has moved on.   *)

Stale == {w \in Worker : turn[w].pc # "idle" /\ ~Fresh(turn[w])}

Owed(o) ==
    IF /\ row.next # 0 /\ row.next <= now
       /\ ~ \E j \in jobs : j[1] = o /\ j[2] = row.next
    THEN 1 ELSE 0

\* The ticks a turn fires are due.
FiresDue == \A w \in Worker : turn[w].pc = "firing" => turn[w].tick # 0 /\ turn[w].tick <= turn[w].at
NoFuture == \A w \in Worker : turn[w].pc # "idle" => turn[w].at <= now

Bounded(o) ==
    \/ recent[o] + Cardinality(Stale) + Owed(o) <= Cardinality(Worker)
    \/ Stale = Worker /\ recent[o] = 0

BurstInv ==
    /\ IsFiniteSet(Worker)
    /\ IInv /\ FiresDue /\ NoFuture
    /\ \A o \in Org : Bounded(o)

LEMMA OwedType == \A o : Owed(o) \in {0, 1}
BY DEF Owed

\* The clock moves within a period.
LEMMA SamePeriod ==
    ASSUME NEW n \in Nat, (n + 1) % Period # 0
    PROVE  (n + 1) \div Period = n \div Period
BY SizesAssumption

LEMMA StaleSizes ==
    ASSUME IsFiniteSet(Worker)
    PROVE  /\ Cardinality(Worker) \in Nat
           /\ \A S \in SUBSET Worker :
                /\ IsFiniteSet(S) /\ Cardinality(S) \in Nat
                /\ S # Worker => Cardinality(S) < Cardinality(Worker)
           /\ \A S, T \in SUBSET Worker : S \subseteq T => Cardinality(S) <= Cardinality(T)
           /\ \A S \in SUBSET Worker : \A w \in S : Cardinality(S \ {w}) = Cardinality(S) - 1
<1>1. Cardinality(Worker) \in Nat
  BY FS_CardinalityType
<1>2. ASSUME NEW S \in SUBSET Worker
      PROVE  /\ IsFiniteSet(S) /\ Cardinality(S) \in Nat
             /\ S # Worker => Cardinality(S) < Cardinality(Worker)
  <2>1. /\ IsFiniteSet(S) /\ Cardinality(S) <= Cardinality(Worker)
        /\ Cardinality(S) = Cardinality(Worker) => S = Worker
    BY FS_Subset
  <2> QED BY <1>1, <2>1, FS_CardinalityType
<1>3. ASSUME NEW S \in SUBSET Worker, NEW T \in SUBSET Worker, S \subseteq T
      PROVE  Cardinality(S) <= Cardinality(T)
  BY <1>2, <1>3, FS_Subset
<1>4. ASSUME NEW S \in SUBSET Worker, NEW w \in S
      PROVE  Cardinality(S \ {w}) = Cardinality(S) - 1
  BY <1>2, <1>4, FS_RemoveElement
<1> QED BY <1>1, <1>2, <1>3, <1>4

\* A step that makes nobody stale, adds no recent job and owes no more.
LEMMA NoMoreOwed ==
    ASSUME BurstInv, Stale' \subseteq Stale, NEW o \in Org,
           recent'[o] = recent[o], Owed(o)' <= Owed(o)
    PROVE  Bounded(o)'
<1>1. recent[o] \in Nat /\ Bounded(o) /\ IsFiniteSet(Worker)
  BY DEF BurstInv, IInv, TypeOK
<1>2. Owed(o) \in {0, 1} /\ Owed(o)' \in {0, 1}
  BY DEF Owed
<1>3. Stale \subseteq Worker /\ Stale' \subseteq Worker
  BY DEF Stale
<1>4. /\ Cardinality(Worker) \in Nat /\ Cardinality(Stale) \in Nat /\ Cardinality(Stale') \in Nat
      /\ Cardinality(Stale') <= Cardinality(Stale)
      /\ Stale' # Worker => Cardinality(Stale') < Cardinality(Worker)
  BY <1>1, <1>3, StaleSizes
<1> DEFINE s == Cardinality(Stale)
           z == Cardinality(Stale')
           d == Owed(o)
           e == Owed(o)'
<1>5. CASE recent[o] + s + d <= Cardinality(Worker)
  <2>1. recent[o] + z + e <= Cardinality(Worker)
    <3> HIDE DEF s, z, d, e
    <3> QED BY <1>1, <1>2, <1>4, <1>5 DEF s, z, d, e
  <2> QED BY <2>1 DEF Bounded
<1>6. CASE Stale = Worker /\ recent[o] = 0
  <2>1. CASE Stale' = Worker
    BY <1>6, <2>1 DEF Bounded
  <2>2. CASE Stale' # Worker
    <3>1. recent[o] + z + e <= Cardinality(Worker)
      BY <1>2, <1>4, <1>6, <2>2
    <3> QED BY <3>1 DEF Bounded
  <2> QED BY <2>1, <2>2
<1> QED BY <1>1, <1>5, <1>6 DEF Bounded

\* A stale turn ends: whatever it leaves due, there is one stale turn less.
LEMMA StaleEnds ==
    ASSUME BurstInv, NEW w \in Stale, Stale' = Stale \ {w}, NEW o \in Org, recent'[o] = recent[o]
    PROVE  Bounded(o)'
<1>1. recent[o] \in Nat /\ Bounded(o) /\ IsFiniteSet(Worker)
  BY DEF BurstInv, IInv, TypeOK
<1>2. Owed(o) \in {0, 1} /\ Owed(o)' \in {0, 1}
  BY DEF Owed
<1>3. Stale \subseteq Worker
  BY DEF Stale
<1>4. /\ Cardinality(Worker) \in Nat /\ Cardinality(Stale) \in Nat
      /\ Cardinality(Stale') = Cardinality(Stale) - 1
  BY <1>1, <1>3, StaleSizes
<1>5. recent'[o] + Cardinality(Stale') + Owed(o)' <= Cardinality(Worker)
  BY <1>1, <1>2, <1>4 DEF Bounded
<1> QED BY <1>5 DEF Bounded

\* What a turn of w does to the stale ones.
LEMMA StaleStep ==
    ASSUME IInv, NEW w \in Worker, NEW r \in Turn, now' = now, turn' = [turn EXCEPT ![w] = r]
    PROVE  /\ (r.pc = "idle" \/ Fresh(r)) => Stale' = Stale \ {w}
           /\ (w \in Stale \/ r.pc = "idle" \/ Fresh(r)) => Stale' \subseteq Stale
<1>1. /\ \A v \in Worker : turn'[v] = IF v = w THEN r ELSE turn[v]
      /\ \A t : Fresh(t)' = (t.at \div Period = now \div Period)
  BY DEF IInv, TypeOK, Fresh
<1> QED BY <1>1 DEF Stale, Fresh

\* The clock, the suspensions and the turns that begin, stop or die.
LEMMA QuietStepBounded ==
    ASSUME BurstInv, NEW w \in Worker,
           TurnStart(w) \/ SyncStart(w) \/ TakeDue(w) \/ Crash(w)
    PROVE  FiresDue' /\ NoFuture' /\ \A o \in Org : Bounded(o)'
<1>0. /\ IInv /\ TypeOK /\ FiresDue /\ NoFuture /\ turn[w] \in Turn
      /\ \A v \in Worker : turn[v] \in Turn
  BY DEF BurstInv, IInv, TypeOK
<1>1. PICK r \in Turn :
        /\ turn' = [turn EXCEPT ![w] = r]
        /\ r.pc # "idle" => r.at <= now
        /\ r.pc = "firing" => r.tick # 0 /\ r.tick <= r.at
        /\ r.pc # "idle" => (r.at = now \/ (r.at = turn[w].at /\ turn[w].pc # "idle"))
  <2>1. now \in Nat /\ row.next \in Tick
    BY <1>0 DEF TypeOK
  <2>2. CASE TurnStart(w)
    <3> DEFINE r == [Idle EXCEPT !.pc = "ticking", !.at = now]
    <3>1. r \in Turn /\ r.pc = "ticking" /\ r.at = now BY <2>1, IdleTurn DEF Turn, Idle
    <3>2. turn' = [turn EXCEPT ![w] = r] BY <2>2 DEF TurnStart
    <3>3. r.at <= now /\ r.pc # "idle" /\ r.pc # "firing" BY <2>1, <3>1
    <3> HIDE DEF r
    <3> QED BY <3>1, <3>2, <3>3
  <2>3. CASE SyncStart(w)
    <3> DEFINE r == [Idle EXCEPT !.pc = "syncing", !.at = now]
    <3>1. r \in Turn /\ r.pc = "syncing" /\ r.at = now BY <2>1, IdleTurn DEF Turn, Idle
    <3>2. turn' = [turn EXCEPT ![w] = r] BY <2>3 DEF SyncStart
    <3>3. r.at <= now /\ r.pc # "idle" /\ r.pc # "firing" BY <2>1, <3>1
    <3> HIDE DEF r
    <3> QED BY <3>1, <3>2, <3>3
  <2>4. CASE Crash(w)
    <3>1. turn' = [turn EXCEPT ![w] = Idle] BY <2>4 DEF Crash
    <3> QED BY <3>1, IdleTurn
  <2>5. CASE TakeDue(w) /\ ~(row.next # 0 /\ row.next <= turn[w].at /\ ~RowHeld)
    <3>1. turn' = [turn EXCEPT ![w] = Idle] BY <2>5 DEF TakeDue
    <3> QED BY <3>1, IdleTurn
  <2>6. CASE TakeDue(w) /\ (row.next # 0 /\ row.next <= turn[w].at /\ ~RowHeld)
    <3> DEFINE r == [pc |-> "firing", at |-> turn[w].at, tick |-> row.next, todo |-> Live]
    <3>1. r \in Turn BY <1>0, <2>1 DEF Turn, Live
    <3>2. turn' = [turn EXCEPT ![w] = r] /\ turn[w].pc = "ticking" BY <2>6 DEF TakeDue
    <3>3. r.pc = "firing" /\ r.at = turn[w].at /\ r.tick = row.next OBVIOUS
    <3> HIDE DEF r
    <3> QED BY <1>0, <2>6, <3>1, <3>2, <3>3 DEF NoFuture
  <2> QED BY <2>2, <2>3, <2>4, <2>5, <2>6
<1>2. UNCHANGED <<now, row, jobs, recent>>
  BY DEF TurnStart, SyncStart, TakeDue, Crash
<1>3. \A v \in Worker : turn'[v] = IF v = w THEN r ELSE turn[v]
  BY <1>0, <1>1 DEF TypeOK
<1>4. FiresDue' /\ NoFuture'
  BY <1>0, <1>1, <1>2, <1>3 DEF FiresDue, NoFuture
<1>5. w \in Stale \/ r.pc = "idle" \/ Fresh(r)
  BY <1>1 DEF Stale, Fresh
<1>6. Stale' \subseteq Stale
  BY <1>0, <1>1, <1>2, <1>5, StaleStep
<1>7. ASSUME NEW o \in Org PROVE Bounded(o)'
  <2>1. recent'[o] = recent[o] /\ Owed(o)' <= Owed(o)
    BY <1>2 DEF Owed
  <2> QED BY <1>6, <2>1, NoMoreOwed
<1> QED BY <1>4, <1>7

LEMMA WorldBounded ==
    ASSUME BurstInv, TimePasses \/ \E o \in Org : Suspend(o)
    PROVE  FiresDue' /\ NoFuture' /\ \A o \in Org : Bounded(o)'
<1>0. /\ IInv /\ TypeOK /\ FiresDue /\ NoFuture /\ IsFiniteSet(Worker)
      /\ now \in Nat /\ row.next \in Tick /\ \A w \in Worker : turn[w].at \in Nat
  BY DEF BurstInv, IInv, TypeOK, Turn
<1>1. UNCHANGED <<row, jobs, turn>> /\ now' \in {now, now + 1}
  BY DEF TimePasses, Suspend
<1>2. FiresDue' /\ NoFuture'
  BY <1>0, <1>1 DEF FiresDue, NoFuture
<1>3. CASE \E o \in Org : Suspend(o)
  <2>1. now' = now /\ recent' = recent
    BY <1>3 DEF Suspend
  <2>2. Stale' \subseteq Stale
    BY <1>1, <2>1 DEF Stale, Fresh
  <2>3. ASSUME NEW o \in Org PROVE Bounded(o)'
    <3>1. recent'[o] = recent[o] /\ Owed(o)' <= Owed(o)
      BY <1>1, <2>1 DEF Owed
    <3> QED BY <2>2, <3>1, NoMoreOwed
  <2> QED BY <1>2, <2>3
<1>4. CASE TimePasses /\ (now + 1) % Period # 0
  <2>1. now' = now + 1 /\ recent' = recent
    BY <1>4 DEF TimePasses
  <2>2. (now + 1) \div Period = now \div Period
    BY <1>0, <1>4, SamePeriod
  <2>3. Stale' \subseteq Stale
    BY <1>1, <2>1, <2>2 DEF Stale, Fresh
  <2>4. row.next <= now + 1 => row.next <= now
    <3>1. row.next % Period = 0 /\ row.next \in Nat
      BY <1>0 DEF Tick
    <3>2. row.next # now + 1
      BY <1>4, <3>1
    <3> QED BY <1>0, <3>1, <3>2
  <2>5. ASSUME NEW o \in Org PROVE Bounded(o)'
    <3>1. recent'[o] = recent[o] /\ Owed(o)' <= Owed(o)
      BY <1>1, <2>1, <2>4 DEF Owed
    <3> QED BY <2>3, <3>1, NoMoreOwed
  <2> QED BY <1>2, <2>5
<1>5. CASE TimePasses /\ (now + 1) % Period = 0
  <2>1. \A o \in Org : recent'[o] = 0
    BY <1>5 DEF TimePasses
  <2>2. Stale' \subseteq Worker
    BY DEF Stale
  <2>3. /\ Cardinality(Worker) \in Nat /\ Cardinality(Stale') \in Nat
        /\ Stale' # Worker => Cardinality(Stale') < Cardinality(Worker)
    BY <1>0, <2>2, StaleSizes
  <2>4. \A o \in Org : Owed(o)' \in {0, 1}
    BY DEF Owed
  <2> QED BY <1>2, <2>1, <2>3, <2>4 DEF Bounded
<1> QED BY <1>3, <1>4, <1>5

\* A fresh turn gives an organization the job it is owed.
LEMMA InsertJobBounded ==
    ASSUME BurstInv, NEW w \in Worker, InsertJob(w)
    PROVE  FiresDue' /\ NoFuture' /\ \A o \in Org : Bounded(o)'
<1> DEFINE t == turn[w]
<1>0. /\ IInv /\ TypeOK /\ FiresDue /\ NoFuture /\ FiringIsDue /\ KeyIsTick /\ IsFiniteSet(Worker)
      /\ t \in Turn /\ t.pc = "firing" /\ t.tick = row.next /\ t.at <= now
      /\ t.tick # 0 /\ t.tick <= t.at /\ t.at \in Nat /\ t.tick \in Nat /\ now \in Nat
  BY DEF BurstInv, IInv, TypeOK, InsertJob, FiringIsDue, FiresDue, NoFuture, Turn, Tick
<1>1. PICK p \in t.todo :
        /\ turn' = [turn EXCEPT ![w].todo = @ \ {p}]
        /\ IF \E j \in jobs : j[1] = p /\ j[3] = DedupeKey(t)
           THEN UNCHANGED <<jobs, recent>>
           ELSE /\ jobs' = jobs \union {<<p, t.tick, DedupeKey(t)>>}
                /\ recent' = IF Fresh(t) THEN [recent EXCEPT ![p] = @ + 1] ELSE recent
  BY DEF InsertJob
<1>2. UNCHANGED <<now, row>>
  BY DEF InsertJob
<1>3. p \in Org /\ recent \in [Org -> Nat]
  BY <1>0, <1>1 DEF Turn, TypeOK
<1> DEFINE r == [t EXCEPT !.todo = @ \ {p}]
<1>4. /\ r \in Turn /\ r.pc = "firing" /\ r.at = t.at /\ r.tick = t.tick
      /\ turn' = [turn EXCEPT ![w] = r]
  BY <1>0, <1>1 DEF Turn
<1> HIDE DEF r
<1>5. \A v \in Worker : turn'[v] = IF v = w THEN r ELSE turn[v]
  BY <1>0, <1>4 DEF TypeOK
<1>6. FiresDue' /\ NoFuture'
  BY <1>0, <1>2, <1>4, <1>5 DEF FiresDue, NoFuture
<1>7. Stale' = Stale
  BY <1>0, <1>2, <1>4, <1>5 DEF Stale, Fresh
<1>8. jobs \subseteq jobs'
  BY <1>1
<1>9. \A o \in Org : Owed(o)' <= Owed(o)
  BY <1>2, <1>8 DEF Owed
<1>10. ASSUME NEW o \in Org, recent'[o] = recent[o] PROVE Bounded(o)'
  BY <1>7, <1>9, <1>10, NoMoreOwed
<1>11. ASSUME NEW o \in Org, recent'[o] # recent[o] PROVE Bounded(o)'
  <2>1. /\ o = p /\ Fresh(t) /\ recent'[o] = recent[o] + 1
        /\ ~ \E j \in jobs : j[1] = p /\ j[3] = DedupeKey(t)
        /\ jobs' = jobs \union {<<p, t.tick, DedupeKey(t)>>}
    BY <1>1, <1>3, <1>11
  <2>2. Owed(o) = 1
    BY <1>0, <2>1 DEF Owed, KeyIsTick, DedupeKey
  <2>3. \E j \in jobs' : j[1] = o /\ j[2] = row'.next
    <3>1. <<p, t.tick, DedupeKey(t)>> \in jobs'
      BY <2>1
    <3>2. <<p, t.tick, DedupeKey(t)>>[1] = o /\ <<p, t.tick, DedupeKey(t)>>[2] = row'.next
      BY <1>0, <1>2, <2>1
    <3> QED BY <3>1, <3>2
  <2>4. Owed(o)' = 0
    BY <2>3 DEF Owed
  <2>5. Stale # Worker
    BY <1>0, <2>1 DEF Stale
  <2>6. Cardinality(Worker) \in Nat /\ Cardinality(Stale) \in Nat
    BY <1>0, StaleSizes DEF Stale
  <2>7. recent[o] + Cardinality(Stale) + 1 <= Cardinality(Worker)
    BY <2>2, <2>5 DEF BurstInv, Bounded
  <2>8. recent'[o] + Cardinality(Stale') + Owed(o)' <= Cardinality(Worker)
    BY <1>3, <1>7, <2>1, <2>4, <2>6, <2>7
  <2> QED BY <2>8 DEF Bounded
<1> QED BY <1>6, <1>10, <1>11

\* A turn or a sync ends: a fresh one leaves the row beyond now, a stale one
\* is one less.
LEMMA EndsBounded ==
    ASSUME BurstInv, NEW w \in Worker, Advance(w) \/ SyncWrite(w)
    PROVE  FiresDue' /\ NoFuture' /\ \A o \in Org : Bounded(o)'
<1> DEFINE t == turn[w]
<1>0. /\ IInv /\ TypeOK /\ FiresDue /\ NoFuture
      /\ t \in Turn /\ t.at \in Nat /\ now \in Nat /\ t.pc # "idle"
      /\ row \in [next : Tick, last : Tick]
  BY DEF BurstInv, IInv, TypeOK, Turn, Advance, MayAdvance, SyncWrite
<1>1. turn' = [turn EXCEPT ![w] = Idle] /\ UNCHANGED <<now, jobs, recent>>
  BY DEF Advance, SyncWrite
<1>2. \A v \in Worker : turn'[v] = IF v = w THEN Idle ELSE turn[v]
  BY <1>0, <1>1 DEF TypeOK
<1>3. FiresDue' /\ NoFuture'
  BY <1>0, <1>1, <1>2, IdleTurn DEF FiresDue, NoFuture
<1>4. Stale' = Stale \ {w}
  BY <1>0, <1>1, IdleTurn, StaleStep
<1>5. row'.next \in {row.next, NextFire(t.at)}
  <2>1. CASE Advance(w)
    BY <2>1 DEF Advance, Advanced
  <2>2. CASE SyncWrite(w)
    <3> DEFINE next == NextFire(t.at)
    <3>1. row' = IF row.next = 0 \/ row.next > next THEN [row EXCEPT !.next = next] ELSE row
      BY <2>2 DEF SyncWrite
    <3> HIDE DEF next
    <3>2. row'.next \in {row.next, next}
      BY <1>0, <3>1
    <3> QED BY <3>2 DEF next
  <2> QED BY <2>1, <2>2
<1>6. CASE w \in Stale
  BY <1>1, <1>3, <1>4, <1>6, StaleEnds
<1>7. CASE w \notin Stale
  <2>1. Fresh(t)
    BY <1>0, <1>7 DEF Stale
  <2>2. NextFire(t.at) = NextFire(now)
    BY <2>1 DEF Fresh, NextFire
  <2>3. NextFire(now) > now /\ NextFire(now) \in Nat
    BY <1>0, NextFireIsTick DEF Tick
  <2>4. row'.next = row.next \/ ~(row'.next <= now)
    BY <1>0, <1>5, <2>2, <2>3
  <2>5. \A o \in Org : Owed(o)' <= Owed(o)
    BY <1>1, <2>4 DEF Owed
  <2> QED BY <1>1, <1>3, <1>4, <2>5, NoMoreOwed
<1> QED BY <1>6, <1>7

LEMMA BurstStep == BurstInv /\ [Next]_vars => BurstInv'
<1> SUFFICES ASSUME BurstInv, [Next]_vars PROVE BurstInv'
  OBVIOUS
<1>1. IInv'
  BY InductiveStep DEF BurstInv
<1>2. FiresDue' /\ NoFuture' /\ \A o \in Org : Bounded(o)'
  <2>1. CASE TimePasses \/ \E o \in Org : Suspend(o)
    BY <2>1, WorldBounded
  <2>2. ASSUME NEW w \in Worker, TurnStart(w) \/ SyncStart(w) \/ TakeDue(w) \/ Crash(w)
        PROVE  FiresDue' /\ NoFuture' /\ \A o \in Org : Bounded(o)'
    BY <2>2, QuietStepBounded
  <2>3. ASSUME NEW w \in Worker, InsertJob(w)
        PROVE  FiresDue' /\ NoFuture' /\ \A o \in Org : Bounded(o)'
    BY <2>3, InsertJobBounded
  <2>4. ASSUME NEW w \in Worker, Advance(w) \/ SyncWrite(w)
        PROVE  FiresDue' /\ NoFuture' /\ \A o \in Org : Bounded(o)'
    BY <2>4, EndsBounded
  <2>5. CASE UNCHANGED vars
    <3>1. /\ now' = now /\ row' = row /\ jobs' = jobs /\ turn' = turn /\ recent' = recent
      BY <2>5 DEF vars
    <3>2. Stale' = Stale /\ \A o \in Org : Owed(o)' = Owed(o)
      BY <3>1 DEF Stale, Fresh, Owed
    <3> QED BY <3>1, <3>2 DEF BurstInv, FiresDue, NoFuture, Bounded
  <2> QED BY <2>1, <2>2, <2>3, <2>4, <2>5 DEF Next, Step
<1> QED BY <1>1, <1>2 DEF BurstInv

LEMMA InitBurst == IsFiniteSet(Worker) /\ Init => BurstInv
<1> SUFFICES ASSUME IsFiniteSet(Worker), Init PROVE BurstInv
  OBVIOUS
<1>1. FiresDue /\ NoFuture
  BY IdleTurn DEF Init, FiresDue, NoFuture
<1>2. ASSUME NEW o \in Org PROVE Bounded(o)
  <2>1. Stale = {} /\ recent[o] = 0 /\ Owed(o) = 0
    BY IdleTurn DEF Init, Stale, Owed
  <2>2. Cardinality({}) = 0 /\ Cardinality(Worker) \in Nat
    BY FS_EmptySet, FS_CardinalityType
  <2> QED BY <2>1, <2>2 DEF Bounded
<1> QED BY <1>1, <1>2, InitIInv DEF BurstInv

\* "No burst of catch-up runs" for any number of workers and organizations: the
\* turns that begin between two ticks of the cron give an organization at most
\* one job per worker.
THEOREM NeverABurst == IsFiniteSet(Worker) /\ Spec => []NoBurst
<1>1. BurstInv => NoBurst
  <2> SUFFICES ASSUME BurstInv, NEW o \in Org PROVE recent[o] <= Cardinality(Worker)
    BY DEF NoBurst
  <2>1. /\ Bounded(o) /\ recent[o] \in Nat /\ IsFiniteSet(Worker)
    BY DEF BurstInv, IInv, TypeOK
  <2>2. Cardinality(Worker) \in Nat /\ Cardinality(Stale) \in Nat
    BY <2>1, StaleSizes DEF Stale
  <2>3. Owed(o) \in {0, 1}
    BY OwedType
  <2> QED BY <2>1, <2>2, <2>3 DEF Bounded
<1> QED BY <1>1, InitBurst, BurstStep, PTL DEF Spec

-----------------------------------------------------------------------------
(* The cron expression's next tick.  The calendar is arithmetic; a jump    *)
(* passes over no match (JumpsRight), and what nextFire finds from any     *)
(* minute follows from what it finds from the later ones.                  *)

LEMMA DivMod ==
    ASSUME NEW n \in Nat \ {0}, NEW a \in Nat
    PROVE  /\ a \div n \in Nat /\ a % n \in 0 .. n - 1
           /\ a = n * (a \div n) + (a % n)
<1>1. a \div n \in Int /\ a % n \in 0 .. n - 1
  OBVIOUS
<1>2. a = n * (a \div n) + (a % n)
  OBVIOUS
<1>3. a \div n \in Nat
  OBVIOUS
<1> QED  BY <1>1, <1>2, <1>3

LEMMA ProductGrows ==
    ASSUME NEW n \in Nat, NEW a \in Int, NEW b \in Int, a <= b
    PROVE  n * a <= n * b
OBVIOUS

LEMMA QuotientIs ==
    ASSUME NEW n \in Nat \ {0}, NEW a \in Nat, NEW q \in Nat, n * q <= a, a < n * q + n
    PROVE  a \div n = q
<1> DEFINE d == a \div n
<1>1. d \in Nat /\ n * d <= a /\ a < n * d + n
  BY DivMod
<1> HIDE DEF d
<1>2. ~(d + 1 <= q)
  <2>1. n * (d + 1) = n * d + n  BY <1>1
  <2>2. d + 1 <= q => n * (d + 1) <= n * q  BY <1>1, ProductGrows
  <2> QED  BY <1>1, <2>1, <2>2
<1>3. ~(q + 1 <= d)
  <2>1. n * (q + 1) = n * q + n  OBVIOUS
  <2>2. q + 1 <= d => n * (q + 1) <= n * d  BY <1>1, ProductGrows
  <2> QED  BY <1>1, <2>1, <2>2
<1>4. d = q  BY <1>1, <1>2, <1>3
<1> QED  BY <1>4 DEF d

\* The fields of a local time: its day, and the minutes since its midnight.
LEMMA Fields ==
    ASSUME NEW m \in Nat
    PROVE  LET day == m \div MinutesPerDay
               hour == (m \div MinutesPerHour) % HoursPerDay
               minute == m % MinutesPerHour
           IN  /\ day \in Nat /\ hour \in 0 .. HoursPerDay - 1 /\ minute \in 0 .. MinutesPerHour - 1
               /\ m = MinutesPerDay * day + (hour * MinutesPerHour + minute)
               /\ hour * MinutesPerHour + minute \in 0 .. MinutesPerDay - 1
<1> USE CalendarAssumption
<1> DEFINE M == MinutesPerHour
           H == HoursPerDay
           hours == m \div M
           minute == m % M
           hour == hours % H
           days == hours \div H
<1>1. hours \in Nat /\ minute \in 0 .. M - 1 /\ m = M * hours + minute
  BY DivMod
<1>2. days \in Nat /\ hour \in 0 .. H - 1 /\ hours = H * days + hour
  BY <1>1, DivMod
<1>3. M \in Nat \ {0} /\ H \in Nat \ {0} /\ MinutesPerDay = M * H
  BY DEF MinutesPerDay
<1> HIDE DEF M, H, hours, minute, hour, days
<1>4. M * hours = (M * H) * days + M * hour
  BY <1>2, <1>3
<1>5. M * hour \in Nat /\ M * hour + M <= M * H /\ M * hour = hour * M
  <2>1. M * (hour + 1) <= M * H  BY <1>2, <1>3, ProductGrows
  <2> QED  BY <1>2, <1>3, <2>1
<1>6. M * H \in Nat \ {0}
  BY <1>3
<1> DEFINE D == M * H
           x == M * hour
           y == D * days
           z == M * hours
<1>7. D \in Nat \ {0} /\ x \in Nat /\ x + M <= D /\ z = y + x /\ y \in Nat /\ m = z + minute
  BY <1>1, <1>2, <1>4, <1>5, <1>6
<1> HIDE DEF x, y, z
<1>8. y <= m /\ m < y + D /\ x + minute \in 0 .. D - 1 /\ m = y + (x + minute)
  <2> HIDE DEF D
  <2> QED  BY <1>1, <1>3, <1>7
<1>9. D * days <= m /\ m < D * days + D
  BY <1>8 DEF y
<1>10. m \div D = days
  <2> HIDE DEF D
  <2> QED  BY ONLY <1>2, <1>7, <1>9, QuotientIs, m \in Nat
<1> QED  BY <1>1, <1>2, <1>3, <1>5, <1>8, <1>10 DEF M, H, hours, minute, hour, x, y, D

LEMMA Multiple ==
    ASSUME NEW n \in Nat \ {0}, NEW a \in Nat, NEW b \in Nat, b % n = 0
    PROVE  (a + b) % n = a % n
<1> DEFINE i == a \div n
           j == b \div n
           r == a % n
<1>1. i \in Nat /\ j \in Nat /\ r \in 0 .. n - 1 /\ a = n * i + r /\ b = n * j
  <2>1. i \in Nat /\ r \in 0 .. n - 1 /\ a = n * i + r  BY DivMod
  <2>2. j \in Nat /\ b = n * j + (b % n)  BY DivMod
  <2>3. n * j \in Nat  BY <2>2
  <2> QED  BY <2>1, <2>2, <2>3
<1> HIDE DEF i, j, r
<1>2. n * (i + j) = n * i + n * j  BY <1>1
<1> DEFINE x == n * (i + j)
           q == i + j
<1>3. x \in Nat /\ a + b = x + r /\ q \in Nat
  <2>1. n * i \in Nat /\ n * j \in Nat  BY <1>1
  <2> QED  BY <1>1, <1>2, <2>1
<1>4. n * q <= a + b /\ a + b < n * q + n
  <2>1. n * q = x  OBVIOUS
  <2> HIDE DEF x, q
  <2> QED  BY <1>1, <1>3, <2>1
<1>5. (a + b) \div n = q
  <2> HIDE DEF x, q
  <2>1. a + b \in Nat  OBVIOUS
  <2> QED  BY ONLY n \in Nat \ {0}, <1>3, <1>4, <2>1, QuotientIs
<1>6. (a + b) = n * ((a + b) \div n) + ((a + b) % n) /\ (a + b) % n \in Nat
  <2>1. a + b \in Nat  OBVIOUS
  <2> QED  BY <2>1, DivMod
<1>7. a + b = n * q + ((a + b) % n)  BY <1>5, <1>6
<1>8. (a + b) % n = r
  <2>1. n * q = x  OBVIOUS
  <2> DEFINE s == (a + b) % n
  <2>2. a + b = x + s /\ s \in Nat  BY <1>6, <1>7, <2>1
  <2> HIDE DEF x, q, s
  <2>3. s = r  BY <1>1, <1>3, <2>2
  <2> QED  BY <2>3 DEF s
<1> QED  BY <1>8 DEF r

LEMMA SameDay ==
    ASSUME NEW m \in Nat, NEW k \in Nat, NEW day \in Nat, day = m \div MinutesPerDay,
           MinutesPerDay * day <= k, k < MinutesPerDay * day + MinutesPerDay
    PROVE  k \div MinutesPerDay = m \div MinutesPerDay
<1>1. MinutesPerDay \in Nat \ {0}  BY CalendarAssumption DEF MinutesPerDay
<1> QED  BY <1>1, QuotientIs

\* How far the jumps go.
LEMMA Jumps ==
    ASSUME NEW zone, NEW t \in Nat, zone[t] \in Nat
    PROVE  LET m == t + zone[t]
               p == LocalParts(zone, t)
           IN  /\ ToMidnight(p) \in 1 .. MinutesPerDay
               /\ ToMidnight(p) = (MinutesPerDay * (m \div MinutesPerDay) + MinutesPerDay) - m
               /\ MinutesPerDay * (m \div MinutesPerDay) <= m
               /\ ToNextHour(p) \in 1 .. MinutesPerHour
               /\ ToNextHour(p) = MinutesPerHour - (m % MinutesPerHour)
               /\ MinutesPerHour <= MinutesPerDay
<1> USE CalendarAssumption
<1> DEFINE m == t + zone[t]
           p == LocalParts(zone, t)
           day == m \div MinutesPerDay
           hour == (m \div MinutesPerHour) % HoursPerDay
           minute == m % MinutesPerHour
           past == hour * MinutesPerHour + minute
           begun == MinutesPerDay * day
<1>1. m \in Nat  OBVIOUS
<1>2. p.minute = minute /\ p.hour = hour
  BY DEF LocalParts
<1> HIDE DEF m
<1>3. /\ day \in Nat /\ minute \in 0 .. MinutesPerHour - 1
      /\ m = begun + past /\ past \in 0 .. MinutesPerDay - 1 /\ hour \in 0 .. HoursPerDay - 1
  BY <1>1, Fields
<1>4. ToMidnight(p) = MinutesPerDay - past /\ ToNextHour(p) = MinutesPerHour - minute
  BY <1>2 DEF ToMidnight, ToNextHour
<1>5. MinutesPerDay \in Nat /\ begun \in Nat /\ MinutesPerHour <= MinutesPerDay
  <2>1. MinutesPerDay \in Nat  BY DEF MinutesPerDay
  <2>2. begun \in Nat  BY <1>3, <2>1
  <2>3. MinutesPerHour * 1 <= MinutesPerHour * HoursPerDay  BY ProductGrows
  <2> QED  BY <2>1, <2>2, <2>3 DEF MinutesPerDay
<1> HIDE DEF p, day, hour, minute, past, begun
<1>6. /\ MinutesPerDay - past \in 1 .. MinutesPerDay
      /\ MinutesPerDay - past = (begun + MinutesPerDay) - m
      /\ begun <= m /\ MinutesPerHour - minute \in 1 .. MinutesPerHour
  BY <1>3, <1>5
<1> QED  BY <1>4, <1>5, <1>6 DEF m, p, day, begun, minute

\* A zone keeps one offset up to some full hour and another from then on.
Offset(zone, at, before, after) ==
    /\ at \in Nat /\ at % MinutesPerHour = 0
    /\ before \in Nat /\ after \in Nat /\ before % MinutesPerHour = 0 /\ after % MinutesPerHour = 0
    /\ \A t \in Time : zone[t] = IF t < at THEN before ELSE after

LEMMA SmallMultiples ==
    /\ 0 % MinutesPerHour = 0 /\ MinutesPerHour % MinutesPerHour = 0
    /\ (MinutesPerHour + MinutesPerHour) % MinutesPerHour = 0
<1> USE CalendarAssumption
<1>1. 0 % MinutesPerHour = 0  OBVIOUS
<1>2. MinutesPerHour % MinutesPerHour = 0  OBVIOUS
<1> QED  BY <1>1, <1>2, Multiple

\* The clock of a zone of one offset, or that goes back, never goes back by more
\* than an hour.
LEMMA Backward ==
    ASSUME NEW zone \in {Uniform} \union Autumn
    PROVE  \E at, before, after : Offset(zone, at, before, after) /\ after = 0 /\ before \in {0, MinutesPerHour}
<1> USE CalendarAssumption
<1>1. CASE zone = Uniform
  <2>1. Offset(zone, 0, 0, 0)  BY <1>1, SmallMultiples DEF Offset, Uniform
  <2> QED  BY <2>1
<1>2. CASE zone \in Autumn
  <2>1. PICK at \in Changes : zone = Moved(at, -MinutesPerHour)  BY <1>2 DEF Autumn
  <2>2. MinutesPerHour + (-MinutesPerHour) = 0  OBVIOUS
  <2>3. Offset(zone, at, MinutesPerHour, 0)
    BY <2>1, <2>2, SmallMultiples DEF Offset, Moved
  <2> QED  BY <2>3
<1> QED  BY <1>1, <1>2

LEMMA Forward ==
    ASSUME NEW zone \in Spring
    PROVE  \E at, before, after : Offset(zone, at, before, after)
<1> USE CalendarAssumption
<1>1. PICK at \in Changes : zone = Moved(at, MinutesPerHour)  BY DEF Spring
<1>2. Offset(zone, at, MinutesPerHour, MinutesPerHour + MinutesPerHour)
  BY <1>1, SmallMultiples DEF Offset, Moved
<1> QED  BY <1>2

LEMMA LocalTimes ==
    ASSUME NEW zone, NEW at, NEW before, NEW after, Offset(zone, at, before, after), NEW t \in Time
    PROVE  zone[t] \in Nat /\ t \in Nat /\ (t + zone[t]) % MinutesPerHour = t % MinutesPerHour
<1> USE CalendarAssumption
<1>1. t \in Nat  BY DEF Time
<1>2. zone[t] \in Nat /\ zone[t] % MinutesPerHour = 0  BY DEF Offset
<1> QED  BY <1>1, <1>2, Multiple

\* Two full hours, one after the other, are an hour apart.
LEMMA FullHours ==
    ASSUME NEW n \in Nat \ {0}, NEW t \in Nat, NEW at \in Nat, at % n = 0, t < at
    PROVE  t + (n - (t % n)) <= at
<1> DEFINE i == t \div n
           j == at \div n
           r == t % n
<1>1. i \in Nat /\ r \in 0 .. n - 1 /\ t = n * i + r  BY DivMod
<1>2. j \in Nat /\ at = n * j
  <2>1. j \in Nat /\ at = n * j + (at % n)  BY DivMod
  <2>2. n * j \in Nat  BY <2>1
  <2> QED  BY <2>1, <2>2
<1> HIDE DEF i, j, r
<1>3. i + 1 <= j
  <2> SUFFICES ASSUME j <= i PROVE FALSE  BY <1>1, <1>2
  <2>1. n * j <= n * i  BY <1>1, <1>2, ProductGrows
  <2>2. n * i \in Nat  BY <1>1
  <2> QED  BY <1>1, <1>2, <2>1, <2>2
<1>4. n * (i + 1) <= n * j /\ n * (i + 1) = n * i + n  BY <1>1, <1>2, <1>3, ProductGrows
<1>5. n * i \in Nat  BY <1>1
<1>6. t + (n - r) <= at  BY <1>1, <1>2, <1>4, <1>5
<1> QED  BY <1>6 DEF r

\* Up to the next local hour the hour is the same, in any zone.
LEMMA SameHour ==
    ASSUME NEW zone, NEW at, NEW before, NEW after, Offset(zone, at, before, after),
           NEW t \in Time, NEW u \in Time, t <= u, u < t + ToNextHour(LocalParts(zone, t))
    PROVE  LocalParts(zone, u).hour = LocalParts(zone, t).hour
<1> USE CalendarAssumption
<1> DEFINE M == MinutesPerHour
           m == t + zone[t]
           k == u + zone[u]
           hours == m \div M
           r == m % M
<1>1. t \in Nat /\ u \in Nat /\ zone[t] \in Nat /\ r = t % M
  BY LocalTimes DEF Time
<1>2. u < t + (M - r)
  BY <1>1, Jumps
<1>3. zone[u] = zone[t]
  <2>1. u < at => t < at  BY <1>1 DEF Offset
  <2>2. t < at => u < at
    <3>1. t < at => t + (M - (t % M)) <= at  BY <1>1, FullHours DEF Offset
    <3>2. t % M \in Nat /\ at \in Nat /\ M \in Nat  BY <1>1 DEF Offset
    <3> HIDE DEF r, m, M
    <3> QED  BY <1>1, <1>2, <3>1, <3>2
  <2> QED  BY <2>1, <2>2 DEF Offset
<1>4. hours \in Nat /\ r \in 0 .. M - 1 /\ m = M * hours + r /\ M * hours \in Nat
  <2>1. m \in Nat  BY <1>1
  <2> HIDE DEF m
  <2>2. hours \in Nat /\ r \in 0 .. M - 1 /\ m = M * hours + r  BY <2>1, DivMod
  <2> QED  BY <2>2
<1>5. M * hours <= k /\ k < M * hours + M /\ k \in Nat
  <2>1. k = m + (u - t)  BY <1>1, <1>3
  <2> DEFINE x == M * hours
  <2>2. m = x + r /\ x \in Nat /\ r \in 0 .. M - 1 /\ M \in Nat  BY <1>4
  <2> HIDE DEF x, m, k, r, M
  <2>3. x <= k /\ k < x + M /\ k \in Nat  BY <1>1, <1>2, <2>1, <2>2
  <2> QED  BY <2>3 DEF x
<1>6. k \div M = hours
  <2> HIDE DEF k, hours
  <2> QED  BY <1>4, <1>5, QuotientIs
<1> QED  BY <1>6 DEF LocalParts

\* Up to the next local midnight the day is the same, unless the clock goes on.
LEMMA SameDayThere ==
    ASSUME NEW zone, NEW at, NEW before, NEW after, Offset(zone, at, before, after),
           after = 0, before \in {0, MinutesPerHour},
           NEW t \in Time, NEW u \in Time, t <= u, u < t + ToMidnight(LocalParts(zone, t))
    PROVE  (u + zone[u]) \div MinutesPerDay = (t + zone[t]) \div MinutesPerDay
<1> USE CalendarAssumption
<1> DEFINE M == MinutesPerHour
           D == MinutesPerDay
           m == t + zone[t]
           k == u + zone[u]
           day == m \div D
           begun == D * day
           left == ToMidnight(LocalParts(zone, t))
<1>1. t \in Nat /\ u \in Nat /\ zone[t] \in Nat /\ zone[u] \in Nat
  BY LocalTimes DEF Time
<1>2. left = (begun + D) - m /\ begun <= m /\ m \in Nat
  BY <1>1, Jumps
<1>3. day \in Nat /\ D \in Nat \ {0} /\ begun \in Nat
  <2>1. D \in Nat \ {0}  BY DEF MinutesPerDay
  <2>2. m \in Nat  BY <1>1
  <2> HIDE DEF m, D
  <2>3. day \in Nat  BY <2>1, <2>2, DivMod
  <2> QED  BY <2>1, <2>3
<1>4. begun <= k /\ k < begun + D
  <2>1. CASE zone[u] = zone[t]
    <3>1. k = m + (u - t)  BY <1>1, <2>1
    <3> HIDE DEF k, m, begun, D, left
    <3> QED  BY <1>1, <1>2, <1>3, <3>1 DEF left
  <2>2. CASE zone[u] # zone[t]
    <3>1. t < at /\ at <= u /\ zone[t] = M /\ zone[u] = 0 /\ at \in Nat /\ at % M = 0
      BY <1>1, <2>2 DEF Offset
    <3>2. k = u /\ m = t + M  BY <1>1, <3>1
    <3>3. begun <= at
      <4> DEFINE i == at \div M
                 h == HoursPerDay * day
      <4>1. i \in Nat /\ at = M * i /\ M \in Nat \ {0}
        <5>1. i \in Nat /\ at = M * i + (at % M)  BY <3>1, DivMod
        <5>2. M * i \in Nat  BY <5>1
        <5> QED  BY <3>1, <5>1, <5>2
      <4>2. h \in Nat /\ begun = M * h
        BY <1>3 DEF MinutesPerDay
      <4> HIDE DEF i, h, begun, m, k, M, day, D
      <4>3. begun < at + M  BY <1>1, <1>2, <1>3, <3>1, <3>2, <4>1
      <4>4. h <= i
        <5> SUFFICES ASSUME i + 1 <= h PROVE FALSE  BY <4>1, <4>2
        <5>1. M * (i + 1) <= M * h /\ M * (i + 1) = M * i + M  BY <4>1, <4>2, ProductGrows
        <5> QED  BY <1>3, <3>1, <4>1, <4>2, <4>3, <5>1
      <4> QED  BY <4>1, <4>2, <4>4, ProductGrows
    <3> HIDE DEF k, m, begun, D, left, M
    <3>4. M \in Nat  BY DEF M
    <3> QED  BY <1>1, <1>2, <1>3, <3>1, <3>2, <3>3, <3>4 DEF left
  <2> QED  BY <2>1, <2>2
<1>5. k \in Nat /\ m \in Nat  BY <1>1
<1> HIDE DEF m, k
<1>6. k \div D = m \div D
  BY <1>3, <1>4, <1>5, SameDay
<1> QED  BY <1>6 DEF k, m

Matches(spec, zone, t) == CronMatches(spec, LocalParts(zone, t))

\* No jump of nextFire passes over a match.
JumpsRight(spec, zone) ==
    \A t \in Time :
        LET p == LocalParts(zone, t) IN
        /\ ToMidnight(p) \in 1 .. MinutesPerDay /\ ToNextHour(p) \in 1 .. MinutesPerDay
        /\ p.month \notin spec.months \/ ~DayMatches(spec, p) =>
              \A u \in Time : t <= u /\ u < t + ToMidnight(p) => ~Matches(spec, zone, u)
        /\ p.hour \notin spec.hours =>
              \A u \in Time : t <= u /\ u < t + ToNextHour(p) => ~Matches(spec, zone, u)

LEMMA JumpSizes ==
    ASSUME NEW zone, NEW at, NEW before, NEW after, Offset(zone, at, before, after), NEW t \in Time
    PROVE  LET p == LocalParts(zone, t)
           IN  ToMidnight(p) \in 1 .. MinutesPerDay /\ ToNextHour(p) \in 1 .. MinutesPerDay
<1> DEFINE p == LocalParts(zone, t)
<1>1. t \in Nat /\ zone[t] \in Nat  BY LocalTimes
<1>2. /\ ToMidnight(p) \in 1 .. MinutesPerDay /\ ToNextHour(p) \in 1 .. MinutesPerHour
      /\ MinutesPerHour <= MinutesPerDay
  BY <1>1, Jumps
<1>3. MinutesPerHour \in Nat /\ MinutesPerDay \in Nat
  BY CalendarAssumption DEF MinutesPerDay
<1> HIDE DEF p
<1>4. ToNextHour(p) \in 1 .. MinutesPerDay  BY <1>2, <1>3
<1> QED  BY <1>2, <1>4 DEF p

LEMMA HourJump ==
    ASSUME NEW zone, NEW at, NEW before, NEW after, Offset(zone, at, before, after), NEW spec,
           NEW t \in Time, LocalParts(zone, t).hour \notin spec.hours,
           NEW u \in Time, t <= u, u < t + ToNextHour(LocalParts(zone, t))
    PROVE  ~Matches(spec, zone, u)
<1>1. LocalParts(zone, u).hour = LocalParts(zone, t).hour
  BY SameHour
<1> QED  BY <1>1 DEF Matches, CronMatches

LEMMA BackwardJumps ==
    ASSUME NEW zone \in {Uniform} \union Autumn, NEW spec
    PROVE  JumpsRight(spec, zone)
<1>1. PICK at, before, after :
         Offset(zone, at, before, after) /\ after = 0 /\ before \in {0, MinutesPerHour}
  BY Backward
<1> SUFFICES ASSUME NEW t \in Time
             PROVE  LET p == LocalParts(zone, t) IN
                    /\ ToMidnight(p) \in 1 .. MinutesPerDay /\ ToNextHour(p) \in 1 .. MinutesPerDay
                    /\ p.month \notin spec.months \/ ~DayMatches(spec, p) =>
                          \A u \in Time : t <= u /\ u < t + ToMidnight(p) => ~Matches(spec, zone, u)
                    /\ p.hour \notin spec.hours =>
                          \A u \in Time : t <= u /\ u < t + ToNextHour(p) => ~Matches(spec, zone, u)
  BY DEF JumpsRight
<1> DEFINE p == LocalParts(zone, t)
<1>2. ToMidnight(p) \in 1 .. MinutesPerDay /\ ToNextHour(p) \in 1 .. MinutesPerDay
  BY <1>1, JumpSizes
<1>3. ASSUME p.month \notin spec.months \/ ~DayMatches(spec, p),
             NEW u \in Time, t <= u, u < t + ToMidnight(p)
      PROVE  ~Matches(spec, zone, u)
  <2> DEFINE q == LocalParts(zone, u)
  <2>1. (u + zone[u]) \div MinutesPerDay = (t + zone[t]) \div MinutesPerDay
    BY <1>1, <1>3, SameDayThere
  <2>2. q.day = p.day /\ q.weekday = p.weekday /\ q.month = p.month
    BY <2>1 DEF LocalParts
  <2> HIDE DEF p, q
  <2>3. q.month \notin spec.months \/ ~DayMatches(spec, q)
    BY <1>3, <2>2 DEF DayMatches
  <2> QED  BY <2>3 DEF Matches, CronMatches, q
<1>4. ASSUME p.hour \notin spec.hours, NEW u \in Time, t <= u, u < t + ToNextHour(p)
      PROVE  ~Matches(spec, zone, u)
  BY <1>1, <1>4, HourJump
<1> QED  BY <1>2, <1>3, <1>4

LEMMA Unrestricted ==
    ASSUME NEW n, NEW f \in DayField(n), ~f.restricted
    PROVE  f.values = 0 .. n - 1
<1>1. CASE f \in [values : Field(n), restricted : {TRUE}]
  <2>1. f.restricted \in {TRUE}  BY <1>1
  <2>2. f.restricted = TRUE  BY <2>1
  <2> QED  BY <2>2
<1>2. CASE f = [values |-> 0 .. n - 1, restricted |-> FALSE]
  BY <1>2
<1> QED  BY <1>1, <1>2 DEF DayField

\* An expression that fires every day needs no jump to midnight.
LEMMA ForwardJumps ==
    ASSUME NEW zone \in Spring, NEW spec \in CronSpec, EveryDay(spec)
    PROVE  JumpsRight(spec, zone)
<1>1. PICK at, before, after : Offset(zone, at, before, after)
  BY Forward
<1> SUFFICES ASSUME NEW t \in Time
             PROVE  LET p == LocalParts(zone, t) IN
                    /\ ToMidnight(p) \in 1 .. MinutesPerDay /\ ToNextHour(p) \in 1 .. MinutesPerDay
                    /\ p.month \notin spec.months \/ ~DayMatches(spec, p) =>
                          \A u \in Time : t <= u /\ u < t + ToMidnight(p) => ~Matches(spec, zone, u)
                    /\ p.hour \notin spec.hours =>
                          \A u \in Time : t <= u /\ u < t + ToNextHour(p) => ~Matches(spec, zone, u)
  BY DEF JumpsRight
<1> DEFINE p == LocalParts(zone, t)
           day == (t + zone[t]) \div MinutesPerDay
<1>2. ToMidnight(p) \in 1 .. MinutesPerDay /\ ToNextHour(p) \in 1 .. MinutesPerDay
  BY <1>1, JumpSizes
<1>3. day \in Nat
  <2>1. t + zone[t] \in Nat  BY <1>1, LocalTimes
  <2> QED  BY <2>1, Fields
<1>4. p.month \in spec.months /\ DayMatches(spec, p)
  <2> HIDE DEF day
  <2>1. /\ p.day = day % DaysPerMonth /\ p.weekday = day % DaysPerWeek
        /\ p.month = (day \div DaysPerMonth) % MonthsPerYear
    BY DEF LocalParts, day
  <2> HIDE DEF p
  <2>2. /\ p.day \in 0 .. DaysPerMonth - 1 /\ p.weekday \in 0 .. DaysPerWeek - 1
        /\ p.month \in 0 .. MonthsPerYear - 1
    <3>1. day \div DaysPerMonth \in Nat /\ day % DaysPerMonth \in 0 .. DaysPerMonth - 1
      BY <1>3, CalendarAssumption, DivMod
    <3>2. day % DaysPerWeek \in 0 .. DaysPerWeek - 1
      BY <1>3, CalendarAssumption, DivMod
    <3>3. (day \div DaysPerMonth) % MonthsPerYear \in 0 .. MonthsPerYear - 1
      BY <3>1, CalendarAssumption, DivMod
    <3> QED  BY <2>1, <3>1, <3>2, <3>3
  <2>3. spec.daysOfMonth \in DayField(DaysPerMonth) /\ spec.daysOfWeek \in DayField(DaysPerWeek)
    BY DEF CronSpec
  <2>4. /\ ~spec.daysOfMonth.restricted /\ ~spec.daysOfWeek.restricted
        /\ spec.months = 0 .. MonthsPerYear - 1
    BY DEF EveryDay
  <2>5. spec.daysOfMonth.values = 0 .. DaysPerMonth - 1
    BY <2>3, <2>4, Unrestricted
  <2>6. spec.daysOfWeek.values = 0 .. DaysPerWeek - 1
    BY <2>3, <2>4, Unrestricted
  <2> QED  BY <2>2, <2>4, <2>5, <2>6 DEF DayMatches
<1>5. ASSUME p.hour \notin spec.hours, NEW u \in Time, t <= u, u < t + ToNextHour(p)
      PROVE  ~Matches(spec, zone, u)
  BY <1>1, <1>5, HourJump
<1> QED  BY <1>2, <1>4, <1>5

\* A set of naturals has a least one.
LEMMA LeastNatural ==
    ASSUME NEW T \in SUBSET Nat, T # {}
    PROVE  \E x \in T : \A y \in T : x <= y
<1> DEFINE R == {ss \in Nat \X Nat : ss[1] < ss[2]}
<1>1. IsWellFoundedOn(R, Nat)
  BY NatLessThanWellFounded DEF OpToRel
<1>2. PICK x \in T : \A y \in T : ~(<<y, x>> \in R)
  <2> HIDE DEF R
  <2> QED BY <1>1, WFMin
<1>3. ASSUME NEW y \in T PROVE x <= y
  <2>1. ~(<<y, x>> \in R) /\ x \in Nat /\ y \in Nat
    BY <1>2
  <2> QED BY <2>1
<1> QED BY <1>3

LEMMA LeastIs ==
    ASSUME NEW T \in SUBSET Nat, NEW x \in T, \A y \in T : x <= y
    PROVE  Min(T) = x
<1>1. \A y \in T : (\A z \in T : y <= z) => y = x
  BY DEF Min
<1> QED  BY <1>1 DEF Min

\* The first match from t on.
LaterMatches(spec, zone, t) == {u \in Time : t <= u /\ Matches(spec, zone, u)}
FirstFrom(spec, zone, t) ==
    IF LaterMatches(spec, zone, t) = {} THEN Never ELSE Min(LaterMatches(spec, zone, t))

LEMMA FirstFromFacts ==
    ASSUME NEW spec, NEW zone, NEW t \in Nat
    PROVE  /\ t > LastTime => FirstFrom(spec, zone, t) = Never
           /\ t \in Time /\ Matches(spec, zone, t) => FirstFrom(spec, zone, t) = t
           /\ \A v \in Nat :
                 t <= v /\ (\A u \in Time : t <= u /\ u < v => ~Matches(spec, zone, u))
                    => FirstFrom(spec, zone, t) = FirstFrom(spec, zone, v)
<1> DEFINE all == LaterMatches(spec, zone, t)
<1>0. LastTime \in Nat
  <2>1. MinutesPerDay \in Nat /\ DaysPerMonth * MonthsPerYear + 1 \in Nat
    BY CalendarAssumption DEF MinutesPerDay
  <2> QED  BY <2>1 DEF LastTime
<1>1. t > LastTime => all = {}
  BY <1>0 DEF LaterMatches, Time
<1>2. ASSUME t \in Time, Matches(spec, zone, t) PROVE FirstFrom(spec, zone, t) = t
  <2>1. t \in all /\ all \in SUBSET Nat /\ \A u \in all : t <= u
    BY <1>2 DEF LaterMatches, Time
  <2> HIDE DEF all
  <2>2. Min(all) = t  BY <2>1, LeastIs
  <2> QED  BY <2>1, <2>2 DEF FirstFrom, all
<1>3. ASSUME NEW v \in Nat, t <= v, \A u \in Time : t <= u /\ u < v => ~Matches(spec, zone, u)
      PROVE  FirstFrom(spec, zone, t) = FirstFrom(spec, zone, v)
  <2>1. all = LaterMatches(spec, zone, v)
    BY <1>3 DEF LaterMatches, Time
  <2> QED  BY <2>1 DEF FirstFrom
<1> QED  BY <1>1, <1>2, <1>3 DEF FirstFrom

\* The minutes nextFire may stand at, and its rule.
Stand == 0 .. LastTime + MinutesPerDay
SearchRule(spec, zone, g, t) ==
    IF t > LastTime THEN Never
    ELSE LET p == LocalParts(zone, t) IN
         IF p.month \notin spec.months \/ ~DayMatches(spec, p) THEN g[t + ToMidnight(p)]
         ELSE IF p.hour \notin spec.hours THEN g[t + ToNextHour(p)]
         ELSE IF p.minute \notin spec.minutes THEN g[t + 1]
         ELSE t

LEMMA SearchStep ==
    ASSUME NEW spec, NEW zone, JumpsRight(spec, zone), NEW g, NEW t \in Stand,
           \A v \in Stand : t < v => g[v] = FirstFrom(spec, zone, v)
    PROVE  SearchRule(spec, zone, g, t) = FirstFrom(spec, zone, t)
<1> DEFINE p == LocalParts(zone, t)
<1>0. LastTime \in Nat /\ MinutesPerDay \in Nat \ {0} /\ t \in Nat
  <2>1. MinutesPerDay \in Nat \ {0} /\ DaysPerMonth * MonthsPerYear + 1 \in Nat
    BY CalendarAssumption DEF MinutesPerDay
  <2>2. LastTime \in Nat  BY <2>1 DEF LastTime
  <2> QED  BY <2>1, <2>2 DEF Stand
<1>1. CASE t > LastTime
  BY <1>0, <1>1, FirstFromFacts DEF SearchRule
<1>2. CASE ~(t > LastTime)
  <2>1. t \in Time  BY <1>0, <1>2 DEF Time
  <2>2. \A n \in 1 .. MinutesPerDay : t + n \in Stand /\ t < t + n /\ t + n \in Nat
    BY <1>0, <1>2 DEF Stand
  <2>3. ASSUME NEW n \in 1 .. MinutesPerDay,
               \A u \in Time : t <= u /\ u < t + n => ~Matches(spec, zone, u)
        PROVE  g[t + n] = FirstFrom(spec, zone, t)
    <3>1. t + n \in Stand /\ t < t + n /\ t + n \in Nat /\ t <= t + n  BY <1>0, <2>2
    <3>2. g[t + n] = FirstFrom(spec, zone, t + n)  BY <3>1
    <3>3. FirstFrom(spec, zone, t) = FirstFrom(spec, zone, t + n)
      BY <1>0, <2>3, <3>1, FirstFromFacts
    <3> QED  BY <3>2, <3>3
  <2>4. CASE p.month \notin spec.months \/ ~DayMatches(spec, p)
    <3>1. ToMidnight(p) \in 1 .. MinutesPerDay  BY <2>1 DEF JumpsRight
    <3>2. \A u \in Time : t <= u /\ u < t + ToMidnight(p) => ~Matches(spec, zone, u)
      BY <2>1, <2>4 DEF JumpsRight
    <3>3. SearchRule(spec, zone, g, t) = g[t + ToMidnight(p)]
      BY <1>2, <2>4 DEF SearchRule
    <3> HIDE DEF p
    <3> QED  BY <2>3, <3>1, <3>2, <3>3
  <2>5. CASE p.month \in spec.months /\ DayMatches(spec, p) /\ p.hour \notin spec.hours
    <3>1. ToNextHour(p) \in 1 .. MinutesPerDay  BY <2>1 DEF JumpsRight
    <3>2. \A u \in Time : t <= u /\ u < t + ToNextHour(p) => ~Matches(spec, zone, u)
      BY <2>1, <2>5 DEF JumpsRight
    <3>3. SearchRule(spec, zone, g, t) = g[t + ToNextHour(p)]
      BY <1>2, <2>5 DEF SearchRule
    <3> HIDE DEF p
    <3> QED  BY <2>3, <3>1, <3>2, <3>3
  <2>6. CASE /\ p.month \in spec.months /\ DayMatches(spec, p) /\ p.hour \in spec.hours
             /\ p.minute \notin spec.minutes
    <3>1. ~Matches(spec, zone, t)  BY <2>6 DEF Matches, CronMatches
    <3>2. \A u \in Time : t <= u /\ u < t + 1 => ~Matches(spec, zone, u)
      <4>1. \A u \in Time : t <= u /\ u < t + 1 => u = t  BY <1>0 DEF Time
      <4> QED  BY <3>1, <4>1
    <3>3. SearchRule(spec, zone, g, t) = g[t + 1]
      BY <1>2, <2>6 DEF SearchRule
    <3>4. 1 \in 1 .. MinutesPerDay  BY <1>0
    <3> QED  BY <2>3, <3>2, <3>3, <3>4
  <2>7. CASE /\ p.month \in spec.months /\ DayMatches(spec, p) /\ p.hour \in spec.hours
             /\ p.minute \in spec.minutes
    <3>1. Matches(spec, zone, t)  BY <2>7 DEF Matches, CronMatches
    <3>2. FirstFrom(spec, zone, t) = t  BY <1>0, <2>1, <3>1, FirstFromFacts
    <3>3. SearchRule(spec, zone, g, t) = t
      BY <1>2, <2>7 DEF SearchRule
    <3> QED  BY <3>2, <3>3
  <2> QED  BY <2>4, <2>5, <2>6, <2>7
<1> QED  BY <1>1, <1>2

\* nextFire's loop gives the first match from where it stands: that function
\* obeys the rule, so one that does exists, and any that does is it.
LEMMA SearchIsFirst ==
    ASSUME NEW spec, NEW zone, JumpsRight(spec, zone)
    PROVE  \A t \in Stand : Search(spec, zone)[t] = FirstFrom(spec, zone, t)
<1> DEFINE Rule(g) == g = [t \in Stand |-> SearchRule(spec, zone, g, t)]
           search == Search(spec, zone)
           first == [t \in Stand |-> FirstFrom(spec, zone, t)]
<1>1. Rule(first)
  <2>1. ASSUME NEW t \in Stand PROVE SearchRule(spec, zone, first, t) = FirstFrom(spec, zone, t)
    <3>1. \A v \in Stand : first[v] = FirstFrom(spec, zone, v)  OBVIOUS
    <3> HIDE DEF first
    <3> QED  BY <3>1, SearchStep
  <2> QED  BY <2>1
<1>2. search = CHOOSE g : Rule(g)
  BY DEF Search, SearchRule, Stand
<1>3. Rule(search)
  <2> HIDE DEF first, search
  <2> QED  BY <1>1, <1>2
<1> HIDE DEF search
<1>4. \A t \in Stand : search[t] = SearchRule(spec, zone, search, t)
  BY <1>3
<1>5. SUFFICES ASSUME NEW t0 \in Stand, search[t0] # FirstFrom(spec, zone, t0) PROVE FALSE
  BY DEF search
<1> DEFINE Top == LastTime + MinutesPerDay
           Bad == {t \in Stand : search[t] # FirstFrom(spec, zone, t)}
           Left == {Top - t : t \in Bad}
<1>6. Top \in Nat
  <2>1. MinutesPerDay \in Nat \ {0} /\ DaysPerMonth * MonthsPerYear + 1 \in Nat
    BY CalendarAssumption DEF MinutesPerDay
  <2> QED  BY <2>1 DEF LastTime
<1>7. Left \in SUBSET Nat /\ Left # {}
  BY <1>5, <1>6 DEF Stand
<1>8. PICK n \in Left : \A m \in Left : n <= m
  <2> HIDE DEF Left
  <2> QED  BY <1>7, LeastNatural
<1>9. PICK t \in Bad : n = Top - t
  OBVIOUS
<1>10. ASSUME NEW v \in Stand, t < v PROVE search[v] = FirstFrom(spec, zone, v)
  <2> SUFFICES ASSUME v \in Bad PROVE FALSE  OBVIOUS
  <2>1. Top - v \in Left  OBVIOUS
  <2>2. n <= Top - v  BY <1>8, <2>1
  <2>3. t \in Nat /\ v \in Nat  BY <1>6, <1>9 DEF Stand
  <2> QED  BY <1>6, <1>9, <1>10, <2>2, <2>3
<1>11. t \in Stand /\ search[t] # FirstFrom(spec, zone, t)  BY <1>9
<1>12. SearchRule(spec, zone, search, t) = FirstFrom(spec, zone, t)
  BY <1>10, <1>11, SearchStep
<1> QED  BY <1>4, <1>11, <1>12

LEMMA FirstMatchIs ==
    ASSUME NEW spec, NEW zone, NEW t \in Nat
    PROVE  FirstMatch(spec, zone, t) = FirstFrom(spec, zone, t + 1)
<1> DEFINE later == {u \in Time : u > t /\ CronMatches(spec, LocalParts(zone, u))}
<1>1. later = LaterMatches(spec, zone, t + 1)
  BY DEF LaterMatches, Matches, Time
<1>2. FirstMatch(spec, zone, t) = IF later = {} THEN Never ELSE Min(later)
  BY DEF FirstMatch
<1> QED  BY <1>1, <1>2 DEF FirstFrom

LEMMA Fires ==
    ASSUME NEW spec, NEW zone, JumpsRight(spec, zone), NEW t \in 0 .. LastTime - 1
    PROVE  FiresFirst(spec, zone, t)
<1>1. LastTime \in Nat /\ MinutesPerDay \in Nat
  <2>1. MinutesPerDay \in Nat \ {0} /\ DaysPerMonth * MonthsPerYear + 1 \in Nat
    BY CalendarAssumption DEF MinutesPerDay
  <2> QED  BY <2>1 DEF LastTime
<1>2. t \in Nat /\ t + 1 \in Stand  BY <1>1 DEF Stand
<1> QED  BY <1>2, SearchIsFirst, FirstMatchIs DEF FiresFirst

\* nextFire passes over no tick and invents none, for calendars of any size and
\* zones that move their clock at any full hours (cron.ts nextFire).
THEOREM NextFireRight == Spec => []NextFireIsFirst
<1>1. ASSUME NEW t \in 0 .. LastTime - 1 PROVE CronRight[t]
  <2>1. ASSUME NEW spec \in CronSpec
        PROVE  /\ \A zone \in {Uniform} \union Autumn : FiresFirst(spec, zone, t)
               /\ EveryDay(spec) => \A zone \in Spring : FiresFirst(spec, zone, t)
    BY BackwardJumps, ForwardJumps, Fires
  <2> QED  BY <2>1 DEF CronRight
<1>2. NextFireIsFirst
  <2>1. DOMAIN CronRight = 0 .. LastTime - 1  BY DEF CronRight
  <2> QED  BY <1>1, <2>1 DEF NextFireIsFirst
<1> QED  BY <1>2, PTL
=============================================================================
