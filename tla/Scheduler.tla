----------------------------- MODULE Scheduler -----------------------------
(***************************************************************************)
(* Recurring schedules (lib/jobs/scheduler.ts): every worker process ticks *)
(* and whoever locks the due row of ops.schedule fans its tick out, one    *)
(* job per organization that is not suspended.  Each job is inserted in a  *)
(* transaction of its own, with the dedupe key schedule:<name>:<tick>; the *)
(* row moves on, in the transaction that holds it, only after all of them. *)
(* A process that dies in between leaves jobs behind and the row due.      *)
(*                                                                         *)
(* One schedule, whose cron fires at every multiple of Period.  A worker   *)
(* reads the clock when it begins a turn (or a sync) and may act on that   *)
(* reading much later.                                                     *)
(***************************************************************************)
EXTENDS Naturals, FiniteSets

CONSTANTS
    NOrg,      \* organizations are 1 .. NOrg, in the order of their ids
    Steady,    \* those that are never suspended
    Worker,    \* worker processes
    Period,    \* time between two ticks of the cron
    MaxTime,   \* bound: the clock stops here
    MaxCrash   \* bound: turns that die or fail

Org == 1 .. NOrg

ASSUME SizesAssumption ==
    /\ NOrg \in Nat /\ Steady \subseteq Org
    /\ Period \in Nat \ {0} /\ MaxTime \in Nat /\ MaxCrash \in Nat

VARIABLES
    now,        \* the clock
    suspended,  \* suspended organizations
    row,        \* the row of ops.schedule: next_fire_at, last_fired_at (0: none)
    jobs,       \* rows of ops.job: <<organization, tick it was fired for, dedupe key>>
    turn,       \* what each worker is doing
    crashes,
    recent      \* history: since the last tick of the cron, the jobs each organization
                \* got from turns that began since then

vars == <<now, suspended, row, jobs, turn, crashes, recent>>

Tick == {t \in Nat : t % Period = 0}
Turn == [pc : {"idle", "ticking", "firing", "syncing"}, at : Nat, tick : Tick, todo : SUBSET Org]
Idle == [pc |-> "idle", at |-> 0, tick |-> 0, todo |-> {}]

\* (mutant of NextFire: a tick counts as its own next)
NextFire_notStrict(t) == ((t + Period - 1) \div Period) * Period

\* nextFire: the first tick of the cron strictly after t.
NextFire(t) == (t \div Period + 1) * Period

\* The row is locked from the read of the due rows to the commit.
RowHeld == \E w \in Worker : turn[w].pc = "firing"

\* The turn read the clock since the last tick of the cron.
Fresh(t) == t.at \div Period = now \div Period

Live == Org \ suspended

\* (mutant of DedupeKey: the time of the turn instead of the tick)
DedupeKey_time(t) == t.at

\* scheduleDedupeKey.
DedupeKey(t) == t.tick

-----------------------------------------------------------------------------
(* The world.                                                              *)

TimePasses ==
    /\ now < MaxTime
    /\ now' = now + 1
    /\ recent' = IF (now + 1) % Period = 0 THEN [o \in Org |-> 0] ELSE recent
    /\ UNCHANGED <<suspended, row, jobs, turn, crashes>>

\* An organization is suspended or taken back.
Suspend(o) ==
    /\ o \notin Steady
    /\ suspended' = IF o \in suspended THEN suspended \ {o} ELSE suspended \union {o}
    /\ UNCHANGED <<now, row, jobs, turn, crashes, recent>>

-----------------------------------------------------------------------------
(* syncSchedules, when a worker starts.                                    *)

SyncStart(w) ==
    /\ turn[w].pc = "idle"
    /\ turn' = [turn EXCEPT ![w] = [Idle EXCEPT !.pc = "syncing", !.at = now]]
    /\ UNCHANGED <<now, suspended, row, jobs, crashes, recent>>

\* The upsert waits for a tick that holds the row, then inserts it or takes a
\* tick back that lies later than the next one it computed at its start.
SyncWrite(w) ==
    /\ turn[w].pc = "syncing" /\ ~RowHeld
    /\ LET next == NextFire(turn[w].at) IN
       row' = IF row.next = 0 \/ row.next > next THEN [row EXCEPT !.next = next] ELSE row
    /\ turn' = [turn EXCEPT ![w] = Idle]
    /\ UNCHANGED <<now, suspended, jobs, crashes, recent>>

-----------------------------------------------------------------------------
(* tickSchedules.                                                          *)

TurnStart(w) ==
    /\ turn[w].pc = "idle"
    /\ turn' = [turn EXCEPT ![w] = [Idle EXCEPT !.pc = "ticking", !.at = now]]
    /\ UNCHANGED <<now, suspended, row, jobs, crashes, recent>>

\* FOR UPDATE SKIP LOCKED finds the row due, or the turn is over.
TakeDue(w) ==
    /\ turn[w].pc = "ticking"
    /\ turn' = [turn EXCEPT ![w] =
            IF row.next # 0 /\ row.next <= turn[w].at /\ ~RowHeld
            THEN [pc |-> "firing", at |-> turn[w].at, tick |-> row.next, todo |-> Live]
            ELSE Idle]
    /\ UNCHANGED <<now, suspended, row, jobs, crashes, recent>>

\* insertJob for the next organization, in its own transaction: nothing when
\* the dedupe key exists.
InsertJob(w) ==
    LET t == turn[w] IN
    /\ t.pc = "firing" /\ t.todo # {}
    /\ \E o \in t.todo :
        /\ \A p \in t.todo : o <= p
        /\ turn' = [turn EXCEPT ![w].todo = @ \ {o}]
        /\ IF \E j \in jobs : j[1] = o /\ j[3] = DedupeKey(t)
           THEN UNCHANGED <<jobs, recent>>
           ELSE /\ jobs' = jobs \union {<<o, t.tick, DedupeKey(t)>>}
                /\ recent' = IF Fresh(t) THEN [recent EXCEPT ![o] = @ + 1] ELSE recent
    /\ UNCHANGED <<now, suspended, row, crashes>>

\* (mutant of MayAdvance: the row moves on before its jobs are in)
MayAdvance_early(t) == t.pc = "firing"
MayAdvance(t) == t.pc = "firing" /\ t.todo = {}

\* (mutant of Advanced: the next tick is computed from the tick, not from now)
Advanced_catchUp(t) == [next |-> NextFire(t.tick), last |-> t.tick]

\* The tick is fired; the next one is computed from the turn's reading of the clock.
Advanced(t) == [next |-> NextFire(t.at), last |-> t.tick]

Advance(w) ==
    /\ MayAdvance(turn[w])
    /\ row' = Advanced(turn[w])
    /\ turn' = [turn EXCEPT ![w] = Idle]
    /\ UNCHANGED <<now, suspended, jobs, crashes, recent>>

\* The process dies or a statement fails: the row's transaction rolls back, the
\* jobs already inserted stay.
Crash(w) ==
    /\ turn[w].pc # "idle" /\ crashes < MaxCrash
    /\ crashes' = crashes + 1
    /\ turn' = [turn EXCEPT ![w] = Idle]
    /\ UNCHANGED <<now, suspended, row, jobs, recent>>

-----------------------------------------------------------------------------
Init ==
    /\ now = 0
    /\ suspended \in SUBSET (Org \ Steady)
    /\ row = [next |-> 0, last |-> 0]
    /\ jobs = {}
    /\ turn = [w \in Worker |-> Idle]
    /\ crashes = 0
    /\ recent = [o \in Org |-> 0]

Step(w) == TakeDue(w) \/ InsertJob(w) \/ Advance(w) \/ SyncWrite(w)

Next ==
    \/ TimePasses
    \/ \E o \in Org : Suspend(o)
    \/ \E w \in Worker : TurnStart(w) \/ SyncStart(w) \/ Step(w) \/ Crash(w)

Spec == Init /\ [][Next]_vars

\* A running worker goes on, and begins a turn again and again (the worker
\* loop); the clock, suspensions, restarts and crashes owe nothing.
FairSpec ==
    Spec /\ \A w \in Worker : WF_vars(Step(w)) /\ SF_vars(TurnStart(w))

-----------------------------------------------------------------------------
(* Properties.                                                             *)

\* Types; every tick is one of the cron's.
TypeOK ==
    /\ now \in Nat /\ crashes \in Nat
    /\ suspended \subseteq Org \ Steady
    /\ row \in [next : Tick, last : Tick]
    /\ jobs \subseteq Org \X Tick \X Nat
    /\ turn \in [Worker -> Turn]
    /\ recent \in [Org -> Nat]

\* A tick fires once per organization, with two workers, after a crash in the
\* middle of it, and when a sync takes the tick back.
OneJobPerTick ==
    \A j, k \in jobs : (j[1] = k[1] /\ j[2] = k[2]) => j = k

\* The tick the row says was fired was fired for every organization that was
\* never suspended, however many turns it took.
FiredForAll ==
    row.last # 0 => \A o \in Steady : \E j \in jobs : j[1] = o /\ j[2] = row.last

\* Only one worker fires at a time, and what it fires is still the row's tick.
FiringIsDue ==
    \A w \in Worker : turn[w].pc = "firing" =>
        /\ turn[w].tick = row.next
        /\ \A v \in Worker : turn[v].pc = "firing" => v = w

\* "No burst of catch-up runs": however long no worker ran, the turns that begin
\* between two ticks of the cron fire the missed tick only - and one more for
\* every other worker whose stale sync takes the row back under them.
NoBurst == \A o \in Org : recent[o] <= Cardinality(Worker)

\* A due tick does not stay due.
CatchesUp == (row.next # 0 /\ row.next <= now) ~> (row.next > now)
=============================================================================
