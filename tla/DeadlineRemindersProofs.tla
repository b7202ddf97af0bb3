----------------------- MODULE DeadlineRemindersProofs -----------------------
(***************************************************************************)
(* Theorems about DeadlineReminders: types, one nudge per deadline, none in*)
(* the quiet hours, and nobody left out.                                   *)
(*                                                                         *)
(* OneNudge is not inductive.  What it rests on: a dedupe key names one row*)
(* (OneRowPerKey); only the scan's row is ever put off, to the end of the  *)
(* quiet hours, and its replacement runs too late to be put off again      *)
(* (PutOffOnce); and whatever rang has left its scan's row behind, so the  *)
(* scan inserts no other (RangFromScan).  ToldInTime rests on TInv, below. *)
(***************************************************************************)
EXTENDS DeadlineReminders, TLAPS

SameNudge(i, j) == i.kind = j.kind /\ i.due = j.due

\* The scan's row for a nudge is there and no longer queued.
ScanRowOver(n, all) == \E i \in all : SameNudge(i, n) /\ i.again = 0 /\ i.status # "queued"

OneRowPerKey(all) == \A i \in all : \A j \in all : SameKey(i, j) => i = j
PutOffOnce(all) ==
    \A j \in all : j.again # 0 => j.again = QuietEnd /\ j.at >= QuietEnd /\ ScanRowOver(j, all)
OneQueued(all) ==
    \A i \in all : \A j \in all :
        (i.status = "queued" /\ j.status = "queued" /\ SameNudge(i, j)) => i = j
RangOver(rang, all) == \A b \in rang : \A i \in all : SameNudge(i, b) => i.status # "queued"
RangFromScan(rang, all) == \A b \in rang : ScanRowOver(b, all)

RowsOK(all) == all \subseteq JobRow /\ OneRowPerKey(all) /\ PutOffOnce(all)
BellsOK(rang, all) == RangOver(rang, all) /\ RangFromScan(rang, all)

\* What is true of a run: it started when its job was due, on a job of its own,
\* and a reminder may be delivered.
RunsOK ==
    /\ \A r \in runs : r.at >= r.job.at
    /\ \A r \in runs : \A s \in runs : r.job = s.job => r = s
    /\ \A r \in runs : r.job.kind = "remind" => MayTell(Moment(r.job, r.at), r.at)

Inv ==
    /\ TypeOK /\ RowsOK(jobs) /\ OneQueued(jobs) /\ BellsOK(bells, jobs)
    /\ RunsOK /\ QuietKept

-----------------------------------------------------------------------------
(* Moments.                                                                *)

\* Latest is one of the times it is given.
LEMMA LatestOfTwo ==
    ASSUME NEW a \in Int, NEW b \in Int
    PROVE  Latest({a, b}) \in {a, b} /\ Latest({a, b}) >= b
<1>1. \E t \in {a, b} : \A u \in {a, b} : t >= u  OBVIOUS
<1> QED  BY <1>1 DEF Latest

LEMMA LatestOfThree ==
    ASSUME NEW a \in Int, NEW b \in Int, NEW c \in Int
    PROVE  Latest({a, b, c}) \in {a, b, c} /\ Latest({a, b, c}) >= c
<1>1. \E t \in {a, b, c} : \A u \in {a, b, c} : t >= u  OBVIOUS
<1> QED  BY <1>1 DEF Latest

\* A nudge has at most one moment, and it is an integer.
LEMMA OneMoment ==
    ASSUME NEW ideal \in Int, NEW due \in Int, NEW t \in Int
    PROVE  /\ DeliveryTime(ideal, due, t) \subseteq Int
           /\ \A x, y \in DeliveryTime(ideal, due, t) : x = y
BY TimesAssumption DEF DeliveryTime

LEMMA ScanMoments ==
    ASSUME NEW due \in Nat, NEW t \in Nat
    PROVE  /\ ReminderAt(due, t) \subseteq Int
           /\ \A x, y \in ReminderAt(due, t) : x = y
           /\ OverdueNoticeAt(due, t) \subseteq Int
           /\ \A x, y \in OverdueNoticeAt(due, t) : x = y
<1> DEFINE early == due - Lead
           half == due \div 2
           ideal == Latest({early, half, t})
<1>1. early \in Int  BY TimesAssumption
<1>2. half \in Int  BY SMT
<1>3. t \in Int  OBVIOUS
<1> HIDE DEF early, half
<1>4. ideal \in Int  BY <1>1, <1>2, <1>3, LatestOfThree
<1>5. NoDue \in Int  BY DEF NoDue
<1> HIDE DEF ideal
<1>6. ReminderAt(due, t) = IF ideal >= due THEN {} ELSE DeliveryTime(ideal, due, t)
  BY DEF ReminderAt, ideal, early, half
<1>7. /\ ReminderAt(due, t) \subseteq Int
      /\ \A x, y \in ReminderAt(due, t) : x = y
  <2>1. CASE ideal >= due  BY <2>1, <1>6
  <2>2. CASE ~(ideal >= due)
    <3>1. ReminderAt(due, t) = DeliveryTime(ideal, due, t)  BY <2>2, <1>6
    <3> QED  BY <3>1, <1>3, <1>4, OneMoment
  <2> QED  BY <2>1, <2>2
<1>8. /\ OverdueNoticeAt(due, t) \subseteq Int
      /\ \A x, y \in OverdueNoticeAt(due, t) : x = y
  <2>1. CASE due < t - Grace  BY <2>1 DEF OverdueNoticeAt
  <2>2. CASE ~(due < t - Grace)
    <3>1. OverdueNoticeAt(due, t) = DeliveryTime(due, NoDue, t)
      BY <2>2 DEF OverdueNoticeAt
    <3> QED  BY <3>1, <1>3, <1>5, OneMoment
  <2> QED  BY <2>1, <2>2
<1> QED  BY <1>7, <1>8

\* A nudge that may be delivered comes outside the quiet hours, or in their
\* first or last minute.
LEMMA ToldOutsideQuiet ==
    ASSUME NEW j, NEW t \in Nat, MayTell(Moment(j, t), t)
    PROVE  Quiet(t) => t \in {QuietStart, QuietEnd - 1}
BY TimesAssumption DEF MayTell, Moment, DeliveryTime, Quiet

\* One that may not waits for the end of the quiet hours it comes in, or is
\* dropped.
LEMMA PutOffToQuietEnd ==
    ASSUME NEW j, NEW t \in Nat, ~MayTell(Moment(j, t), t)
    PROVE  t < QuietEnd /\ Moment(j, t) \subseteq {QuietEnd}
BY TimesAssumption DEF MayTell, Moment, DeliveryTime, Quiet

-----------------------------------------------------------------------------
(* The rows: what each way of writing them keeps.                          *)

\* A queued row that ends leaves everything in order.
LEMMA EndKeeps ==
    ASSUME RowsOK(jobs), BellsOK(bells, jobs), OneQueued(jobs),
           NEW j \in jobs, j.status = "queued", NEW s \in {"done", "dead"}
    PROVE  /\ RowsOK(Ended(j, s)) /\ OneQueued(Ended(j, s)) /\ BellsOK(bells, Ended(j, s))
           /\ \A i \in Ended(j, s) : SameNudge(i, j) => i.status # "queued"
           /\ ScanRowOver(j, Ended(j, s))
<1> DEFINE e == [j EXCEPT !.status = s]
<1>1. /\ e \in JobRow /\ e.kind = j.kind /\ e.due = j.due /\ e.again = j.again
      /\ e.at = j.at /\ e.status = s
  BY DEF RowsOK, JobRow
<1> HIDE DEF e
<1>2. Ended(j, s) = (jobs \ {j}) \union {e}  BY DEF Ended, e
<1>3. \A n : ScanRowOver(n, jobs) => ScanRowOver(n, Ended(j, s))
  BY <1>2 DEF ScanRowOver
<1>4. ScanRowOver(j, Ended(j, s))
  <2>1. CASE j.again = 0  BY <2>1, <1>1, <1>2 DEF ScanRowOver, SameNudge
  <2>2. CASE j.again # 0  BY <2>2, <1>3 DEF RowsOK, PutOffOnce
  <2> QED  BY <2>1, <2>2
<1>5. ScanRowOver(e, Ended(j, s))  BY <1>1, <1>4 DEF ScanRowOver, SameNudge
<1>6. RowsOK(Ended(j, s))
  <2>1. OneRowPerKey(Ended(j, s))  BY <1>1, <1>2 DEF RowsOK, OneRowPerKey, SameKey
  <2>2. PutOffOnce(Ended(j, s))  BY <1>1, <1>2, <1>3, <1>5 DEF RowsOK, PutOffOnce
  <2> QED  BY <2>1, <2>2, <1>1, <1>2 DEF RowsOK
<1>7. \A i \in Ended(j, s) : SameNudge(i, j) => i.status # "queued"
  BY <1>1, <1>2 DEF OneQueued, SameNudge
<1>8. OneQueued(Ended(j, s))  BY <1>1, <1>2 DEF OneQueued
<1>9. BellsOK(bells, Ended(j, s))
  BY <1>1, <1>2, <1>3 DEF BellsOK, RangOver, RangFromScan, SameNudge
<1> QED  BY <1>4, <1>6, <1>7, <1>8, <1>9

\* So does one that is tried again later.
LEMMA RetryKeeps ==
    ASSUME RowsOK(jobs), BellsOK(bells, jobs), OneQueued(jobs),
           NEW j \in jobs, j.status = "queued", NEW t \in Int, t >= j.at,
           NEW all, all = (jobs \ {j}) \union {[j EXCEPT !.at = t]}
    PROVE  RowsOK(all) /\ OneQueued(all) /\ BellsOK(bells, all)
<1> DEFINE e == [j EXCEPT !.at = t]
<1>1. /\ e \in JobRow /\ e.kind = j.kind /\ e.due = j.due /\ e.again = j.again
      /\ e.at = t /\ e.status = j.status
  BY DEF RowsOK, JobRow
<1> HIDE DEF e
<1>2. all = (jobs \ {j}) \union {e}  BY DEF e
<1>3. \A n : ScanRowOver(n, jobs) => ScanRowOver(n, all)
  BY <1>2 DEF ScanRowOver
<1>4. OneRowPerKey(all)  BY <1>1, <1>2 DEF RowsOK, OneRowPerKey, SameKey
<1>5. PutOffOnce(all)
  <2> SUFFICES ASSUME NEW i \in all, i.again # 0
               PROVE  i.again = QuietEnd /\ i.at >= QuietEnd /\ ScanRowOver(i, all)
    BY DEF PutOffOnce
  <2>1. CASE i \in jobs  BY <2>1, <1>3 DEF RowsOK, PutOffOnce
  <2>2. CASE i = e
    <3>1. j.again = QuietEnd /\ j.at >= QuietEnd /\ ScanRowOver(j, all)
      BY <2>2, <1>1, <1>3 DEF RowsOK, PutOffOnce
    <3>2. j.at \in Int  BY DEF RowsOK, JobRow
    <3>3. ScanRowOver(e, all)  BY <3>1, <1>1 DEF ScanRowOver, SameNudge
    <3> QED  BY <2>2, <3>1, <3>2, <3>3, <1>1, TimesAssumption
  <2> QED  BY <2>1, <2>2, <1>2
<1>6. OneQueued(all)  BY <1>1, <1>2 DEF OneQueued, SameNudge
<1>7. BellsOK(bells, all)
  BY <1>1, <1>2, <1>3 DEF BellsOK, RangOver, RangFromScan, SameNudge
<1> QED  BY <1>1, <1>2, <1>4, <1>5, <1>6, <1>7 DEF RowsOK

\* So does what a scan enqueues.
LEMMA ScanKeeps ==
    ASSUME RowsOK(jobs), BellsOK(bells, jobs), OneQueued(jobs),
           NEW new, new \subseteq JobRow, \A n \in new : n.again = 0,
           \A m, n \in new : SameNudge(m, n) => m = n,
           NEW all, all = Enqueued(jobs, new)
    PROVE  RowsOK(all) /\ OneQueued(all) /\ BellsOK(bells, all)
<1> DEFINE added == {n \in new : ~ \E j \in jobs : SameKey(n, j)}
<1>1. all = jobs \union added  BY DEF Enqueued
<1>2. \A n \in added : \A j \in jobs : ~SameNudge(j, n)
  BY DEF RowsOK, PutOffOnce, ScanRowOver, SameNudge, SameKey
<1>3. \A n : ScanRowOver(n, jobs) => ScanRowOver(n, all)
  BY <1>1 DEF ScanRowOver
<1>4. \A n \in added : n \in JobRow /\ n.again = 0  OBVIOUS
<1>5. \A m, n \in added : SameNudge(m, n) => m = n  OBVIOUS
<1> HIDE DEF added
<1>6. OneRowPerKey(all)
  BY <1>1, <1>2, <1>5 DEF RowsOK, OneRowPerKey, SameKey, SameNudge
<1>7. PutOffOnce(all)  BY <1>1, <1>3, <1>4 DEF RowsOK, PutOffOnce
<1>8. OneQueued(all)  BY <1>1, <1>2, <1>5 DEF OneQueued, SameNudge
<1>9. BellsOK(bells, all)
  <2>1. \A b \in bells : \A n \in added : ~SameNudge(n, b)
    BY <1>2 DEF BellsOK, RangFromScan, ScanRowOver, SameNudge
  <2> QED  BY <2>1, <1>1, <1>3 DEF BellsOK, RangOver, RangFromScan
<1> QED  BY <1>1, <1>4, <1>6, <1>7, <1>8, <1>9 DEF RowsOK

\* And a run that is put off.
LEMMA PutOffKeeps ==
    ASSUME RowsOK(jobs), BellsOK(bells, jobs), OneQueued(jobs),
           NEW j \in jobs, j.status = "queued", NEW t \in Nat, t >= j.at,
           ~MayTell(Moment(j, t), t)
    PROVE  /\ RowsOK(PutOff(j, t)) /\ OneQueued(PutOff(j, t)) /\ BellsOK(bells, PutOff(j, t))
           /\ jobs \ {j} \subseteq PutOff(j, t)
<1> DEFINE ended == Ended(j, "done")
           n == Job(j.kind, j.due, QuietEnd, QuietEnd)
<1>1. /\ RowsOK(ended) /\ OneQueued(ended) /\ BellsOK(bells, ended)
      /\ \A i \in ended : SameNudge(i, j) => i.status # "queued"
      /\ ScanRowOver(j, ended)
  BY EndKeeps
<1>2. t < QuietEnd /\ Moment(j, t) \subseteq {QuietEnd}  BY PutOffToQuietEnd
<1>3. QuietEnd \in Nat /\ QuietEnd # 0  BY <1>2, TimesAssumption
<1>4. PutOff(j, t) \in {ended, ended \union {n}}
  BY <1>2 DEF PutOff, Enqueued
<1>5. n \in ended \/ PutOff(j, t) = ended \/ \A i \in ended : ~SameKey(n, i)
  BY <1>2 DEF PutOff, Enqueued
<1>6. /\ n \in JobRow /\ n.kind = j.kind /\ n.due = j.due /\ n.again = QuietEnd
      /\ n.at = QuietEnd /\ n.status = "queued"
  BY <1>3 DEF Job, JobRow, RowsOK
<1>7. jobs \ {j} \subseteq ended  BY DEF Ended
<1> HIDE DEF n, ended
<1>8. CASE PutOff(j, t) = ended  BY <1>8, <1>1, <1>7
<1>9. CASE PutOff(j, t) = ended \union {n} /\ \A i \in ended : ~SameKey(n, i)
  <2> DEFINE all == ended \union {n}
  <2>1. \A m : ScanRowOver(m, ended) => ScanRowOver(m, all)  BY DEF ScanRowOver
  <2>2. ScanRowOver(n, all)  BY <1>1, <1>6, <2>1 DEF ScanRowOver, SameNudge
  <2>3. OneRowPerKey(all)  BY <1>1, <1>9 DEF RowsOK, OneRowPerKey, SameKey
  <2>4. PutOffOnce(all)
    BY <1>1, <1>3, <1>6, <2>1, <2>2 DEF RowsOK, PutOffOnce
  <2>5. OneQueued(all)  BY <1>1, <1>6 DEF OneQueued, SameNudge
  <2>6. \A b \in bells : ~SameNudge(n, b)
    BY <1>6 DEF BellsOK, RangOver, SameNudge
  <2>7. BellsOK(bells, all)
    BY <1>1, <2>1, <2>6 DEF BellsOK, RangOver, RangFromScan
  <2> QED  BY <1>1, <1>6, <1>7, <1>9, <2>3, <2>4, <2>5, <2>7 DEF RowsOK
<1> QED  BY <1>1, <1>4, <1>5, <1>7, <1>8, <1>9

-----------------------------------------------------------------------------
(* Every step keeps the invariant.                                         *)

\* The steps of the item, the flag and the clock.
LEMMA ItemStep ==
    ASSUME Inv,
           \/ TimePasses \/ Close \/ Reopen \/ Switch
           \/ \E d \in Deadline \union {NoDue} : Move(d)
           \/ \E p \in Person : Finish(p)
    PROVE  Inv'
<1>1. UNCHANGED rows
  BY DEF TimePasses, Close, Reopen, Switch, Move, Finish, rows
<1>2. TypeOK'
  <2> USE TimesAssumption DEF Inv, TypeOK, rows, history, Changed
  <2>1. CASE TimePasses
    <3>1. lapse' \in 0 .. MaxTime + 1
      <4>1. now + 1 \in 0 .. MaxTime  BY <2>1 DEF TimePasses
      <4>2. lapse \in Int /\ now + 1 \in Int  OBVIOUS
      <4>3. Latest({lapse, now + 1}) \in {lapse, now + 1}
        BY ONLY <4>2, LatestOfTwo
      <4> QED  BY <2>1, <4>1, <4>3 DEF TimePasses
    <3> QED  BY <2>1, <3>1 DEF TimePasses
  <2>2. CASE Close
    <3>1. item' \in [due : Deadline \union {NoDue}, open : BOOLEAN, todo : SUBSET Person]
      <4>1. PICK todo \in {{}, item.todo} : item' = [item EXCEPT !.open = FALSE, !.todo = todo]
        BY <2>2 DEF Close
      <4> QED  BY <4>1
    <3> QED  BY <2>2, <3>1 DEF Close
  <2>3. CASE Reopen
    <3>1. item' \in [due : Deadline \union {NoDue}, open : BOOLEAN, todo : SUBSET Person]
      <4>1. PICK todo \in {item.todo, Person} : item' = [item EXCEPT !.open = TRUE, !.todo = todo]
        BY <2>3 DEF Reopen
      <4> QED  BY <4>1
    <3> QED  BY <2>3, <3>1 DEF Reopen
  <2>4. CASE Switch  BY <2>4 DEF Switch
  <2>5. CASE \E d \in Deadline \union {NoDue} : Move(d)  BY <2>5 DEF Move
  <2>6. CASE \E p \in Person : Finish(p)  BY <2>6 DEF Finish
  <2> QED  BY <2>1, <2>2, <2>3, <2>4, <2>5, <2>6
<1> QED
  BY <1>1, <1>2 DEF Inv, rows, RowsOK, OneQueued, BellsOK, RunsOK, QuietKept,
     OneRowPerKey, PutOffOnce, RangOver, RangFromScan, ScanRowOver

LEMMA ScanStep ==
    ASSUME Inv, Scan
    PROVE  Inv'
<1> DEFINE wanted ==
             {Job("remind", item.due, 0, t) : t \in DueForScan(ReminderAt(item.due, now))}
             \union {Job("overdue", item.due, 0, t) : t \in DueForScan(OverdueNoticeAt(item.due, now))}
<1>1. RowsOK(jobs') /\ OneQueued(jobs') /\ BellsOK(bells, jobs') /\ jobs \subseteq jobs'
  <2>1. CASE ~InHorizon  BY <2>1 DEF Scan, Inv
  <2>2. CASE InHorizon
    <3>1. item.due \in Deadline /\ item.due \in Nat /\ now \in Nat
      <4>1. item.due \in Deadline \union {NoDue} /\ now \in 0 .. MaxTime
        BY DEF Inv, TypeOK
      <4>2. item.due # NoDue  BY <2>2 DEF InHorizon
      <4>3. item.due \in Deadline  BY <4>1, <4>2
      <4>4. Deadline \subseteq Nat /\ 0 .. MaxTime \subseteq Nat  BY TimesAssumption
      <4> QED  BY <4>1, <4>3, <4>4
    <3>2. /\ ReminderAt(item.due, now) \subseteq Int
          /\ \A x, y \in ReminderAt(item.due, now) : x = y
          /\ OverdueNoticeAt(item.due, now) \subseteq Int
          /\ \A x, y \in OverdueNoticeAt(item.due, now) : x = y
      BY <3>1, ScanMoments
    <3>3. wanted \subseteq JobRow /\ \A n \in wanted : n.again = 0
      BY <3>1, <3>2 DEF DueForScan, Job, JobRow, Kind
    <3>4. \A m, n \in wanted : SameNudge(m, n) => m = n
      BY <3>2 DEF DueForScan, Job, SameNudge
    <3>5. jobs' = Enqueued(jobs, wanted)  BY <2>2 DEF Scan
    <3> HIDE DEF wanted
    <3>6. jobs \subseteq jobs'  BY <3>5 DEF Enqueued
    <3> QED  BY <3>3, <3>4, <3>5, <3>6, ScanKeeps DEF Inv
  <2> QED  BY <2>1, <2>2
<1>2. TypeOK'  BY <1>1 DEF Inv, TypeOK, Scan, RowsOK
<1> QED
  BY <1>1, <1>2 DEF Inv, Scan, RowsOK, OneQueued, BellsOK, RunsOK, QuietKept,
     OneRowPerKey, PutOffOnce, RangOver, RangFromScan, ScanRowOver

LEMMA ReadStep ==
    ASSUME Inv, NEW j \in jobs, RunReads(j)
    PROVE  Inv'
<1>1. /\ j.status = "queued" /\ j.at <= now /\ now \in Nat
      /\ \A r \in runs : r.job # j /\ r.job \in jobs
  BY TimesAssumption DEF RunReads, Due, NotRunning, Inv, TypeOK
<1>2. CASE jobs' \in {Ended(j, "done"), PutOff(j, now)} /\ runs' = runs
           /\ (jobs' = Ended(j, "done") \/ ~MayTell(Moment(j, now), now))
  <2>1. RowsOK(jobs') /\ OneQueued(jobs') /\ BellsOK(bells, jobs') /\ jobs \ {j} \subseteq jobs'
    <3>1. CASE jobs' = Ended(j, "done")
      <4>1. jobs \ {j} \subseteq jobs'  BY <3>1 DEF Ended
      <4> QED  BY <1>1, <3>1, <4>1, EndKeeps DEF Inv
    <3>2. CASE jobs' = PutOff(j, now) /\ ~MayTell(Moment(j, now), now)
      BY <1>1, <3>2, PutOffKeeps DEF Inv
    <3> QED  BY <1>2, <3>1, <3>2
  <2>2. TypeOK'  BY <1>1, <1>2, <2>1 DEF RunReads, history, Inv, TypeOK, RowsOK
  <2> QED
    BY <1>2, <2>1, <2>2 DEF Inv, RunReads, RowsOK, OneQueued, BellsOK, RunsOK,
       QuietKept, OneRowPerKey, PutOffOnce, RangOver, RangFromScan, ScanRowOver
<1>3. CASE /\ runs' = runs \union {[job |-> j, at |-> now]} /\ UNCHANGED jobs
           /\ j.kind = "remind" => MayTell(Moment(j, now), now)
  <2>1. TypeOK'  BY <1>1, <1>3 DEF RunReads, history, Inv, TypeOK
  <2>2. RunsOK'
    <3> DEFINE new == [job |-> j, at |-> now]
    <3>1. new.job = j /\ new.at = now  OBVIOUS
    <3> HIDE DEF new
    <3>2. runs' = runs \union {new}  BY <1>3 DEF new
    <3>3. \A r \in runs' : r.at >= r.job.at  BY <1>1, <3>1, <3>2 DEF Inv, RunsOK
    <3>4. \A r \in runs' : \A s \in runs' : r.job = s.job => r = s
      BY <1>1, <3>1, <3>2 DEF Inv, RunsOK
    <3>5. \A r \in runs' : r.job.kind = "remind" => MayTell(Moment(r.job, r.at), r.at)
      BY <1>3, <3>1, <3>2 DEF Inv, RunsOK
    <3> QED  BY <3>3, <3>4, <3>5 DEF RunsOK, MayTell, Moment, DeliveryTime, Quiet
  <2> QED
    BY <1>3, <2>1, <2>2 DEF Inv, RunReads, RowsOK, OneQueued, BellsOK, QuietKept,
       OneRowPerKey, PutOffOnce, RangOver, RangFromScan, ScanRowOver
<1> QED  BY <1>2, <1>3 DEF RunReads

\* What is known of a run when it goes on, and of the others once it is gone.
LEMMA RunFacts ==
    ASSUME Inv, NEW r \in runs
    PROVE  /\ r.job \in jobs /\ r.job \in JobRow /\ r.job.status = "queued"
           /\ r.at \in Nat /\ r.at >= r.job.at
           /\ \A s \in runs \ {r} : s.job \in jobs \ {r.job}
BY DEF Inv, TypeOK, RowsOK, RunsOK

LEMMA RunGone ==
    ASSUME Inv, NEW r \in runs, runs' = runs \ {r}
    PROVE  RunsOK'
<1>1. \A s \in runs' : s \in runs  OBVIOUS
<1> QED  BY <1>1 DEF Inv, RunsOK, MayTell, Moment, DeliveryTime, Quiet

LEMMA FailStep ==
    ASSUME Inv, NEW r \in runs, RunFails(r)
    PROVE  Inv'
<1>1. RunsOK'  BY RunGone DEF RunFails
<1>2. RowsOK(jobs') /\ OneQueued(jobs') /\ BellsOK(bells, jobs') /\ jobs \ {r.job} \subseteq jobs'
  <2>1. CASE jobs' = Ended(r.job, "dead")
    <3>1. jobs \ {r.job} \subseteq jobs'  BY <2>1 DEF Ended
    <3> QED  BY <2>1, <3>1, RunFacts, EndKeeps DEF Inv
  <2>2. CASE jobs' = (jobs \ {r.job}) \union {[r.job EXCEPT !.at = now + 1]}
    <3>1. now + 1 \in Int /\ now + 1 >= r.job.at
      <4>1. r.at \in 0 .. now /\ now \in Nat  BY DEF Inv, TypeOK
      <4>2. r.job.at \in Int /\ r.at >= r.job.at  BY RunFacts DEF JobRow
      <4> QED  BY <4>1, <4>2
    <3> QED  BY <2>2, <3>1, RunFacts, RetryKeeps DEF Inv
  <2> QED  BY <2>1, <2>2 DEF RunFails
<1>3. lapse' \in 0 .. MaxTime + 1
  <2>1. lapse \in 0 .. MaxTime + 1 /\ now \in 0 .. MaxTime  BY DEF Inv, TypeOK
  <2>2. now + 1 \in 0 .. MaxTime + 1 /\ MaxTime \in 0 .. MaxTime + 1
    BY <2>1, TimesAssumption
  <2>3. Latest({lapse, now + 1}) \in {lapse, now + 1}
    <3>1. lapse \in Int /\ now + 1 \in Int  BY <2>1
    <3> QED  BY ONLY <3>1, LatestOfTwo
  <2> QED  BY <2>1, <2>2, <2>3 DEF RunFails
<1>4. TypeOK'
  <2>1. \A s \in runs' : s.job \in jobs' /\ s.job.status = "queued" /\ s.at \in 0 .. now'
    BY <1>2, RunFacts DEF RunFails, Inv, TypeOK
  <2> QED
    BY <1>2, <1>3, <2>1, TimesAssumption DEF RunFails, Changed, Inv, TypeOK, RowsOK
<1> QED
  BY <1>1, <1>2, <1>4 DEF Inv, RunFails, RowsOK, OneQueued, BellsOK, QuietKept,
     OneRowPerKey, PutOffOnce, RangOver, RangFromScan, ScanRowOver

LEMMA TellStep ==
    ASSUME Inv, NEW r \in runs, RunTells(r)
    PROVE  Inv'
<1> DEFINE ended == Ended(r.job, "done")
<1>1. /\ RowsOK(ended) /\ OneQueued(ended) /\ BellsOK(bells, ended)
      /\ \A i \in ended : SameNudge(i, r.job) => i.status # "queued"
      /\ ScanRowOver(r.job, ended)
  BY RunFacts, EndKeeps DEF Inv
<1>2. jobs \ {r.job} \subseteq ended  BY DEF Ended
<1>3. RunsOK'  BY RunGone DEF RunTells
<1> HIDE DEF ended
<1>4. ASSUME NEW to, to \subseteq Person \union {Giver}, bells' = Rung(to, r),
             jobs' = ended, MayTell(Moment(r.job, r.at), r.at)
      PROVE  Inv'
  <2>1. \A b \in bells' : \/ b \in bells
                          \/ /\ b \in Bell /\ b.kind = r.job.kind
                             /\ b.due = r.job.due /\ b.at = r.at
    BY <1>4, RunFacts DEF Rung, Bell, JobRow
  <2>2. BellsOK(bells', jobs')
    <3>1. RangOver(bells', jobs')
      BY <1>1, <1>4, <2>1 DEF BellsOK, RangOver, SameNudge
    <3>2. \A b \in bells' : ScanRowOver(b, jobs')
      BY <1>1, <1>4, <2>1 DEF BellsOK, RangFromScan, ScanRowOver, SameNudge
    <3> QED  BY <3>1, <3>2 DEF BellsOK, RangFromScan
  <2>3. QuietKept'
    <3>1. Quiet(r.at) => r.at \in {QuietStart, QuietEnd - 1}
      BY <1>4, RunFacts, ToldOutsideQuiet
    <3> QED  BY <2>1, <3>1 DEF Inv, QuietKept, Quiet
  <2>4. TypeOK'
    <3>1. bells' \subseteq Bell  BY <2>1 DEF Inv, TypeOK
    <3> QED
      BY <1>1, <1>2, <1>4, <3>1, RunFacts DEF RunTells, history, Inv, TypeOK, RowsOK
  <2>5. RowsOK(jobs') /\ OneQueued(jobs')  BY <1>1, <1>4
  <2> QED
    BY <1>3, <2>2, <2>3, <2>4, <2>5 DEF Inv, RowsOK, OneQueued, BellsOK,
       OneRowPerKey, PutOffOnce, RangOver, RangFromScan, ScanRowOver
<1>5. ASSUME UNCHANGED bells, jobs \ {r.job} \subseteq jobs',
             RowsOK(jobs'), OneQueued(jobs'), BellsOK(bells, jobs')
      PROVE  Inv'
  <2>1. TypeOK'
    BY <1>5, RunFacts DEF RunTells, history, Inv, TypeOK, RowsOK
  <2> QED
    BY <1>3, <1>5, <2>1 DEF Inv, RowsOK, OneQueued, BellsOK, QuietKept,
       OneRowPerKey, PutOffOnce, RangOver, RangFromScan, ScanRowOver
<1>6. CASE r.job.kind = "remind"
  <2>1. bells' = Rung(item.todo, r) /\ jobs' = ended
    BY <1>6 DEF RunTells, ended
  <2>2. item.todo \subseteq Person \union {Giver}  BY DEF Inv, TypeOK
  <2>3. MayTell(Moment(r.job, r.at), r.at)  BY <1>6 DEF Inv, RunsOK
  <2> QED  BY <1>4, <2>1, <2>2, <2>3
<1>7. CASE r.job.kind # "remind"
  <2>1. CASE item.todo = {}
    <3>1. jobs' = ended /\ UNCHANGED bells  BY <1>7, <2>1 DEF RunTells, ended
    <3> QED  BY <3>1, <1>1, <1>2, <1>5
  <2>2. CASE item.todo # {} /\ MayTell(Moment(r.job, r.at), r.at)
    <3>1. bells' = Rung({Giver}, r) /\ jobs' = ended
      BY <1>7, <2>2 DEF RunTells, ended
    <3>2. {Giver} \subseteq Person \union {Giver}  OBVIOUS
    <3> QED  BY <1>4, <2>2, <3>1, <3>2
  <2>3. CASE item.todo # {} /\ ~MayTell(Moment(r.job, r.at), r.at)
    <3>1. jobs' = PutOff(r.job, r.at) /\ UNCHANGED bells
      BY <1>7, <2>3 DEF RunTells
    <3>2. /\ RowsOK(jobs') /\ OneQueued(jobs') /\ BellsOK(bells, jobs')
          /\ jobs \ {r.job} \subseteq jobs'
      BY <2>3, <3>1, RunFacts, PutOffKeeps DEF Inv
    <3> QED  BY <3>1, <3>2, <1>5
  <2> QED  BY <2>1, <2>2, <2>3
<1> QED  BY <1>6, <1>7

-----------------------------------------------------------------------------
(* The theorems.                                                           *)

LEMMA Initially == Init => Inv
<1> SUFFICES ASSUME Init PROVE Inv
  OBVIOUS
<1>1. TypeOK
  <2>1. item \in [due : Deadline \union {NoDue}, open : BOOLEAN, todo : SUBSET Person]
    BY DEF Init
  <2> QED  BY <2>1, TimesAssumption DEF Init, TypeOK
<1> QED
  BY <1>1 DEF Init, Inv, RowsOK, OneQueued, BellsOK, RunsOK, QuietKept,
     OneRowPerKey, PutOffOnce, RangOver, RangFromScan

LEMMA Inductive == Inv /\ [Next]_vars => Inv'
<1> SUFFICES ASSUME Inv, [Next]_vars PROVE Inv'
  OBVIOUS
<1>1. CASE \/ TimePasses \/ Close \/ Reopen \/ Switch
           \/ \E d \in Deadline \union {NoDue} : Move(d)
           \/ \E p \in Person : Finish(p)
  BY <1>1, ItemStep
<1>2. CASE Scan  BY <1>2, ScanStep
<1>3. CASE \E j \in jobs : RunReads(j)  BY <1>3, ReadStep
<1>4. CASE \E r \in runs : RunTells(r)  BY <1>4, TellStep
<1>5. CASE \E r \in runs : RunFails(r)  BY <1>5, FailStep
<1>6. CASE UNCHANGED vars
  BY <1>6 DEF vars, Inv, TypeOK, RowsOK, OneQueued, BellsOK, RunsOK, QuietKept,
     OneRowPerKey, PutOffOnce, RangOver, RangFromScan, ScanRowOver
<1> QED  BY <1>1, <1>2, <1>3, <1>4, <1>5, <1>6 DEF Next

LEMMA InvHolds == Spec => []Inv
BY Initially, Inductive, PTL DEF Spec

\* Rows, runs and bells keep their types: a run's job is a row that is still
\* queued, whatever the other runs do.
THEOREM TypeCorrect == Spec => []TypeOK
<1>1. Inv => TypeOK  BY DEF Inv
<1> QED  BY <1>1, InvHolds, PTL

\* One reminder and one giver's notice per deadline, under way or rung, for any
\* deadlines, lead, grace and quiet hours.
THEOREM OneNudgePerDeadline == Spec => []OneNudge
<1>1. Inv => OneNudge
  BY DEF Inv, BellsOK, OneQueued, RangOver, SameNudge, OneNudge
<1> QED  BY <1>1, InvHolds, PTL

\* No nudge rings inside the quiet hours, however late its job runs.
THEOREM QuietHoursKept == Spec => []QuietKept
<1>1. Inv => QuietKept  BY DEF Inv
<1> QED  BY <1>1, InvHolds, PTL

-----------------------------------------------------------------------------
(* ToldInTime.  What is true of an item nobody touched since it was given  *)
(* (Undisturbed), as long as no job has died: the last scan left a row for *)
(* every nudge whose moment it saw coming; a row waits no longer than it   *)
(* must; and a nudge that has a row has rung, waits, or was dropped for the*)
(* quiet hours.  A tick on which the workers kept up and the quiet hours   *)
(* are over therefore leaves nobody untold (InTime).                       *)

\* The moment a reminder is meant for.
Ideal == Latest({item.due - Lead, item.due \div 2})

Told(kind) ==
    \/ kind = "remind" /\ \A p \in item.todo : Rang(p, "remind")
    \/ kind = "overdue" /\ (Rang(Giver, "overdue") \/ item.todo = {})

ScanRow(kind) == \E j \in jobs : j.kind = kind /\ j.again = 0
Waiting(kind) == \E j \in jobs : j.kind = kind /\ j.status = "queued"

OwnRows == since = 0 => \A j \in jobs : j.due = item.due
DeathLapses == \A j \in jobs : j.status = "dead" => lapse >= MaxTime

ScanLeft ==
    Undisturbed /\ scanned > 0 /\ scanned - Grace < item.due /\ item.due <= scanned + MaxLead + Ahead =>
        /\ \A t \in ReminderAt(item.due, scanned) : t <= scanned + Ahead => ScanRow("remind")
        /\ \A t \in OverdueNoticeAt(item.due, scanned) : t <= scanned + Ahead => ScanRow("overdue")

\* A row waits for the workers, for its moment, for the end of the quiet hours, or
\* it was meant for the minute before them.
Night(t) == QuietStart < QuietEnd /\ (QuietStart <= t \/ QuietStart <= now)
InOrder(j) ==
    /\ j.kind = "overdue" => j.at >= item.due
    /\ j.status = "queued" =>
          \/ j.at <= lapse \/ j.at <= now
          \/ j.kind = "remind" /\ j.at = Ideal /\ ~Quiet(Ideal)
          \/ j.kind = "remind" /\ Night(Ideal) /\ (j.at = QuietStart - 1 \/ (j.at = QuietEnd /\ QuietEnd < item.due))
          \/ j.kind = "overdue" /\ j.at = item.due
          \/ j.kind = "overdue" /\ Night(item.due) /\ j.at = QuietEnd

Attended == Undisturbed /\ lapse < MaxTime
MomentsOK == Attended => \A j \in jobs : InOrder(j)

Dropped == QuietStart < now /\ QuietStart < QuietEnd /\ item.due <= QuietEnd
RowsTell ==
    Attended => \A kind \in Kind : ScanRow(kind) =>
        Told(kind) \/ Waiting(kind) \/ (kind = "remind" /\ (Dropped \/ now >= item.due))

\* The workers kept up for a period, and the quiet hours are over.
Awake(t) == lapse + Period <= t /\ ~Quiet(t)

\* The reminder of a deadline in the quiet hours comes in the last minutes before.
BeforeNight ==
    /\ Period <= QuietStart /\ (QuietStart <= Ideal \/ QuietStart <= Period)
    /\ Period < item.due /\ item.due <= QuietEnd

InTime ==
    Attended =>
        /\ \A t \in Ideal .. item.due - 1 : t < now /\ Awake(t) => Told("remind")
        /\ lapse = 0 /\ QuietStart < now /\ BeforeNight => Told("remind")
        /\ \A t \in item.due .. now - 1 : t < item.due + Grace /\ Awake(t) => Told("overdue")

TInv == OwnRows /\ DeathLapses /\ ScanLeft /\ MomentsOK /\ RowsTell /\ InTime

Later(a, b) == IF a <= b THEN b ELSE a

LEMMA LatestIs ==
    ASSUME NEW a \in Int, NEW b \in Int
    PROVE  Latest({a, b}) = Later(a, b)
<1>1. \E t \in {a, b} : \A u \in {a, b} : t >= u  OBVIOUS
<1> QED  BY <1>1 DEF Latest, Later

\* When a reminder is sent, from a scan at t.
LEMMA ReminderIs ==
    ASSUME NEW due \in Nat \ {0}, NEW ideal, ideal = Latest({due - Lead, due \div 2}), NEW t \in Nat
    PROVE  /\ ideal \in Int /\ ideal < due /\ due - Lead <= ideal
           /\ ReminderAt(due, t) = IF Later(ideal, t) >= due THEN {}
                                   ELSE DeliveryTime(Later(ideal, t), due, t)
<1> DEFINE early == due - Lead
           half == due \div 2
<1>1. early \in Int /\ early < due  BY TimesAssumption
<1>2. half \in Int /\ half < due  BY SMT
<1>3. ideal = Latest({early, half})  OBVIOUS
<1>4. ReminderAt(due, t) = IF Latest({early, half, t}) >= due THEN {}
                           ELSE DeliveryTime(Latest({early, half, t}), due, t)
  BY DEF ReminderAt
<1>5. due - Lead = early  OBVIOUS
<1> HIDE DEF early, half
<1>6. ideal = Later(early, half)  BY <1>1, <1>2, <1>3, LatestIs
<1>7. Latest({early, half, t}) = Later(ideal, t)
  <2>1. t \in Int  OBVIOUS
  <2>2. Latest({early, half, t}) \in {early, half, t}
        /\ \A u \in {early, half, t} : Latest({early, half, t}) >= u
    <3>1. \E m \in {early, half, t} : \A u \in {early, half, t} : m >= u
      BY <1>1, <1>2, <2>1
    <3> QED  BY <3>1 DEF Latest
  <2> HIDE DEF Later
  <2>3. Later(ideal, t) = IF ideal <= t THEN t ELSE ideal  BY DEF Later
  <2>4. ideal = IF early <= half THEN half ELSE early  BY <1>6 DEF Later
  <2> QED  BY <1>1, <1>2, <2>1, <2>2, <2>3, <2>4
<1> QED  BY <1>1, <1>2, <1>4, <1>5, <1>6, <1>7 DEF Later

LEMMA LaterIs ==
    ASSUME NEW a \in Int, NEW b \in Int
    PROVE  /\ Later(a, b) \in Int /\ Later(a, b) >= a /\ Later(a, b) >= b
           /\ Later(a, b) = a \/ Later(a, b) = b
BY DEF Later

\* What the steps below need of the invariant.
LEMMA Basics ==
    ASSUME Inv
    PROVE  /\ now \in Nat /\ now <= MaxTime /\ MaxTime \in Nat /\ lapse \in Nat
           /\ scanned \in Nat /\ scanned <= now /\ since \in Nat
           /\ \A j \in jobs : j \in JobRow /\ j.kind \in Kind /\ j.at \in Int
           /\ item.due \in Nat /\ (item.due # NoDue => item.due \in Nat \ {0})
<1>1. item.due \in Deadline \union {NoDue}  BY DEF Inv, TypeOK
<1>2. item.due \in Nat /\ (item.due # NoDue => item.due \in Nat \ {0})
  <2>1. Deadline \subseteq Nat \ {0}  BY TimesAssumption
  <2>2. NoDue \in Nat  BY DEF NoDue
  <2>3. Nat \ {0} \subseteq Nat  OBVIOUS
  <2> QED  BY <1>1, <2>1, <2>2, <2>3
<1>3. \A j \in jobs : j \in JobRow /\ j.kind \in Kind /\ j.at \in Int
  BY DEF Inv, TypeOK, JobRow
<1>4. /\ now \in Nat /\ now <= MaxTime /\ MaxTime \in Nat /\ lapse \in Nat
      /\ scanned \in Nat /\ scanned <= now /\ since \in Nat
  BY TimesAssumption DEF Inv, TypeOK
<1> QED  BY <1>2, <1>3, <1>4

LEMMA IdealFacts ==
    ASSUME Inv, Undisturbed
    PROVE  /\ item.due \in Nat \ {0} /\ Ideal \in Int /\ Ideal < item.due /\ item.due - Lead <= Ideal
           /\ \A t \in Nat : ReminderAt(item.due, t) =
                 IF Later(Ideal, t) >= item.due THEN {}
                 ELSE DeliveryTime(Later(Ideal, t), item.due, t)
<1>1. item.due \in Nat \ {0}  BY Basics DEF Undisturbed
<1>2. Ideal = Latest({item.due - Lead, item.due \div 2})  BY DEF Ideal
<1>3. ASSUME NEW due \in Nat \ {0}, NEW ideal, ideal = Latest({due - Lead, due \div 2})
      PROVE  /\ ideal \in Int /\ ideal < due /\ due - Lead <= ideal
             /\ \A t \in Nat : ReminderAt(due, t) =
                   IF Later(ideal, t) >= due THEN {} ELSE DeliveryTime(Later(ideal, t), due, t)
  <2>1. 0 \in Nat  OBVIOUS
  <2> QED  BY <1>3, <2>1, ReminderIs
<1> DEFINE due == item.due
           ideal == Ideal
<1>4. due \in Nat \ {0} /\ ideal = Latest({due - Lead, due \div 2})  BY <1>1, <1>2
<1> HIDE DEF due, ideal
<1>5. /\ ideal \in Int /\ ideal < due /\ due - Lead <= ideal
      /\ \A t \in Nat : ReminderAt(due, t) =
             IF Later(ideal, t) >= due THEN {} ELSE DeliveryTime(Later(ideal, t), due, t)
  BY <1>3, <1>4
<1> QED  BY <1>4, <1>5 DEF due, ideal

-----------------------------------------------------------------------------
(* A tick on which the workers kept up.                                    *)

KeptUp == now + 1 - scanned <= Period /\ ~ \E j \in jobs : Due(j)

\* A row that waits is not due yet.
LEMMA NotYetDue ==
    ASSUME Inv, TInv, Attended, KeptUp, NEW kind \in Kind, Waiting(kind)
    PROVE  \E j \in jobs : /\ j.kind = kind /\ j.status = "queued" /\ InOrder(j)
                           /\ j.at \in Int /\ j.at > now
<1>1. PICK j \in jobs : j.kind = kind /\ j.status = "queued"  BY DEF Waiting
<1>2. j.at \in Int /\ now \in Nat /\ lapse \in Nat  BY Basics
<1>3. InOrder(j)  BY DEF TInv, MomentsOK
<1>4. j.at > now  BY <1>1, <1>2 DEF KeptUp, Due
<1> QED  BY <1>1, <1>2, <1>3, <1>4

LEMMA AwakeReminded ==
    ASSUME Inv, TInv, Attended, KeptUp, Ideal <= now, now < item.due, Awake(now)
    PROVE  Told("remind")
<1>1. /\ now \in Nat /\ scanned \in Nat /\ scanned <= now /\ lapse \in Nat
      /\ item.due \in Nat \ {0} /\ Ideal \in Int /\ item.due - Lead <= Ideal
  BY Basics, IdealFacts DEF Attended
<1>2. /\ Period \in Nat /\ Ahead \in Nat /\ Grace \in Nat /\ MaxLead \in Nat /\ Lead \in Nat
      /\ QuietStart \in Nat /\ QuietEnd \in Nat /\ Period <= Ahead /\ Lead <= MaxLead
  BY TimesAssumption, HorizonAssumption
<1>3. /\ scanned > 0 /\ scanned - Grace < item.due /\ item.due <= scanned + MaxLead + Ahead
      /\ now <= scanned + Ahead /\ lapse <= now
  BY <1>1, <1>2 DEF KeptUp, Awake
<1> DEFINE x == Later(Ideal, scanned)
<1>4. x \in Int /\ x <= now /\ ReminderAt(item.due, scanned) = DeliveryTime(x, item.due, scanned)
  <2>1. Later(Ideal, scanned) <= now /\ Later(Ideal, scanned) \in Int  BY <1>1 DEF Later
  <2>2. ReminderAt(item.due, scanned) =
           IF Later(Ideal, scanned) >= item.due THEN {}
           ELSE DeliveryTime(Later(Ideal, scanned), item.due, scanned)
    BY <1>1, IdealFacts DEF Attended
  <2> QED  BY <1>1, <2>1, <2>2
<1> HIDE DEF x
<1>5. \E t \in ReminderAt(item.due, scanned) : t <= scanned + Ahead
  <2>1. CASE ~Quiet(x)  BY <1>1, <1>2, <1>3, <1>4, <2>1 DEF DeliveryTime
  <2>2. CASE Quiet(x)
    <3>1. QuietEnd <= now  BY <1>1, <1>2, <1>4, <2>2 DEF Quiet, Awake
    <3>2. ReminderAt(item.due, scanned) = {QuietEnd}
      BY <1>1, <1>2, <1>4, <2>2, <3>1 DEF DeliveryTime
    <3> QED  BY <1>1, <1>2, <1>3, <3>1, <3>2
  <2> QED  BY <2>1, <2>2
<1>6. ScanRow("remind")
  BY <1>3, <1>5 DEF TInv, ScanLeft, Attended
<1>7. Told("remind") \/ Waiting("remind") \/ Dropped
  BY <1>1, <1>6 DEF TInv, RowsTell, Kind
<1>8. ~Dropped
  BY <1>1, <1>2 DEF Dropped, Awake, Quiet
<1>9. ~Waiting("remind")
  <2> SUFFICES ASSUME Waiting("remind") PROVE FALSE
    OBVIOUS
  <2>1. PICK j \in jobs : j.kind = "remind" /\ j.status = "queued" /\ InOrder(j) /\ j.at \in Int /\ j.at > now
    BY NotYetDue DEF Kind
  <2>2. \/ j.at = Ideal \/ (Night(Ideal) /\ (j.at = QuietStart - 1 \/ j.at = QuietEnd))
    BY <1>1, <1>3, <2>1 DEF InOrder
  <2> QED  BY <1>1, <1>2, <2>1, <2>2 DEF Night, Awake, Quiet
<1> QED  BY <1>7, <1>8, <1>9

LEMMA BeforeNightReminded ==
    ASSUME Inv, TInv, Attended, KeptUp, lapse = 0, now = QuietStart, BeforeNight
    PROVE  Told("remind")
<1>1. /\ now \in Nat /\ scanned \in Nat /\ scanned <= now
      /\ item.due \in Nat \ {0} /\ Ideal \in Int /\ Ideal < item.due
  BY Basics, IdealFacts DEF Attended
<1>2. /\ Period \in Nat /\ Ahead \in Nat /\ Grace \in Nat /\ MaxLead \in Nat
      /\ QuietStart \in Nat /\ QuietEnd \in Nat /\ Period <= Ahead /\ QuietEnd - QuietStart <= MaxLead
  BY TimesAssumption, HorizonAssumption
<1>3. QuietStart < item.due /\ Period <= QuietStart /\ item.due <= QuietEnd
  BY <1>1, <1>2 DEF BeforeNight
<1>4. /\ scanned > 0 /\ scanned - Grace < item.due /\ item.due <= scanned + MaxLead + Ahead
      /\ now <= scanned + Ahead
  BY <1>1, <1>2, <1>3 DEF KeptUp
<1> DEFINE x == Later(Ideal, scanned)
<1>5. x \in Int /\ x < item.due /\ x >= scanned /\ ReminderAt(item.due, scanned) = DeliveryTime(x, item.due, scanned)
  <2>1. x < item.due /\ x \in Int /\ x >= scanned  BY <1>1, <1>3 DEF Later
  <2>2. ReminderAt(item.due, scanned) =
           IF Later(Ideal, scanned) >= item.due THEN {}
           ELSE DeliveryTime(Later(Ideal, scanned), item.due, scanned)
    BY <1>1, IdealFacts DEF Attended
  <2> QED  BY <1>1, <2>1, <2>2
<1> HIDE DEF x
<1>6. \E t \in ReminderAt(item.due, scanned) : t <= scanned + Ahead
  <2>1. CASE ~Quiet(x)
    <3>1. x < QuietStart  BY <1>1, <1>2, <1>3, <1>5, <2>1 DEF Quiet
    <3>2. ReminderAt(item.due, scanned) = {x}  BY <1>5, <2>1 DEF DeliveryTime
    <3> QED  BY <1>1, <1>2, <1>4, <1>5, <3>1, <3>2
  <2>2. CASE Quiet(x)
    <3>1. ReminderAt(item.due, scanned) = {before \in {QuietStart - 1} : before >= scanned - 1}
      BY <1>1, <1>2, <1>3, <1>5, <2>2 DEF DeliveryTime, NoDue
    <3>2. QuietStart - 1 \in ReminderAt(item.due, scanned)  BY <1>1, <1>2, <3>1
    <3> QED  BY <1>1, <1>2, <1>4, <3>2
  <2> QED  BY <2>1, <2>2
<1>7. ScanRow("remind")
  BY <1>4, <1>6 DEF TInv, ScanLeft, Attended
<1>8. Told("remind") \/ Waiting("remind") \/ Dropped
  BY <1>1, <1>3, <1>7 DEF TInv, RowsTell, Kind
<1>9. ~Dropped
  BY <1>1, <1>2 DEF Dropped
<1>10. ~Waiting("remind")
  <2> SUFFICES ASSUME Waiting("remind") PROVE FALSE
    OBVIOUS
  <2>1. PICK j \in jobs : j.kind = "remind" /\ j.status = "queued" /\ InOrder(j) /\ j.at \in Int /\ j.at > now
    BY NotYetDue DEF Kind
  <2>2. \/ j.at = Ideal /\ ~Quiet(Ideal)
        \/ j.at = QuietStart - 1 \/ (j.at = QuietEnd /\ QuietEnd < item.due)
    BY <1>1, <2>1 DEF InOrder
  <2> QED  BY <1>1, <1>2, <1>3, <2>1, <2>2 DEF Quiet
<1> QED  BY <1>8, <1>9, <1>10

LEMMA AwakeGiverTold ==
    ASSUME Inv, TInv, Attended, KeptUp, item.due <= now, now < item.due + Grace, Awake(now)
    PROVE  Told("overdue")
<1>1. /\ now \in Nat /\ scanned \in Nat /\ scanned <= now /\ lapse \in Nat
      /\ item.due \in Nat \ {0}
  BY Basics, IdealFacts DEF Attended
<1>2. /\ Period \in Nat /\ Ahead \in Nat /\ Grace \in Nat /\ MaxLead \in Nat
      /\ QuietStart \in Nat /\ QuietEnd \in Nat /\ Period <= Ahead
  BY TimesAssumption, HorizonAssumption
<1>3. /\ scanned > 0 /\ scanned - Grace < item.due /\ item.due <= scanned + MaxLead + Ahead
      /\ now <= scanned + Ahead /\ lapse <= now
  BY <1>1, <1>2 DEF KeptUp, Awake
<1>4. \E t \in OverdueNoticeAt(item.due, scanned) : t <= scanned + Ahead
  <2>1. OverdueNoticeAt(item.due, scanned) = DeliveryTime(item.due, NoDue, scanned)
    BY <1>1, <1>2, <1>3 DEF OverdueNoticeAt
  <2>2. CASE ~Quiet(item.due)  BY <1>1, <1>2, <1>3, <2>1, <2>2 DEF DeliveryTime
  <2>3. CASE Quiet(item.due)
    <3>1. QuietEnd <= now  BY <1>1, <1>2, <2>3 DEF Quiet, Awake
    <3>2. OverdueNoticeAt(item.due, scanned) = {QuietEnd}  BY <2>1, <2>3 DEF DeliveryTime
    <3> QED  BY <1>1, <1>2, <1>3, <3>1, <3>2
  <2> QED  BY <2>2, <2>3
<1>5. ScanRow("overdue")
  BY <1>3, <1>4 DEF TInv, ScanLeft, Attended
<1>6. Told("overdue") \/ Waiting("overdue")
  BY <1>5 DEF TInv, RowsTell, Kind
<1>7. ~Waiting("overdue")
  <2> SUFFICES ASSUME Waiting("overdue") PROVE FALSE
    OBVIOUS
  <2>1. PICK j \in jobs : j.kind = "overdue" /\ j.status = "queued" /\ InOrder(j) /\ j.at \in Int /\ j.at > now
    BY NotYetDue DEF Kind
  <2>2. j.at = item.due \/ (Night(item.due) /\ j.at = QuietEnd)
    BY <1>1, <1>3, <2>1 DEF InOrder
  <2> QED  BY <1>1, <1>2, <2>1, <2>2 DEF Night, Awake, Quiet
<1> QED  BY <1>6, <1>7

-----------------------------------------------------------------------------
(* The steps.                                                              *)

\* An item nobody has changed has the deadline it had.
LEMMA DeadlineStays ==
    ASSUME Inv, [Next]_vars, since' = 0
    PROVE  /\ since = 0 /\ item'.due = item.due /\ item'.todo \subseteq item.todo
           /\ enabled' = enabled /\ (item'.open => item.open)
<1>1. now + 1 # 0
  BY Basics
<1>2. CASE \E p \in Person : Finish(p)
  <2>1. PICK p \in Person : Finish(p)  BY <1>2
  <2>2. /\ item.open /\ item' = [item EXCEPT !.todo = @ \ {p}, !.open = item.todo # {p}]
        /\ enabled' = enabled /\ since' = since
    BY <2>1 DEF Finish, history
  <2>3. item \in [due : Deadline \union {NoDue}, open : BOOLEAN, todo : SUBSET Person]
    BY DEF Inv, TypeOK
  <2>4. item'.due = item.due /\ item'.todo = item.todo \ {p}  BY <2>2, <2>3
  <2> QED  BY <1>1, <2>2, <2>4
<1>3. CASE UNCHANGED <<item, enabled, since>>
  BY <1>1, <1>3
<1>4. ~(Close \/ Reopen \/ Switch \/ \E d \in Deadline \union {NoDue} : Move(d))
  BY <1>1 DEF Close, Reopen, Switch, Move
<1>5. \/ UNCHANGED <<item, enabled, since>> \/ \E p \in Person : Finish(p)
  BY <1>4 DEF Next, vars, TimePasses, Scan, RunReads, RunTells, RunFails, history
<1> QED  BY <1>2, <1>3, <1>5

LEMMA StaysUndisturbed ==
    ASSUME Inv, [Next]_vars, Undisturbed'
    PROVE  /\ Undisturbed /\ since' = 0 /\ since = 0
           /\ item'.due = item.due /\ item'.todo \subseteq item.todo
BY DeadlineStays DEF Undisturbed

\* Told stays told.
LEMMA ToldStays ==
    ASSUME item'.due = item.due, item'.todo \subseteq item.todo, bells \subseteq bells',
           NEW kind, Told(kind)
    PROVE  Told(kind)'
BY DEF Told, Rang

\* A row in order stays so while the workers are late or time passes.
LEMMA InOrderStays ==
    ASSUME Inv, Undisturbed, item'.due = item.due, now' \in Nat, now <= now', lapse' \in Nat,
           lapse <= lapse', NEW j \in JobRow, InOrder(j)
    PROVE  InOrder(j)'
<1>1. Ideal' = Ideal  BY DEF Ideal
<1>2. /\ now \in Nat /\ lapse \in Nat /\ j.at \in Int /\ Ideal \in Int /\ item.due \in Nat
      /\ QuietStart \in Nat /\ QuietEnd \in Nat
  BY Basics, IdealFacts, TimesAssumption DEF JobRow
<1>3. \A t : Night(t) => Night(t)'
  BY <1>2 DEF Night
<1> QED  BY <1>1, <1>2, <1>3 DEF InOrder, Quiet

LEMMA InTimeStays ==
    ASSUME Inv, TInv, Attended' => Attended, now' = now, lapse' \in Nat, lapse <= lapse',
           item'.due = item.due, item'.todo \subseteq item.todo, bells \subseteq bells'
    PROVE  InTime'
<1> SUFFICES ASSUME Attended' PROVE InTime'
  BY DEF InTime
<1>1. /\ now \in Nat /\ lapse \in Nat /\ Ideal \in Int /\ item.due \in Nat
      /\ Period \in Nat /\ QuietStart \in Nat /\ QuietEnd \in Nat /\ Grace \in Nat
  BY Basics, IdealFacts, TimesAssumption DEF Attended
<1>2. Ideal' = Ideal /\ BeforeNight' = BeforeNight  BY DEF Ideal, BeforeNight
<1>3. \A t \in Int : Awake(t)' => Awake(t)
  <2> SUFFICES ASSUME NEW t \in Int, Awake(t)' PROVE Awake(t)
    OBVIOUS
  <2>1. lapse' + Period <= t  BY DEF Awake
  <2>4. ~Quiet(t)  BY DEF Awake, Quiet
  <2>2. lapse \in Int /\ lapse' \in Int /\ Period \in Int /\ t \in Int /\ lapse <= lapse'  BY <1>1
  <2>3. lapse + Period <= t
    <3> DEFINE a == lapse
               b == lapse'
    <3>1. a \in Int /\ b \in Int /\ Period \in Int /\ t \in Int /\ a <= b /\ b + Period <= t
      BY <2>1, <2>2
    <3> HIDE DEF a, b
    <3>2. a + Period <= t  BY ONLY <3>1
    <3> QED  BY <3>2 DEF a
  <2> QED  BY <2>4, <2>3 DEF Awake
<1>4. \A kind : Told(kind) => Told(kind)'  BY ToldStays
<1>5. /\ \A t \in Ideal .. item.due - 1 : t < now /\ Awake(t) => Told("remind")
      /\ lapse = 0 /\ QuietStart < now /\ BeforeNight => Told("remind")
      /\ \A t \in item.due .. now - 1 : t < item.due + Grace /\ Awake(t) => Told("overdue")
  BY DEF TInv, InTime
<1>6. lapse' = 0 => lapse = 0  BY <1>1
<1>7. \A t \in (Ideal .. item.due - 1) \union (item.due .. now - 1) : t \in Int  BY <1>1
<1> HIDE DEF Told, Awake, BeforeNight, Ideal
<1> QED  BY <1>1, <1>2, <1>3, <1>4, <1>5, <1>6, <1>7 DEF InTime

\* What a step of the runs has to show.
LEMMA RowsStep ==
    ASSUME Inv, TInv, [Next]_vars, UNCHANGED <<now, enabled, item, scanned, since>>,
           bells \subseteq bells', lapse' \in Nat, lapse' < MaxTime => lapse <= lapse',
           \A i \in jobs : \E k \in jobs' : SameKey(k, i),
           since = 0 => \A k \in jobs' : k.due = item.due,
           \A k \in jobs' : k.status = "dead" => lapse' >= MaxTime,
           Attended' => \A k \in jobs' : k \in jobs \/ InOrder(k)',
           RowsTell'
    PROVE  TInv'
<1>1. Attended' => Attended /\ lapse <= lapse'
  <2>1. lapse \in Nat /\ MaxTime \in Nat  BY Basics
  <2> QED  BY <2>1 DEF Attended, Undisturbed
<1>2. OwnRows'  BY DEF OwnRows
<1>3. DeathLapses'  BY DEF DeathLapses
<1>4. \A kind : ScanRow(kind) => ScanRow(kind)'
  BY DEF ScanRow, SameKey
<1>5. ScanLeft'
  <2>1. ScanLeft  BY DEF TInv
  <2> QED  BY <1>4, <2>1 DEF ScanLeft, Undisturbed, ReminderAt, OverdueNoticeAt, DeliveryTime, Quiet
<1>6. MomentsOK'
  <2> SUFFICES ASSUME Attended', NEW k \in jobs' PROVE InOrder(k)'
    BY DEF MomentsOK
  <2>1. CASE k \in jobs
    <3>1. InOrder(k)  BY <1>1, <2>1 DEF TInv, MomentsOK
    <3>2. now \in Nat /\ k \in JobRow  BY <2>1, Basics
    <3>3. Undisturbed /\ lapse <= lapse'  BY <1>1 DEF Attended
    <3> QED  BY <3>1, <3>2, <3>3, InOrderStays
  <2> QED  BY <2>1
<1>7. InTime'
  <2>1. CASE ~Attended'  BY <2>1 DEF InTime
  <2>2. CASE Attended'   BY <1>1, <2>2, InTimeStays
  <2> QED  BY <2>1, <2>2
<1> QED  BY <1>2, <1>3, <1>5, <1>6, <1>7 DEF TInv

\* A row that ends takes no other kind's row with it.
LEMMA EndTells ==
    ASSUME Inv, TInv, Attended' => Attended, UNCHANGED <<now, item>>, bells \subseteq bells',
           NEW j \in jobs, j.status = "queued", jobs \ {j} \subseteq jobs',
           \A k \in jobs' : k.again = 0 => \E i \in jobs : SameKey(k, i),
           Attended' => \/ Told(j.kind)' \/ Waiting(j.kind)'
                        \/ j.kind = "remind" /\ (Dropped \/ now >= item.due)
    PROVE  RowsTell'
<1> SUFFICES ASSUME Attended', NEW kind \in Kind, ScanRow(kind)'
             PROVE  Told(kind)' \/ Waiting(kind)' \/ (kind = "remind" /\ (Dropped' \/ now' >= item'.due))
  BY DEF RowsTell
<1>1. ScanRow(kind)  BY DEF ScanRow, SameKey
<1>2. Dropped' = Dropped  BY DEF Dropped
<1>3. CASE kind = j.kind  BY <1>2, <1>3
<1>4. CASE kind # j.kind
  <2>1. Told(kind) \/ Waiting(kind) \/ (kind = "remind" /\ (Dropped \/ now >= item.due))
    BY <1>1 DEF TInv, RowsTell
  <2>2. Told(kind) => Told(kind)'  BY ToldStays
  <2>3. Waiting(kind) => Waiting(kind)'  BY <1>4 DEF Waiting
  <2> QED  BY <1>2, <2>1, <2>2, <2>3
<1> QED  BY <1>3, <1>4

\* What ends with its row, and what is put off.
LEMMA EndedRows ==
    ASSUME NEW j \in JobRow, j \in jobs, NEW s \in {"done", "dead"}
    PROVE  /\ jobs \ {j} \subseteq Ended(j, s)
           /\ \A k \in Ended(j, s) : k \in jobs
                \/ (SameKey(k, j) /\ k.kind = j.kind /\ k.due = j.due /\ k.at = j.at /\ k.status = s)
           /\ \E k \in Ended(j, s) : SameKey(k, j)
<1> DEFINE e == [j EXCEPT !.status = s]
<1>1. /\ e.kind = j.kind /\ e.due = j.due /\ e.again = j.again
      /\ e.at = j.at /\ e.status = s
  BY DEF JobRow
<1> HIDE DEF e
<1>2. Ended(j, s) = (jobs \ {j}) \union {e}  BY DEF Ended, e
<1> QED  BY <1>1, <1>2 DEF SameKey

LEMMA PutOffRows ==
    ASSUME RowsOK(jobs), OneQueued(jobs), NEW j \in jobs, j.status = "queued",
           NEW t \in Nat, t >= j.at, ~MayTell(Moment(j, t), t)
    PROVE  /\ jobs \ {j} \subseteq PutOff(j, t)
           /\ \A k \in PutOff(j, t) : k \in Ended(j, "done")
                \/ ( /\ k.kind = j.kind /\ k.due = j.due /\ k.again # 0
                     /\ k.at = QuietEnd /\ k.status = "queued" /\ Moment(j, t) = {QuietEnd} )
           /\ \E k \in PutOff(j, t) : SameKey(k, j)
           /\ Moment(j, t) # {} => \E k \in PutOff(j, t) : k.kind = j.kind /\ k.status = "queued"
<1>0. j \in JobRow  BY DEF RowsOK
<1>1. t < QuietEnd /\ Moment(j, t) \subseteq {QuietEnd}  BY PutOffToQuietEnd
<1>2. QuietEnd \in Nat /\ QuietEnd # 0  BY <1>1, TimesAssumption
<1> DEFINE ended == Ended(j, "done")
           n == Job(j.kind, j.due, QuietEnd, QuietEnd)
<1>3. /\ n.kind = j.kind /\ n.due = j.due /\ n.again = QuietEnd /\ n.at = QuietEnd /\ n.status = "queued"
  BY DEF Job
<1>4. /\ jobs \ {j} \subseteq ended
      /\ \A k \in ended : k \in jobs
           \/ (SameKey(k, j) /\ k.kind = j.kind /\ k.due = j.due /\ k.at = j.at /\ k.status = "done")
      /\ \E k \in ended : SameKey(k, j)
  BY <1>0, EndedRows
<1>5. PutOff(j, t) = Enqueued(ended, {Job(j.kind, j.due, at, at) : at \in Moment(j, t)})
  BY DEF PutOff
<1> HIDE DEF ended, n
<1>6. ended \subseteq PutOff(j, t)  BY <1>5 DEF Enqueued
<1>7. CASE Moment(j, t) = {}
  <2>1. PutOff(j, t) = ended  BY <1>5, <1>7 DEF Enqueued
  <2> QED  BY <1>4, <1>7, <2>1 DEF ended
<1>8. CASE Moment(j, t) = {QuietEnd}
  <2>1. PutOff(j, t) = Enqueued(ended, {n})  BY <1>5, <1>8 DEF n
  <2>2. \A k \in PutOff(j, t) : k \in ended \/ k = n  BY <2>1 DEF Enqueued
  <2>3. \A i \in ended : ~SameKey(n, i)
    <3> SUFFICES ASSUME NEW i \in ended, SameKey(n, i) PROVE FALSE
      OBVIOUS
    <3>1. i.kind = j.kind /\ i.due = j.due /\ i.again = QuietEnd  BY <1>3 DEF SameKey
    <3>2. j.again = 0
      <4>1. j.again # 0 => j.at >= QuietEnd  BY DEF RowsOK, PutOffOnce
      <4>2. j.at \in Int  BY <1>0 DEF JobRow
      <4> QED  BY <1>1, <1>2, <4>1, <4>2
    <3>3. i \in jobs  BY <1>2, <1>4, <3>1, <3>2 DEF SameKey
    <3>4. ScanRowOver(i, jobs)  BY <1>2, <3>1, <3>3 DEF RowsOK, PutOffOnce
    <3>5. PICK k \in jobs : SameNudge(k, i) /\ k.again = 0 /\ k.status # "queued"
      BY <3>4 DEF ScanRowOver
    <3>6. SameKey(k, j)  BY <3>1, <3>2, <3>5 DEF SameKey, SameNudge
    <3>7. k = j  BY <3>6 DEF RowsOK, OneRowPerKey
    <3> QED  BY <3>5, <3>7
  <2>4. n \in PutOff(j, t)  BY <2>1, <2>3 DEF Enqueued
  <2>5. \A k \in PutOff(j, t) : k \in ended
           \/ ( /\ k.kind = j.kind /\ k.due = j.due /\ k.again # 0
                /\ k.at = QuietEnd /\ k.status = "queued" /\ Moment(j, t) = {QuietEnd} )
    BY <1>2, <1>3, <1>8, <2>2
  <2> QED  BY <1>3, <1>4, <1>6, <2>4, <2>5 DEF ended
<1> QED  BY <1>1, <1>7, <1>8

-----------------------------------------------------------------------------
\* A run ends its row, or puts it off, and what it is about has rung or waits.
LEMMA EndStep ==
    ASSUME Inv, TInv, [Next]_vars, UNCHANGED <<now, enabled, item, scanned, since, lapse>>,
           bells \subseteq bells', NEW j \in jobs, j.status = "queued", jobs' = Ended(j, "done"),
           Attended => Told(j.kind)' \/ (j.kind = "remind" /\ (Dropped \/ now >= item.due))
    PROVE  TInv'
<1>1. j \in JobRow /\ lapse \in Nat /\ MaxTime \in Nat  BY Basics
<1>2. /\ jobs \ {j} \subseteq jobs'
      /\ \A k \in jobs' : k \in jobs
           \/ (SameKey(k, j) /\ k.kind = j.kind /\ k.due = j.due /\ k.at = j.at /\ k.status = "done")
      /\ \E k \in jobs' : SameKey(k, j)
  BY <1>1, EndedRows
<1>3. Attended' => Attended  BY DEF Attended, Undisturbed
<1>4. \A i \in jobs : \E k \in jobs' : SameKey(k, i)  BY <1>2 DEF SameKey
<1>5. since = 0 => \A k \in jobs' : k.due = item.due  BY <1>2 DEF TInv, OwnRows
<1>6. \A k \in jobs' : k.status = "dead" => lapse' >= MaxTime
  BY <1>2 DEF TInv, DeathLapses
<1>7. ASSUME Attended', NEW k \in jobs' PROVE k \in jobs \/ InOrder(k)'
  <2>1. InOrder(j)  BY <1>3, <1>7 DEF TInv, MomentsOK
  <2>2. k \in jobs \/ (k.kind = j.kind /\ k.at = j.at /\ k.status = "done")  BY <1>2
  <2> QED  BY <2>1, <2>2 DEF InOrder
<1>8. RowsTell'
  <2>1. \A k \in jobs' : k.again = 0 => \E i \in jobs : SameKey(k, i)
    BY <1>2 DEF SameKey
  <2> QED  BY <1>2, <1>3, <2>1, EndTells
<1>9. lapse' < MaxTime => lapse <= lapse'  BY <1>1
<1> QED  BY <1>1, <1>4, <1>5, <1>6, <1>7, <1>8, <1>9, RowsStep

LEMMA PutOffStep ==
    ASSUME Inv, TInv, [Next]_vars, UNCHANGED <<now, enabled, item, scanned, since, lapse, bells>>,
           NEW j \in jobs, j.status = "queued", NEW t \in Nat, j.at <= t, t <= now,
           ~MayTell(Moment(j, t), t), jobs' = PutOff(j, t), j.kind = "remind" => t = now
    PROVE  TInv'
<1>1. /\ j \in JobRow /\ j.at \in Int /\ lapse \in Nat /\ MaxTime \in Nat /\ now \in Nat /\ item.due \in Nat
      /\ j.kind \in Kind /\ QuietStart \in Nat /\ QuietEnd \in Nat
  BY Basics, TimesAssumption
<1>0. RowsOK(jobs) /\ OneQueued(jobs)  BY DEF Inv
<1>2. /\ jobs \ {j} \subseteq jobs'
      /\ \A k \in jobs' : k \in Ended(j, "done")
           \/ ( /\ k.kind = j.kind /\ k.due = j.due /\ k.again # 0
                /\ k.at = QuietEnd /\ k.status = "queued" /\ Moment(j, t) = {QuietEnd} )
      /\ \E k \in jobs' : SameKey(k, j)
      /\ Moment(j, t) # {} => \E k \in jobs' : k.kind = j.kind /\ k.status = "queued"
  BY <1>0, <1>1, PutOffRows
<1>a. \A k \in Ended(j, "done") : k \in jobs
           \/ (SameKey(k, j) /\ k.kind = j.kind /\ k.due = j.due /\ k.at = j.at /\ k.status = "done")
  BY <1>1, EndedRows
<1>3. Attended' => Attended  BY DEF Attended, Undisturbed
<1>4. \A i \in jobs : \E k \in jobs' : SameKey(k, i)  BY <1>2 DEF SameKey
<1>5. since = 0 => \A k \in jobs' : k.due = item.due
  BY <1>2, <1>a DEF TInv, OwnRows
<1>6. \A k \in jobs' : k.status = "dead" => lapse' >= MaxTime
  BY <1>2, <1>a DEF TInv, DeathLapses
<1>b. Quiet(t) /\ (Moment(j, t) = {} => j.kind = "remind" /\ QuietStart < t /\ j.due <= QuietEnd)
  <2>1. Quiet(t)  BY DEF MayTell, Moment, DeliveryTime
  <2>2. ASSUME Moment(j, t) = {}
        PROVE  j.kind = "remind" /\ QuietStart < t /\ j.due <= QuietEnd
    <3>1. j.kind = "remind"  BY <2>1, <2>2 DEF Moment, DeliveryTime
    <3>2. DeliveryTime(t, j.due, t) = {}  BY <2>2, <3>1 DEF Moment
    <3>3. ~(QuietEnd < j.due) /\ {before \in {QuietStart - 1} : before >= t - 1} = {}
      BY <2>1, <3>2 DEF DeliveryTime
    <3>4. j.due \in Int
      <4>1. j.due \in Deadline  BY <1>1 DEF JobRow
      <4>2. Deadline \subseteq Nat  BY TimesAssumption
      <4>3. j.due \in Nat  BY ONLY <4>1, <4>2
      <4> QED  BY ONLY <4>3
    <3>5. ~(QuietStart - 1 >= t - 1)  BY <3>3
    <3> QED  BY <1>1, <3>1, <3>3, <3>4, <3>5
  <2> QED  BY <2>1, <2>2
<1>7. ASSUME Attended', NEW k \in jobs' PROVE k \in jobs \/ InOrder(k)'
  <2>1. InOrder(j) /\ j.due = item.due
    BY <1>3, <1>7 DEF TInv, MomentsOK, OwnRows, Attended, Undisturbed
  <2>2. CASE k \in jobs \/ (k.kind = j.kind /\ k.at = j.at /\ k.status = "done")
    BY <2>1, <2>2 DEF InOrder
  <2>3. CASE k.kind = j.kind /\ k.at = QuietEnd /\ Moment(j, t) = {QuietEnd}
    <3>1. /\ QuietStart < QuietEnd /\ QuietStart <= now' /\ t < QuietEnd
      BY <1>1, <1>b DEF Quiet
    <3>2. CASE j.kind = "remind"
      <4>1. QuietEnd < item.due
        <5>1. DeliveryTime(t, item.due, t) = {QuietEnd}  BY <2>1, <2>3, <3>2 DEF Moment
        <5>2. QuietStart - 1 # QuietEnd  BY <1>1, <3>1
        <5>3. item.due # NoDue  BY <1>3, <1>7 DEF Attended, Undisturbed
        <5>4. ~(QuietEnd < item.due) =>
                 DeliveryTime(t, item.due, t) = {before \in {QuietStart - 1} : before >= t - 1}
          BY <1>b, <5>3 DEF DeliveryTime
        <5>5. QuietEnd \in DeliveryTime(t, item.due, t)  BY <5>1
        <5> QED  BY <5>2, <5>4, <5>5
      <4>2. Night(Ideal)'  BY <3>1 DEF Night
      <4> QED  BY <2>3, <3>2, <4>1, <4>2 DEF InOrder
    <3>3. CASE j.kind = "overdue"
      <4>1. j.at >= item.due  BY <2>1, <3>3 DEF InOrder
      <4>2. QuietEnd >= item.due  BY <1>1, <3>1, <4>1
      <4>3. Night(item.due)'  BY <3>1 DEF Night
      <4> QED  BY <2>3, <3>3, <4>2, <4>3 DEF InOrder
    <3> QED  BY <1>1, <3>2, <3>3 DEF Kind
  <2> QED  BY <1>2, <1>a, <2>2, <2>3
<1>8. RowsTell'
  <2>1. \A k \in jobs' : k.again = 0 => \E i \in jobs : SameKey(k, i)
    BY <1>2, <1>a DEF SameKey
  <2>2. ASSUME Attended'
        PROVE  \/ Waiting(j.kind)' \/ (j.kind = "remind" /\ Dropped)
    <3>1. CASE Moment(j, t) # {}  BY <1>2, <3>1 DEF Waiting
    <3>2. CASE Moment(j, t) = {}
      <4>1. j.due = item.due  BY <1>3, <2>2 DEF TInv, OwnRows, Attended, Undisturbed
      <4>2. QuietStart < now /\ QuietStart < QuietEnd  BY <1>1, <1>b, <3>2 DEF Quiet
      <4> QED  BY <1>b, <3>2, <4>1, <4>2 DEF Dropped
    <3> QED  BY <3>1, <3>2
  <2>3. bells \subseteq bells'  OBVIOUS
  <2> QED  BY <1>2, <1>3, <2>1, <2>2, <2>3, EndTells
<1>9. lapse' < MaxTime => lapse <= lapse'  BY <1>1
<1> QED  BY <1>1, <1>4, <1>5, <1>6, <1>7, <1>8, <1>9, RowsStep

LEMMA ReadTInv ==
    ASSUME Inv, TInv, [Next]_vars, NEW j \in jobs, RunReads(j)
    PROVE  TInv'
<1>1. /\ j.status = "queued" /\ j.at <= now /\ now \in Nat /\ now <= now /\ j.at \in Int
      /\ UNCHANGED <<now, enabled, item, scanned, since, lapse, bells>> /\ j.kind \in Kind
  BY Basics DEF RunReads, Due, history
<1>2. CASE ~Applies(j, now)
  <2>1. jobs' = Ended(j, "done") /\ bells \subseteq bells'  BY <1>1, <1>2 DEF RunReads
  <2>2. ASSUME Attended PROVE j.kind = "remind" /\ now >= item.due
    <3>1. j.due = item.due /\ item.open /\ enabled /\ item.due \in Int
      BY <2>2, Basics DEF TInv, OwnRows, Attended, Undisturbed
    <3>2. j.kind = "overdue" => j.at >= item.due
      BY <2>2 DEF TInv, MomentsOK, InOrder
    <3> QED  BY <1>1, <1>2, <3>1, <3>2 DEF Applies, Kind
  <2> QED  BY <1>1, <2>1, <2>2, EndStep
<1>3. CASE Applies(j, now) /\ j.kind = "remind" /\ ~MayTell(Moment(j, now), now)
  <2>1. jobs' = PutOff(j, now)  BY <1>3 DEF RunReads
  <2> QED  BY <1>1, <1>3, <2>1, PutOffStep
<1>4. CASE UNCHANGED jobs
  <2>1. \A i \in jobs : \E k \in jobs' : SameKey(k, i)  BY <1>4 DEF SameKey
  <2>2. since = 0 => \A k \in jobs' : k.due = item.due  BY <1>4 DEF TInv, OwnRows
  <2>3. \A k \in jobs' : k.status = "dead" => lapse' >= MaxTime  BY <1>1, <1>4 DEF TInv, DeathLapses
  <2>4. RowsTell'
    <3>1. RowsTell  BY DEF TInv
    <3> QED  BY <1>1, <1>4, <3>1 DEF RowsTell, Attended, Undisturbed, ScanRow, Told, Rang, Waiting, Dropped
  <2>5. lapse' \in Nat /\ lapse <= lapse' /\ bells \subseteq bells'  BY <1>1, Basics
  <2> QED  BY <1>1, <1>4, <2>1, <2>2, <2>3, <2>4, <2>5, RowsStep
<1> QED  BY <1>2, <1>3, <1>4 DEF RunReads

LEMMA TellTInv ==
    ASSUME Inv, TInv, [Next]_vars, NEW r \in runs, RunTells(r)
    PROVE  TInv'
<1> DEFINE j == r.job
<1>1. /\ j \in jobs /\ j.status = "queued" /\ r.at \in Nat /\ j.at <= r.at /\ r.at <= now
      /\ UNCHANGED <<now, enabled, item, scanned, since, lapse>> /\ j.kind \in Kind
  <2>1. r.at \in 0 .. now /\ now \in Nat  BY Basics DEF Inv, TypeOK
  <2> QED  BY <2>1, RunFacts DEF RunTells, history, JobRow
<1>2. ASSUME NEW to, bells' = Rung(to, r)
      PROVE  /\ bells \subseteq bells'
             /\ \A p \in to : \E b \in bells' : b.to = p /\ b.kind = j.kind /\ b.due = j.due
  <2> DEFINE new == [to : to, kind : {r.job.kind}, due : {r.job.due}, at : {r.at}]
  <2>1. bells' = bells \union {b \in new : ~ \E c \in bells : SameBell(b, c)}
    BY <1>2 DEF Rung
  <2>2. ASSUME NEW p \in to
        PROVE  \E b \in bells' : b.to = p /\ b.kind = j.kind /\ b.due = j.due
    <3> DEFINE b == [to |-> p, kind |-> r.job.kind, due |-> r.job.due, at |-> r.at]
    <3>1. b \in new /\ b.to = p /\ b.kind = j.kind /\ b.due = j.due  OBVIOUS
    <3> HIDE DEF b, new, j
    <3> QED  BY <2>1, <3>1 DEF SameBell
  <2> QED  BY <2>1, <2>2
<1> HIDE DEF j
<1>3. Attended => j.due = item.due  BY <1>1 DEF TInv, OwnRows, Attended, Undisturbed
<1>4. CASE j.kind = "remind"
  <2>1. bells' = Rung(item.todo, r) /\ jobs' = Ended(j, "done")  BY <1>4 DEF RunTells, j
  <2>2. Attended => Told("remind")'  BY <1>1, <1>2, <1>3, <1>4, <2>1 DEF Told, Rang
  <2> QED  BY <1>1, <1>2, <1>4, <2>1, <2>2, EndStep
<1>5. CASE j.kind = "overdue" /\ item.todo = {}
  <2>1. bells' = bells /\ jobs' = Ended(j, "done")  BY <1>5 DEF RunTells, j
  <2>2. Told("overdue")'  BY <1>1, <1>5 DEF Told
  <2> QED  BY <1>1, <1>5, <2>1, <2>2, EndStep
<1>6. CASE j.kind = "overdue" /\ item.todo # {} /\ MayTell(Moment(j, r.at), r.at)
  <2>1. bells' = Rung({Giver}, r) /\ jobs' = Ended(j, "done")  BY <1>6 DEF RunTells, j
  <2>2. Attended => Told("overdue")'  BY <1>1, <1>2, <1>3, <1>6, <2>1 DEF Told, Rang
  <2> QED  BY <1>1, <1>2, <1>6, <2>1, <2>2, EndStep
<1>7. CASE j.kind = "overdue" /\ item.todo # {} /\ ~MayTell(Moment(j, r.at), r.at)
  <2>1. jobs' = PutOff(j, r.at) /\ bells' = bells  BY <1>7 DEF RunTells, j
  <2> QED  BY <1>1, <1>7, <2>1, PutOffStep
<1> QED  BY <1>1, <1>4, <1>5, <1>6, <1>7 DEF Kind

LEMMA FailTInv ==
    ASSUME Inv, TInv, [Next]_vars, NEW r \in runs, RunFails(r)
    PROVE  TInv'
<1> DEFINE j == r.job
<1>1. /\ j \in jobs /\ j \in JobRow /\ j.status = "queued" /\ j.at <= now /\ j.at \in Int
      /\ UNCHANGED <<now, enabled, item, scanned, since, bells>> /\ j.kind \in Kind
  <2>1. r.at \in 0 .. now /\ now \in Nat  BY Basics DEF Inv, TypeOK
  <2> QED  BY <2>1, RunFacts DEF RunFails, JobRow
<1>2. now \in Nat /\ lapse \in Nat /\ MaxTime \in Nat /\ item.due \in Nat  BY Basics
<1>3. bells \subseteq bells'  BY <1>1
<1>4. CASE jobs' = Ended(j, "dead") /\ lapse' = MaxTime
  <2>1. /\ \A k \in jobs' : k \in jobs
             \/ (SameKey(k, j) /\ k.kind = j.kind /\ k.due = j.due /\ k.at = j.at /\ k.status = "dead")
        /\ jobs \ {j} \subseteq jobs' /\ \E k \in jobs' : SameKey(k, j)
    BY <1>1, <1>4, EndedRows
  <2>2. \A i \in jobs : \E k \in jobs' : SameKey(k, i)  BY <2>1 DEF SameKey
  <2>3. since = 0 => \A k \in jobs' : k.due = item.due  BY <1>1, <2>1 DEF TInv, OwnRows
  <2>4. ~Attended' /\ lapse' \in Nat /\ ~(lapse' < MaxTime) /\ lapse' >= MaxTime
    BY <1>2, <1>4 DEF Attended
  <2>5. RowsTell'  BY <2>4 DEF RowsTell
  <2> QED  BY <1>1, <1>3, <2>2, <2>3, <2>4, <2>5, RowsStep
<1>5. CASE jobs' = (jobs \ {j}) \union {[j EXCEPT !.at = now + 1]} /\ lapse' = Latest({lapse, now + 1})
  <2> DEFINE e == [j EXCEPT !.at = now + 1]
  <2>1. /\ SameKey(e, j) /\ e.kind = j.kind /\ e.due = j.due /\ e.again = j.again
        /\ e.at = now + 1 /\ e.status = "queued"
    BY <1>1 DEF JobRow, SameKey
  <2>2. jobs' = (jobs \ {j}) \union {e}  BY <1>5
  <2> HIDE DEF e, j
  <2>3. lapse' \in Nat /\ lapse' >= lapse /\ lapse' >= now + 1
    <3>1. lapse \in Int /\ now + 1 \in Int  BY <1>2
    <3>2. lapse' = Later(lapse, now + 1)  BY <1>5, <3>1, LatestIs
    <3> QED  BY <1>2, <3>2 DEF Later
  <2>4. \A i \in jobs : \E k \in jobs' : SameKey(k, i)  BY <2>1, <2>2 DEF SameKey
  <2>5. since = 0 => \A k \in jobs' : k.due = item.due  BY <1>1, <2>1, <2>2 DEF TInv, OwnRows
  <2>6. \A k \in jobs' : k.status = "dead" => lapse' >= MaxTime
    <3>1. \A k \in jobs : k.status = "dead" => lapse >= MaxTime  BY DEF TInv, DeathLapses
    <3>2. lapse >= MaxTime => lapse' >= MaxTime
      <4> DEFINE l == lapse'
      <4>1. l \in Nat /\ l >= lapse  BY <2>3
      <4> HIDE DEF l
      <4>2. lapse >= MaxTime => l >= MaxTime  BY <1>2, <4>1
      <4> QED  BY <4>2 DEF l
    <3> QED  BY <2>1, <2>2, <3>1, <3>2
  <2>7. Attended' => Attended
    BY <1>1, <1>2, <2>3 DEF Attended, Undisturbed
  <2>8. ASSUME Attended', NEW k \in jobs' PROVE k \in jobs \/ InOrder(k)'
    <3>1. j.kind = "overdue" => j.at >= item.due
      BY <1>1, <2>7, <2>8 DEF TInv, MomentsOK, InOrder
    <3>2. SUFFICES ASSUME k = e PROVE InOrder(k)'
      BY <2>2
    <3>3. k.kind = "overdue" => k.at >= item.due  BY <1>1, <1>2, <2>1, <3>1, <3>2
    <3>4. k.at <= lapse'  BY <2>1, <2>3, <3>2
    <3> QED  BY <1>1, <3>3, <3>4 DEF InOrder
  <2>9. RowsTell'
    <3>1. Waiting(j.kind)'  BY <2>1, <2>2 DEF Waiting
    <3>2. \A k \in jobs' : k.again = 0 => \E i \in jobs : SameKey(k, i)
      BY <1>1, <2>1, <2>2 DEF SameKey
    <3>3. jobs \ {j} \subseteq jobs'  BY <2>2
    <3> QED  BY <1>1, <1>3, <2>7, <3>1, <3>2, <3>3, EndTells
  <2> QED  BY <1>1, <1>3, <2>3, <2>4, <2>5, <2>6, <2>8, <2>9, RowsStep
<1> QED  BY <1>4, <1>5 DEF RunFails

\* What a scan enqueues: the rows for the moments it sees coming.
LEMMA ScanTInv ==
    ASSUME Inv, TInv, Scan
    PROVE  TInv'
<1> DEFINE remind == {Job("remind", item.due, 0, t) : t \in DueForScan(ReminderAt(item.due, now))}
           overdue == {Job("overdue", item.due, 0, t) : t \in DueForScan(OverdueNoticeAt(item.due, now))}
           new == remind \union overdue
<1>1. /\ UNCHANGED <<now, enabled, item, lapse, since, bells>> /\ scanned' = now
      /\ now \in Nat /\ lapse \in Nat /\ item.due \in Nat
      /\ QuietStart \in Nat /\ QuietEnd \in Nat
  BY Basics, TimesAssumption DEF Scan
<1>2. \/ ~InHorizon /\ jobs' = jobs
      \/ InHorizon /\ jobs' = Enqueued(jobs, new)
  BY DEF Scan
<1>3. \A n \in new : /\ n.due = item.due /\ n.again = 0 /\ n.status = "queued"
                     /\ \/ n.kind = "remind" /\ n.at \in ReminderAt(item.due, now)
                        \/ n.kind = "overdue" /\ n.at \in OverdueNoticeAt(item.due, now)
  BY DEF Job, DueForScan
<1>4. /\ \A t \in ReminderAt(item.due, now) : t <= now + Ahead =>
            \E n \in new : n.kind = "remind" /\ n.again = 0 /\ n.due = item.due
      /\ \A t \in OverdueNoticeAt(item.due, now) : t <= now + Ahead =>
            \E n \in new : n.kind = "overdue" /\ n.again = 0 /\ n.due = item.due
  <2>1. ASSUME NEW t \in ReminderAt(item.due, now), t <= now + Ahead
        PROVE  \E n \in new : n.kind = "remind" /\ n.again = 0 /\ n.due = item.due
    <3> DEFINE n == Job("remind", item.due, 0, t)
    <3>1. n \in new  BY <2>1 DEF DueForScan
    <3>2. n.kind = "remind" /\ n.again = 0 /\ n.due = item.due  BY DEF Job
    <3> HIDE DEF n, new
    <3> QED  BY <3>1, <3>2
  <2>2. ASSUME NEW t \in OverdueNoticeAt(item.due, now), t <= now + Ahead
        PROVE  \E n \in new : n.kind = "overdue" /\ n.again = 0 /\ n.due = item.due
    <3> DEFINE n == Job("overdue", item.due, 0, t)
    <3>1. n \in new  BY <2>2 DEF DueForScan
    <3>2. n.kind = "overdue" /\ n.again = 0 /\ n.due = item.due  BY DEF Job
    <3> HIDE DEF n, new
    <3> QED  BY <3>1, <3>2
  <2> QED  BY <2>1, <2>2
<1> HIDE DEF new
<1>5. /\ jobs \subseteq jobs' /\ \A k \in jobs' : k \in jobs \/ k \in new
      /\ InHorizon => \A n \in new : \E k \in jobs' : SameKey(n, k)
  BY <1>2 DEF Enqueued, SameKey
<1>6. Attended' => Attended  BY <1>1 DEF Attended, Undisturbed
<1>7. OwnRows'  BY <1>1, <1>3, <1>5 DEF TInv, OwnRows
<1>8. DeathLapses'  BY <1>1, <1>3, <1>5 DEF TInv, DeathLapses
<1>9. ScanLeft'
  <2> SUFFICES ASSUME Undisturbed', now - Grace < item.due, item.due <= now + MaxLead + Ahead
               PROVE  /\ \A t \in ReminderAt(item.due, now) : t <= now + Ahead => ScanRow("remind")'
                      /\ \A t \in OverdueNoticeAt(item.due, now) : t <= now + Ahead => ScanRow("overdue")'
    BY <1>1 DEF ScanLeft, ReminderAt, OverdueNoticeAt, DeliveryTime, Quiet
  <2>1. InHorizon  BY <1>1 DEF InHorizon, Undisturbed
  <2>2. \A n \in new : n.again = 0 => \E k \in jobs' : k.kind = n.kind /\ k.again = 0
    BY <1>5, <2>1 DEF SameKey
  <2> QED  BY <1>4, <2>2 DEF ScanRow
<1>10. MomentsOK'
  <2> SUFFICES ASSUME Attended', NEW k \in jobs' PROVE InOrder(k)'
    BY DEF MomentsOK
  <2>1. CASE k \in jobs
    <3>1. InOrder(k) /\ k \in JobRow  BY <1>6, <2>1, Basics DEF TInv, MomentsOK
    <3>2. Undisturbed /\ now <= now' /\ lapse <= lapse'  BY <1>1, <1>6 DEF Attended
    <3> QED  BY <1>1, <3>1, <3>2, InOrderStays
  <2>2. CASE k \in new /\ k.kind = "remind"
    <3>1. Ideal \in Int /\ Ideal' = Ideal  BY <1>1, <1>6, IdealFacts DEF Attended, Ideal
    <3> DEFINE x == Later(Ideal, now)
    <3>2. k.at \in DeliveryTime(x, item.due, now)
      <4>1. k.at \in ReminderAt(item.due, now)  BY <1>3, <2>2
      <4>2. ReminderAt(item.due, now) = IF x >= item.due THEN {} ELSE DeliveryTime(x, item.due, now)
        BY <1>1, <1>6, IdealFacts DEF Attended
      <4> QED  BY <4>1, <4>2
    <3>3. x \in Int /\ (x = Ideal \/ x = now)  BY <1>1, <3>1 DEF Later
    <3> HIDE DEF x
    <3>4. CASE ~Quiet(x)
      <4>1. k.at = x  BY <3>2, <3>4 DEF DeliveryTime
      <4> QED  BY <1>1, <2>2, <3>1, <3>3, <3>4, <4>1 DEF InOrder, Quiet
    <3>5. CASE Quiet(x)
      <4>1. Night(Ideal)'  BY <1>1, <3>1, <3>3, <3>5 DEF Night, Quiet
      <4>2. item.due # NoDue  BY <1>6 DEF Attended, Undisturbed
      <4>3. (k.at = QuietEnd /\ QuietEnd < item.due) \/ k.at = QuietStart - 1
        BY <3>2, <3>5, <4>2 DEF DeliveryTime
      <4> QED  BY <1>1, <2>2, <4>1, <4>3 DEF InOrder
    <3> QED  BY <3>4, <3>5
  <2>3. CASE k \in new /\ k.kind = "overdue"
    <3>1. k.at \in DeliveryTime(item.due, NoDue, now)
      BY <1>3, <2>3 DEF OverdueNoticeAt
    <3>2. CASE ~Quiet(item.due)
      <4>1. k.at = item.due  BY <3>1, <3>2 DEF DeliveryTime
      <4> QED  BY <1>1, <2>3, <4>1 DEF InOrder
    <3>3. CASE Quiet(item.due)
      <4>1. k.at = QuietEnd  BY <3>1, <3>3 DEF DeliveryTime
      <4>2. Night(item.due)' /\ QuietEnd >= item.due  BY <1>1, <3>3 DEF Night, Quiet
      <4> QED  BY <1>1, <2>3, <4>1, <4>2 DEF InOrder
    <3> QED  BY <3>2, <3>3
  <2> QED  BY <1>3, <1>5, <2>1, <2>2, <2>3
<1>11. RowsTell'
  <2> SUFFICES ASSUME Attended', NEW kind \in Kind, ScanRow(kind)'
               PROVE  Told(kind)' \/ Waiting(kind)' \/ (kind = "remind" /\ (Dropped' \/ now' >= item'.due))
    BY DEF RowsTell
  <2>1. PICK k \in jobs' : k.kind = kind /\ k.again = 0  BY DEF ScanRow
  <2>2. CASE k \in new  BY <1>3, <2>1, <2>2 DEF Waiting
  <2>3. CASE k \in jobs
    <3>1. Told(kind) \/ Waiting(kind) \/ (kind = "remind" /\ (Dropped \/ now >= item.due))
      BY <1>6, <2>1, <2>3 DEF TInv, RowsTell, ScanRow
    <3> QED  BY <1>1, <1>5, <3>1 DEF Told, Rang, Waiting, Dropped
  <2> QED  BY <1>5, <2>2, <2>3
<1>12. InTime'
  <2>1. lapse' \in Nat /\ lapse <= lapse' /\ item'.due = item.due
        /\ item'.todo \subseteq item.todo /\ bells \subseteq bells'
    BY <1>1
  <2> QED  BY <1>1, <1>6, <2>1, InTimeStays
<1> QED  BY <1>7, <1>8, <1>9, <1>10, <1>11, <1>12 DEF TInv

\* The steps that leave the rows alone.
LEMMA RowsRest ==
    ASSUME Inv, TInv, [Next]_vars, UNCHANGED <<jobs, bells, scanned>>,
           now' \in Nat, now <= now', lapse' \in Nat, lapse <= lapse', InTime'
    PROVE  TInv'
<1>1. Undisturbed' => /\ Undisturbed /\ since' = 0 /\ since = 0
                      /\ item'.due = item.due /\ item'.todo \subseteq item.todo
  BY StaysUndisturbed
<1>2. /\ now \in Nat /\ lapse \in Nat /\ MaxTime \in Nat /\ item.due \in Nat
      /\ QuietStart \in Nat
  BY Basics, TimesAssumption
<1>3. Attended' => Attended  BY <1>1, <1>2 DEF Attended
<1>4. \A kind : /\ ScanRow(kind)' = ScanRow(kind) /\ Waiting(kind)' = Waiting(kind)
  BY DEF ScanRow, Waiting
<1>5. OwnRows'
  <2>1. CASE since' # 0  BY <2>1 DEF OwnRows
  <2>2. CASE since' = 0
    <3>1. since = 0 /\ item'.due = item.due  BY <2>2, DeadlineStays
    <3> QED  BY <3>1 DEF TInv, OwnRows
  <2> QED  BY <2>1, <2>2
<1>6. DeathLapses'  BY <1>2 DEF TInv, DeathLapses
<1>7. ScanLeft'
  <2>1. ScanLeft  BY DEF TInv
  <2> QED
    BY <1>1, <1>4, <2>1 DEF ScanLeft, ReminderAt, OverdueNoticeAt, DeliveryTime, Quiet
<1>8. MomentsOK'
  <2> SUFFICES ASSUME Attended', NEW k \in jobs PROVE InOrder(k)'
    BY DEF MomentsOK
  <2>1. InOrder(k) /\ k \in JobRow  BY <1>3, Basics DEF TInv, MomentsOK
  <2>2. Undisturbed /\ item'.due = item.due  BY <1>1 DEF Attended
  <2> QED  BY <2>1, <2>2, InOrderStays
<1>9. RowsTell'
  <2> SUFFICES ASSUME Attended', NEW kind \in Kind, ScanRow(kind)
               PROVE  Told(kind)' \/ Waiting(kind)' \/ (kind = "remind" /\ (Dropped' \/ now' >= item'.due))
    BY <1>4 DEF RowsTell
  <2>1. Told(kind) \/ Waiting(kind) \/ (kind = "remind" /\ (Dropped \/ now >= item.due))
    BY <1>3 DEF TInv, RowsTell
  <2>2. item'.due = item.due /\ item'.todo \subseteq item.todo  BY <1>1 DEF Attended
  <2>3. Told(kind) => Told(kind)'  BY <2>2, ToldStays
  <2>4. (Dropped \/ now >= item.due) => (Dropped' \/ now' >= item'.due)
    BY <1>2, <2>2 DEF Dropped
  <2> QED  BY <1>4, <2>1, <2>3, <2>4
<1> QED  BY <1>5, <1>6, <1>7, <1>8, <1>9 DEF TInv

LEMMA ItemTInv ==
    ASSUME Inv, TInv, [Next]_vars,
           \/ Close \/ Reopen \/ Switch
           \/ \E d \in Deadline \union {NoDue} : Move(d)
           \/ \E p \in Person : Finish(p)
           \/ UNCHANGED vars
    PROVE  TInv'
<1>1. UNCHANGED <<now, jobs, bells, scanned, lapse>>
  BY DEF Close, Reopen, Switch, Move, Finish, rows, history, vars
<1>2. now \in Nat /\ lapse \in Nat  BY Basics
<1>3. InTime'
  <2>1. CASE ~Attended'  BY <2>1 DEF InTime
  <2>2. CASE Attended'
    <3>1. Attended /\ item'.due = item.due /\ item'.todo \subseteq item.todo
      BY <1>1, <2>2, StaysUndisturbed DEF Attended
    <3>2. lapse' \in Nat /\ lapse <= lapse' /\ bells \subseteq bells' /\ now' = now  BY <1>1, <1>2
    <3> QED  BY <3>1, <3>2, InTimeStays
  <2> QED  BY <2>1, <2>2
<1>4. now' \in Nat /\ now <= now' /\ lapse' \in Nat /\ lapse <= lapse'  BY <1>1, <1>2
<1> QED  BY <1>1, <1>3, <1>4, RowsRest

LEMMA TickTInv ==
    ASSUME Inv, TInv, [Next]_vars, TimePasses
    PROVE  TInv'
<1>1. /\ UNCHANGED <<enabled, item, jobs, bells, scanned, since>> /\ now' = now + 1
      /\ now \in Nat /\ lapse \in Nat /\ scanned \in Nat /\ MaxTime \in Nat
  BY Basics DEF TimePasses, rows
<1>2. \/ KeptUp /\ lapse' = lapse
      \/ lapse' = Later(lapse, now + 1) /\ lapse' >= now + 1
  <2>1. lapse' = IF now + 1 - scanned > Period \/ \E j \in jobs : Due(j)
                 THEN Latest({lapse, now + 1}) ELSE lapse
    BY DEF TimePasses
  <2>2. Latest({lapse, now + 1}) = Later(lapse, now + 1)
    <3>1. lapse \in Int /\ now + 1 \in Int  BY <1>1
    <3> QED  BY ONLY <3>1, LatestIs
  <2>3. Later(lapse, now + 1) >= now + 1  BY <1>1 DEF Later
  <2> QED  BY <1>1, <2>1, <2>2, <2>3, TimesAssumption DEF KeptUp
<1>3. lapse' \in Nat /\ lapse <= lapse'
  BY <1>1, <1>2 DEF Later
<1>4. InTime'
  <2> SUFFICES ASSUME Attended' PROVE InTime'
    BY DEF InTime
  <2>1. Attended  BY <1>1, <1>3 DEF Attended, Undisturbed
  <2>2. /\ Ideal \in Int /\ item.due \in Nat /\ Period \in Nat /\ Grace \in Nat
        /\ QuietStart \in Nat /\ QuietEnd \in Nat
    BY <2>1, IdealFacts, TimesAssumption DEF Attended
  <2>3. /\ Ideal' = Ideal /\ BeforeNight' = BeforeNight /\ \A kind : Told(kind)' = Told(kind)
    BY <1>1 DEF Ideal, BeforeNight, Told, Rang
  <2>4. /\ \A t \in Ideal .. item.due - 1 : t < now /\ Awake(t) => Told("remind")
        /\ lapse = 0 /\ QuietStart < now /\ BeforeNight => Told("remind")
        /\ \A t \in item.due .. now - 1 : t < item.due + Grace /\ Awake(t) => Told("overdue")
    BY <2>1 DEF TInv, InTime
  <2>5. CASE KeptUp /\ lapse' = lapse
    <3>1. \A t : Awake(t)' <=> Awake(t)  BY <2>5 DEF Awake, Quiet
    <3>2. ASSUME NEW t \in Ideal .. item.due - 1, t < now + 1, Awake(t) PROVE Told("remind")
      <4>1. CASE t < now  BY <2>4, <3>2, <4>1
      <4>2. CASE t = now
        <5>1. Ideal <= now /\ now < item.due /\ Awake(now)  BY <1>1, <2>2, <3>2, <4>2
        <5> QED  BY <2>1, <2>5, <5>1, AwakeReminded
      <4>3. t \in Int  BY <2>2
      <4> QED  BY <1>1, <3>2, <4>1, <4>2, <4>3
    <3>3. ASSUME lapse = 0, QuietStart < now + 1, BeforeNight PROVE Told("remind")
      <4>1. CASE QuietStart < now  BY <2>4, <3>3, <4>1
      <4>2. CASE now = QuietStart  BY <2>1, <2>5, <3>3, <4>2, BeforeNightReminded
      <4> QED  BY <1>1, <2>2, <3>3, <4>1, <4>2
    <3>4. ASSUME NEW t \in item.due .. now, t < item.due + Grace, Awake(t) PROVE Told("overdue")
      <4>1. CASE t < now
        <5>1. t \in item.due .. now - 1  BY <1>1, <2>2, <4>1
        <5> QED  BY <2>4, <3>4, <5>1
      <4>2. CASE t = now
        <5>1. item.due <= now /\ now < item.due + Grace /\ Awake(now)  BY <1>1, <2>2, <3>4, <4>2
        <5> QED  BY <2>1, <2>5, <5>1, AwakeGiverTold
      <4>3. t \in Int /\ t <= now  BY <1>1, <2>2
      <4> QED  BY <1>1, <4>1, <4>2, <4>3
    <3>5. now + 1 - 1 = now  BY <1>1
    <3> HIDE DEF Told, Awake, BeforeNight, Ideal
    <3> QED  BY <1>1, <2>3, <2>5, <3>1, <3>2, <3>3, <3>4, <3>5 DEF InTime
  <2>6. CASE lapse' >= now + 1
    <3>1. \A t \in Int : Awake(t)' => t >= now + 1
      <4> SUFFICES ASSUME NEW t \in Int, Awake(t)' PROVE t >= now + 1
        OBVIOUS
      <4> DEFINE l == lapse'
      <4>1. l \in Nat /\ l >= now + 1 /\ l + Period <= t  BY <1>3, <2>6 DEF Awake
      <4> HIDE DEF l
      <4> QED  BY <1>1, <2>2, <4>1
    <3>2. lapse' # 0
      <4> DEFINE l == lapse'
      <4>1. l \in Nat /\ l >= now + 1  BY <1>3, <2>6
      <4> HIDE DEF l
      <4>2. l # 0  BY <1>1, <4>1
      <4> QED  BY <4>2 DEF l
    <3>3. \A t \in Ideal .. item.due - 1 : ~(t < now + 1 /\ Awake(t)')
      BY <1>1, <2>2, <3>1
    <3>4. \A t \in item.due .. now + 1 - 1 : ~Awake(t)'
      BY <1>1, <2>2, <3>1
    <3> HIDE DEF Told, Awake, BeforeNight, Ideal
    <3> QED  BY <1>1, <2>3, <3>2, <3>3, <3>4 DEF InTime
  <2> QED  BY <1>1, <1>2, <1>3, <2>5, <2>6
<1>5. now' \in Nat /\ now <= now'  BY <1>1
<1> QED  BY <1>1, <1>3, <1>4, <1>5, RowsRest

\* Which says that nobody is left out.
LEMMA AllTold == Inv /\ TInv => ToldInTime
<1> SUFFICES ASSUME Inv, TInv PROVE ToldInTime
  OBVIOUS
<1>1. /\ now \in Nat /\ now <= MaxTime /\ MaxTime \in Nat /\ lapse \in Nat /\ Period \in Nat
      /\ QuietStart \in Nat /\ QuietEnd \in Nat /\ Grace \in Nat
  BY Basics, TimesAssumption
<1>2. Undisturbed => /\ item.due \in Nat \ {0} /\ Ideal \in Int /\ Ideal < item.due
  BY IdealFacts
<1>3. ASSUME Undisturbed, now = item.due,
             \/ lapse = 0 /\ \A t \in 0 .. Period : ReminderAt(item.due, t) # {}
             \/ \E t \in Ideal .. item.due - 1 : Served(t)
      PROVE  Told("remind")
  <2>1. Attended
    <3>1. CASE lapse = 0  BY <1>1, <1>2, <1>3, <3>1 DEF Attended
    <3>2. CASE \E t \in Ideal .. item.due - 1 : Served(t)
      BY <1>1, <1>2, <1>3, <3>2 DEF Attended, Served
    <3> QED  BY <1>3, <3>1, <3>2
  <2>2. /\ \A t \in Ideal .. item.due - 1 : t < now /\ Awake(t) => Told("remind")
        /\ lapse = 0 /\ QuietStart < now /\ BeforeNight => Told("remind")
    BY <2>1 DEF TInv, InTime
  <2>3. CASE \E t \in Ideal .. item.due - 1 : Served(t)
    <3>1. PICK t \in Ideal .. item.due - 1 : Served(t)  BY <2>3
    <3>2. Awake(t) /\ t < now  BY <1>1, <1>2, <1>3, <3>1 DEF Served, Awake
    <3> QED  BY <2>2, <3>1, <3>2
  <2>4. CASE lapse = 0 /\ \A t \in 0 .. Period : ReminderAt(item.due, t) # {}
    <3> DEFINE x == Later(Ideal, Period)
    <3>0. Ideal \in Int /\ Period \in Int  BY <1>1, <1>2, <1>3
    <3>1. /\ x \in Int /\ x >= Ideal /\ x >= Period /\ (x = Ideal \/ x = Period)
      BY ONLY <3>0, LaterIs
    <3>2. ReminderAt(item.due, Period) = IF x >= item.due THEN {} ELSE DeliveryTime(x, item.due, Period)
      BY <1>1, <1>3, IdealFacts
    <3> HIDE DEF x
    <3>3. ReminderAt(item.due, Period) # {}  BY <1>1, <2>4
    <3>4. x < item.due /\ DeliveryTime(x, item.due, Period) # {}  BY <1>2, <1>3, <3>1, <3>2, <3>3
    <3>5. CASE ~Quiet(x)
      <4>1. x \in Ideal .. item.due - 1 /\ x < now /\ Awake(x)
        BY <1>1, <1>2, <1>3, <2>4, <3>1, <3>4, <3>5 DEF Awake
      <4> QED  BY <2>2, <4>1
    <3>6. CASE Quiet(x) /\ QuietEnd < item.due
      <4>1. QuietEnd \in Ideal .. item.due - 1 /\ QuietEnd < now /\ Awake(QuietEnd)
        BY <1>1, <1>2, <1>3, <2>4, <3>1, <3>6 DEF Awake, Quiet
      <4> QED  BY <2>2, <4>1
    <3>7. CASE Quiet(x) /\ ~(QuietEnd < item.due)
      <4>1. DeliveryTime(x, item.due, Period) = {before \in {QuietStart - 1} : before >= Period - 1}
        BY <1>3, <3>7 DEF DeliveryTime, Undisturbed
      <4>2. QuietStart - 1 >= Period - 1  BY <3>4, <4>1
      <4>3. BeforeNight /\ QuietStart < now
        BY <1>1, <1>2, <1>3, <3>1, <3>4, <3>7, <4>2 DEF BeforeNight, Quiet
      <4> QED  BY <2>2, <2>4, <4>3
    <3> QED  BY <3>5, <3>6, <3>7
  <2> QED  BY <1>3, <2>3, <2>4
<1>4. RemindedInTime
  BY <1>3 DEF RemindedInTime, Told, Ideal
<1>5. ASSUME Undisturbed, item.todo # {},
             NEW t \in item.due .. now - 1, Served(t), t < item.due + Grace
      PROVE  Rang(Giver, "overdue")
  <2>1. Attended /\ Awake(t)
    <3>1. t \in Int /\ t < now /\ lapse + Period < t /\ ~Quiet(t)
      BY <1>1, <1>2, <1>5 DEF Served
    <3> QED  BY <1>1, <1>5, <3>1 DEF Attended, Awake
  <2>2. Told("overdue")  BY <1>5, <2>1 DEF TInv, InTime
  <2> QED  BY <1>5, <2>2 DEF Told
<1>6. GiverToldInTime
  BY <1>5 DEF GiverToldInTime
<1> QED  BY <1>4, <1>6 DEF ToldInTime

LEMMA InitTInv == Init => TInv
<1> SUFFICES ASSUME Init PROVE TInv
  OBVIOUS
<1>1. jobs = {} /\ now = 0 /\ scanned = 0 /\ lapse = 0  BY DEF Init
<1>2. \A kind : ~ScanRow(kind)  BY <1>1 DEF ScanRow
<1>3. InTime
  <2>1. Period \in Nat /\ QuietStart \in Nat  BY TimesAssumption
  <2> SUFFICES ASSUME Attended PROVE InTime
    BY DEF InTime
  <2>2. Inv  BY Initially
  <2>3. Ideal \in Int /\ item.due \in Nat  BY <2>2, IdealFacts DEF Attended
  <2>4. \A t \in Ideal .. item.due - 1 : t < 0 => ~Awake(t)
    BY <1>1, <2>1, <2>3 DEF Awake
  <2>5. item.due .. 0 - 1 = {} /\ ~(QuietStart < 0)  BY <2>1, <2>3
  <2> QED  BY <1>1, <2>4, <2>5 DEF InTime
<1> QED
  BY <1>1, <1>2, <1>3 DEF TInv, OwnRows, DeathLapses, ScanLeft, MomentsOK, RowsTell

LEMMA StepTInv == Inv /\ TInv /\ [Next]_vars => TInv'
<1> SUFFICES ASSUME Inv, TInv, [Next]_vars PROVE TInv'
  OBVIOUS
<1>1. CASE TimePasses  BY <1>1, TickTInv
<1>2. CASE Scan  BY <1>2, ScanTInv
<1>3. CASE \E j \in jobs : RunReads(j)  BY <1>3, ReadTInv
<1>4. CASE \E r \in runs : RunTells(r)  BY <1>4, TellTInv
<1>5. CASE \E r \in runs : RunFails(r)  BY <1>5, FailTInv
<1>6. CASE \/ Close \/ Reopen \/ Switch
           \/ \E d \in Deadline \union {NoDue} : Move(d)
           \/ \E p \in Person : Finish(p)
           \/ UNCHANGED vars
  BY <1>6, ItemTInv
<1> QED  BY <1>1, <1>2, <1>3, <1>4, <1>5, <1>6 DEF Next

\* Whoever should hear of a deadline does, for any deadlines, lead, quiet hours,
\* grace and period of the scans, if each scan looks further ahead than the next
\* one comes and reaches past the quiet hours (remindDeadline, notifyOverdue).
THEOREM NobodyLeftOut == Spec => []ToldInTime
<1>1. Spec => []TInv
  BY InitTInv, StepTInv, InvHolds, PTL DEF Spec
<1> QED  BY <1>1, InvHolds, AllTold, PTL
=============================================================================
