------------------------- MODULE DeadlineReminders -------------------------
(***************************************************************************)
(* Deadline reminders (workspace/deadline-reminders.ts, reminder-policy.ts,*)
(* notif/quiet-hours.ts): a scan enqueues one job per deadline of an open  *)
(* item, a little before the reminder's moment; the job reads the item     *)
(* again and tells whoever has not finished; another tells the giver once  *)
(* the deadline has passed.  In between the deadline may move, the item    *)
(* close and open again, the flag go off.                                  *)
(*                                                                         *)
(* One item, given at time 0; time counts minutes.  A job takes effect at  *)
(* most once (JobQueue); a run reads the item and the unfinished assignees *)
(* in two statements.                                                      *)
(***************************************************************************)
EXTENDS Integers, FiniteSets

CONSTANTS
    Person,     \* the assignees
    Giver,      \* who gave the item
    Deadline,   \* the deadlines it may have
    Lead,       \* reminders.deadline_lead_hours of the item's school
    MaxLead,    \* the longest lead a school sets, a day at least (maxLeadHours)
    Ahead,      \* SCAN_AHEAD_MS
    Grace,      \* OVERDUE_GRACE_MS
    Period,     \* time between two scans when the workers keep up
    QuietStart, QuietEnd,   \* notif.quiet_hours: one night; equal for none
    MaxTime,    \* bound: the clock stops here
    MaxChange   \* bound: changes of the item or the flag, failures of jobs

ASSUME PeopleAssumption == Giver \notin Person
ASSUME TimesAssumption ==
    /\ Deadline \subseteq Nat \ {0}
    /\ Lead \in Nat \ {0} /\ MaxLead \in Nat /\ Ahead \in Nat /\ Grace \in Nat /\ Period \in Nat
    /\ QuietStart \in Nat /\ QuietEnd \in Nat
    /\ MaxTime \in Nat /\ MaxChange \in Nat
\* A scan reaches the deadlines of any school, the quiet hours are shorter than
\* a day, and the scan looks "a little more than" its period ahead.
ASSUME HorizonAssumption ==
    Lead <= MaxLead /\ QuietEnd - QuietStart <= MaxLead /\ Period <= Ahead

NoDue == 0

VARIABLES
    now,      \* the clock
    enabled,  \* the flag deadline_reminders
    item,     \* its deadline, whether it is open, who has not finished
    jobs,     \* rows of ops.job
    runs,     \* jobs whose run has read the item, with its reading of the clock
    bells,    \* rows of notif.notification
    changes,
    (* history, for the properties *)
    scanned,  \* time of the last scan
    lapse,    \* last time the workers did not keep up; MaxTime when a job died
    since     \* the minute after the last change of the deadline, the opening or
              \* the flag; 0 before the first

rows == <<jobs, runs, bells>>
history == <<scanned, lapse, since>>
vars == <<now, enabled, item, jobs, runs, bells, changes, scanned, lapse, since>>

Kind == {"remind", "overdue"}

\* A job row; `again` is the part of its dedupe key after the deadline, 0 in
\* the keys of the scan.
JobRow ==
    [kind : Kind, due : Deadline, again : Nat, at : Int, status : {"queued", "done", "dead"}]
Bell == [to : Person \union {Giver}, kind : Kind, due : Deadline, at : Nat]

-----------------------------------------------------------------------------
(* reminder-policy.ts and quiet-hours.ts: moments, as sets of at most one. *)

Quiet(t) == QuietStart <= t /\ t < QuietEnd

\* deliveryTime: out of the quiet window, before the deadline if there is one.
DeliveryTime(ideal, deadline, t) ==
    IF ~Quiet(ideal) THEN {ideal}
    ELSE IF deadline = NoDue \/ QuietEnd < deadline THEN {QuietEnd}
    ELSE {before \in {QuietStart - 1} : before >= t - 1}

Latest(times) == CHOOSE t \in times : \A u \in times : t >= u

\* reminderAt, for an item created at time 0.
ReminderAt(due, t) ==
    LET ideal == Latest({due - Lead, due \div 2, t}) IN
    IF ideal >= due THEN {} ELSE DeliveryTime(ideal, due, t)

\* overdueNoticeAt.
OverdueNoticeAt(due, t) == IF due < t - Grace THEN {} ELSE DeliveryTime(due, NoDue, t)

DueForScan(times) == {t \in times : t <= now + Ahead}

-----------------------------------------------------------------------------
(* The item and the flag.                                                  *)

Changed == changes < MaxChange /\ changes' = changes + 1

\* updateWorkItem: a new deadline lies ahead, or the item has none any more.
Move(d) ==
    /\ item.open /\ d # item.due /\ (d = NoDue \/ d > now) /\ Changed
    /\ item' = [item EXCEPT !.due = d]
    /\ since' = now + 1
    /\ UNCHANGED <<now, enabled, rows, scanned, lapse>>

\* changeStatus of an assignee: the last one to finish closes the item.
Finish(p) ==
    /\ item.open /\ p \in item.todo
    /\ item' = [item EXCEPT !.todo = @ \ {p}, !.open = item.todo # {p}]
    /\ UNCHANGED <<now, enabled, rows, changes, history>>

\* changeStatus of the giver: the item is done (for all) or cancelled ...
Close ==
    /\ item.open /\ Changed
    /\ \E todo \in {{}, item.todo} : item' = [item EXCEPT !.open = FALSE, !.todo = todo]
    /\ since' = now + 1
    /\ UNCHANGED <<now, enabled, rows, scanned, lapse>>

\* ... in progress again, or started over, which an open item may be, too.
Reopen ==
    /\ Changed
    /\ \E todo \in {item.todo, Person} : item' = [item EXCEPT !.open = TRUE, !.todo = todo]
    /\ item' # item
    /\ since' = now + 1
    /\ UNCHANGED <<now, enabled, rows, scanned, lapse>>

Switch ==
    /\ Changed
    /\ enabled' = ~enabled
    /\ since' = now + 1
    /\ UNCHANGED <<now, item, rows, scanned, lapse>>

Due(j) == j.status = "queued" /\ j.at <= now

TimePasses ==
    /\ now < MaxTime
    /\ now' = now + 1
    /\ lapse' = IF now + 1 - scanned > Period \/ \E j \in jobs : Due(j)
                THEN Latest({lapse, now + 1}) ELSE lapse
    /\ UNCHANGED <<enabled, item, rows, changes, scanned, since>>

-----------------------------------------------------------------------------
(* The jobs.                                                               *)

\* (mutants of SameKey: a re-queued job keeps the scan's key; every key carries
\* the moment)
SameKey_noTime(i, j) == i.kind = j.kind /\ i.due = j.due
SameKey_moment(i, j) == i.kind = j.kind /\ i.due = j.due /\ i.at = j.at

\* deadline:<item>:<due> and overdue:<item>:<due>; a re-queued job adds its time.
SameKey(i, j) == i.kind = j.kind /\ i.due = j.due /\ i.again = j.again

Job(kind, due, again, at) ==
    [kind |-> kind, due |-> due, again |-> again, at |-> at, status |-> "queued"]

\* insertJob for each: nothing when the dedupe key exists.
Enqueued(all, new) == all \union {n \in new : ~ \E j \in all : SameKey(n, j)}

Ended(j, status) == (jobs \ {j}) \union {[j EXCEPT !.status = status]}

\* scanDeadlines reads the item: open, with a deadline within its horizon.
InHorizon ==
    /\ enabled /\ item.open
    /\ item.due # NoDue
    /\ now - Grace < item.due /\ item.due <= now + MaxLead + Ahead

Scan ==
    /\ scanned' = now
    /\ jobs' = IF ~InHorizon THEN jobs
               ELSE Enqueued(jobs,
                        {Job("remind", item.due, 0, t) : t \in DueForScan(ReminderAt(item.due, now))}
                        \union {Job("overdue", item.due, 0, t) : t \in DueForScan(OverdueNoticeAt(item.due, now))})
    /\ UNCHANGED <<now, enabled, item, runs, bells, changes, lapse, since>>

\* liveItem, the deadline against the clock, and the flag.
Applies(j, t) ==
    /\ item.open /\ item.due = j.due /\ enabled
    /\ IF j.kind = "remind" THEN j.due > t ELSE j.due <= t

\* deliverNow's answer when the nudge may be delivered at once.
MayTell(times, t) == \E at \in times : at <= t + 1

\* The moment deliverNow finds for a run at time t; the giver's notice has no
\* deadline of its own.
Moment(j, t) == DeliveryTime(t, IF j.kind = "remind" THEN j.due ELSE NoDue, t)

\* Not now: the job is done, and another one waits for the window's end - or
\* the nudge is dropped.
PutOff(j, t) ==
    Enqueued(Ended(j, "done"), {Job(j.kind, j.due, at, at) : at \in Moment(j, t)})

\* A run holds its job's row until it ends (JobQueue, OneRunAtATime).
NotRunning(j) == \A r \in runs : r.job # j

\* The run reads the item; a reminder settles here whether it may be delivered.
RunReads(j) ==
    /\ Due(j) /\ NotRunning(j)
    /\ IF ~Applies(j, now)
       THEN jobs' = Ended(j, "done") /\ UNCHANGED runs
       ELSE IF j.kind = "remind" /\ ~MayTell(Moment(j, now), now)
       THEN jobs' = PutOff(j, now) /\ UNCHANGED runs
       ELSE runs' = runs \union {[job |-> j, at |-> now]} /\ UNCHANGED jobs
    /\ UNCHANGED <<now, enabled, item, bells, changes, history>>

\* wi:<item>:due_soon:<due> and wi:<item>:overdue:<due>, per recipient.
SameBell(b, c) == b.to = c.to /\ b.kind = c.kind /\ b.due = c.due

\* notifyMany.
Rung(to, r) ==
    LET new == [to : to, kind : {r.job.kind}, due : {r.job.due}, at : {r.at}]
    IN  bells \union {b \in new : ~ \E c \in bells : SameBell(b, c)}

\* The run reads who has not finished and tells them - or the giver, when
\* there is somebody - and the job is done.
RunTells(r) ==
    /\ runs' = runs \ {r}
    /\ IF r.job.kind = "remind"
       THEN bells' = Rung(item.todo, r) /\ jobs' = Ended(r.job, "done")
       ELSE IF item.todo = {}
       THEN jobs' = Ended(r.job, "done") /\ UNCHANGED bells
       ELSE IF MayTell(Moment(r.job, r.at), r.at)
       THEN bells' = Rung({Giver}, r) /\ jobs' = Ended(r.job, "done")
       ELSE jobs' = PutOff(r.job, r.at) /\ UNCHANGED bells
    /\ UNCHANGED <<now, enabled, item, changes, history>>

\* The run fails and is rolled back: tried again later, or no more.
RunFails(r) ==
    /\ Changed
    /\ runs' = runs \ {r}
    /\ \/ jobs' = Ended(r.job, "dead") /\ lapse' = MaxTime
       \/ /\ jobs' = (jobs \ {r.job}) \union {[r.job EXCEPT !.at = now + 1]}
          /\ lapse' = Latest({lapse, now + 1})
    /\ UNCHANGED <<now, enabled, item, bells, scanned, since>>

-----------------------------------------------------------------------------
Init ==
    /\ now = 0 /\ enabled \in BOOLEAN
    /\ item \in [due : Deadline \union {NoDue}, open : {TRUE}, todo : {Person}]
    /\ jobs = {} /\ runs = {} /\ bells = {}
    /\ changes = 0 /\ scanned = 0 /\ lapse = 0 /\ since = 0

Next ==
    \/ TimePasses \/ Scan
    \/ \E d \in Deadline \union {NoDue} : Move(d)
    \/ Close \/ Reopen \/ Switch
    \/ \E p \in Person : Finish(p)
    \/ \E j \in jobs : RunReads(j)
    \/ \E r \in runs : RunTells(r) \/ RunFails(r)

Spec == Init /\ [][Next]_vars

-----------------------------------------------------------------------------
(* Properties.                                                             *)

TypeOK ==
    /\ now \in 0 .. MaxTime /\ enabled \in BOOLEAN
    /\ item \in [due : Deadline \union {NoDue}, open : BOOLEAN, todo : SUBSET Person]
    /\ jobs \subseteq JobRow
    /\ \A r \in runs : r.job \in jobs /\ r.job.status = "queued" /\ r.at \in 0 .. now
    /\ bells \subseteq Bell
    /\ changes \in 0 .. MaxChange
    /\ scanned \in 0 .. now /\ since \in 0 .. now + 1
    /\ lapse \in 0 .. MaxTime + 1

\* "A scan enqueues each once": of one deadline there is one reminder (or giver's
\* notice) under way at a time, and none once it rang - though it is put off,
\* its runs fail, and the deadline goes away and comes back.
OneNudge ==
    \A i \in jobs : i.status = "queued" =>
        /\ \A j \in jobs : (j.kind = i.kind /\ j.due = i.due /\ j.status = "queued") => j = i
        /\ \A b \in bells : ~(b.kind = i.kind /\ b.due = i.due)

\* No nudge rings in the quiet hours, but in their first and last minute: not
\* even that of a job that was meant for the evening and ran late.  (A bell's
\* time is its run's reading of the clock: created_at is the transaction's.)
QuietKept == \A b \in bells : Quiet(b.at) => b.at \in {QuietStart, QuietEnd - 1}

Rang(to, kind) == \E b \in bells : b.to = to /\ b.kind = kind /\ b.due = item.due

\* The item is open, with its deadline and flag as they were when it was given.
Undisturbed == item.open /\ item.due # NoDue /\ enabled /\ since = 0

\* The workers keep up again at t, and t is not in the quiet hours.
Served(t) == lapse + Period < t /\ ~Quiet(t)

\* Whoever has not finished when the deadline comes has been reminded of it, if
\* the workers kept up all the time and the quiet hours left a moment, or kept up
\* again at some moment it could be sent at: a nudge that comes in the quiet
\* hours is put off, not lost.
RemindedInTime ==
    ( /\ Undisturbed /\ now = item.due
      /\ \/ lapse = 0 /\ \A t \in 0 .. Period : ReminderAt(item.due, t) # {}
         \/ \E t \in Latest({item.due - Lead, item.due \div 2}) .. item.due - 1 : Served(t) )
        => \A p \in item.todo : Rang(p, "remind")

\* Once the deadline has passed with somebody unfinished, the giver knows, as
\* soon as the quiet hours and the workers allow.
GiverToldInTime ==
    ( /\ Undisturbed /\ item.todo # {}
      /\ \E t \in item.due .. now - 1 : Served(t) /\ t < item.due + Grace )
        => Rang(Giver, "overdue")

\* Nobody who should hear of a deadline is left out: the unfinished before it,
\* the giver after it (deadline-reminders.ts, remindDeadline and notifyOverdue).
ToldInTime == RemindedInTime /\ GiverToldInTime

\* "A MOVED deadline is a new deadline with its own reminder": also one that
\* was moved to a moment far enough ahead, with no quiet hours in between.
MovedDeadlineReminded ==
    ( /\ item.open /\ item.due # NoDue /\ enabled /\ lapse = 0
      /\ now = item.due /\ since + Period < item.due
      /\ \A t \in since .. item.due : ~Quiet(t) )
        => \A p \in item.todo : Rang(p, "remind")
=============================================================================
