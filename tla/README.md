# TLA+ development of the education platform

The platform is a TypeScript/Next.js application over PostgreSQL: a school's
persons, classes, work items ("kar"), requests, notifications, guardians and
background jobs. Every request is one PostgreSQL transaction at READ COMMITTED;
what makes the program correct is the order of its row locks, what it reads
again under them, and what its job layer promises across crashes. Those are what
these modules model. Paths below are relative to the repository's root, so the
application's sources are in `src/src` of a checkout that is itself in `src`.

## 1. Inventory

Each component: the state it keeps; its operations; with whom it interacts; what
is hard about it; what makes it correct.

| Component (code) | State | Operations | Interacts with | Hard behaviour | Correct when |
|---|---|---|---|---|---|
| Work items (`modules/workspace/service.ts`, `repo.ts`) | `work_item`, `work_item_assignee`, `inbox_entry`, transitions | create, change status (manager / assignee), edit, comment, archive | notifications, requests, removal, submissions | status read before the locks; two assignees finish at once; foreign keys lock persons | status, assignees, inbox and clock agree; no deadlock; a removed person is on no open item |
| Removal of a person (`modules/iam/removal.ts`) | `person.status`, roles, links, sessions | plan, remove | work items, guardians, classes | the list of open items is read without locks; lock order against every other writer | nobody removed is counted; no circular wait |
| Requests and response clocks (`workspace/requests.ts`, `request-clock.ts`, `request-sla.ts`) | `request_sla` | open, pause/resume/close with the status, check every 15 min (remind, escalate, renew) | work items, removal, jobs | the check adds addressees while one answers, the counselor changes the request, or a person is removed | the clock runs exactly while the request waits; whoever joins is there; no request stays with nobody |
| Background jobs (`lib/jobs/runner.ts`, `worker.ts`, `drizzle/0032_worker_role.sql`) | `ops.job` | enqueue, claim under a lease, run, complete, fail, dead-letter, prune | every job handler | crashes at every point, leases that expire under a live run, lost acknowledgements | effect once, never reopened, every job ends |
| Fair pick (`lib/jobs/plan.ts`, `app.claim_jobs`) | none (a query) | divide free slots among the kinds; choose due rows by the organizations' turns | jobs | window of 1000 rows, limits per kind and per process | no kind and no organization starves another |
| Recurring schedules (`lib/jobs/scheduler.ts`, `ops/cron.ts`) | `ops.schedule` | sync, tick | jobs | crash between the organizations' inserts and the advance; stale clock readings; concurrent sync; zones that move their clock | a tick fires once and for all; no burst; the next tick is the first match |
| Deadline reminders (`workspace/deadline-reminders.ts`) | jobs, notifications | scan, remind, notify overdue | jobs, work items, notifications | the deadline moves between scan and delivery; quiet hours | one reminder per assignee and deadline, none for a finished or moved one, and in time |
| Notifications (`modules/notif`) | `notification` | notify many, read, prune | everything | dedupe key; foreign key on the person | one per key |
| Submissions (`workspace/submissions.ts`) | `submission` | save, return | work items, files | edits against closing | an answer's files stay within its limit |
| Files and uploads (`workspace/file-access.ts`, `work-item-files.ts`, `files/*`, `app/api/files`) | `file_object`, bytes on disk | upload, attach, take out, expire, sweep | jobs, items | quota under an advisory lock; rename before commit; a commit nobody hears of; the sweep of orphans | a known file has its bytes; attached once; quota and limits hold; no bytes for ever |
| Guardian links (`iam/guardian.ts`, `guardian-notify.ts`) | `guardian_link`, the guardians' logins, their bell | link, unlink, end by removal, tell | removal, notifications, leave | a login opens, closes and reopens with links that begin and end concurrently; a bell is written while its link ends | a login is open exactly while a link is live; no bell about a former child |
| Leave requests (`iam/guardian-leave.ts`, `academic/leave.ts`) | `leave_request` | ask, cancel, decide | guardian links, removal | two guardians ask at once; the link ends meanwhile; cancel against decide | requests keep apart; asked under a live link; the first answer stands |
| Guardians' messages (`iam/guardian-message*.ts`) | items of type `parent_message` | send, answer, re-route when an addressee loses the capacity | removal, roles, teachings, work items | the last addressees leave at once; an answer, an unlink or a double tap beside a send; candidates who are being removed | nobody removed is addressed, a message is handed on, one message per form, the rate holds |
| Attendance, session reports, report cards, enrolment, classes | their rows | saves | persons | concurrent saves | last complete save wins |
| Login, throttle, sessions (`iam/throttle.ts`, `iam/session.ts`) | `login_attempt`, `session` | count, evaluate, record, unlock | - | count and record in separate transactions | limit holds for sequential attempts |
| Configuration, importer, counseling files, row-level security, pages | their rows | - | - | - | out of scope, see section 8 |

What is hard to test in all this is listed, line by line, in `PROJECT.json`
under `hazards`, each with the properties that would catch it going wrong.

## 2. Modules

| Module | Models | How it corresponds to the code |
|---|---|---|
| `RowLocks` | PostgreSQL's row-lock conflict table | external; only the modes the services use |
| `WorkItems` | work items, removal, response clocks as concurrent transactions | one step per row lock taken, one for what is read again under the locks (`Decide`), one for the commit |
| `WorkItemsProofs` | theorems about `WorkItems`: locks and removed persons; status, clock, inbox, waits | section 6 |
| `RequestCenter` | the 15-minute check of the requests, on the rows of `WorkItems` | extends `WorkItems`; one step per statement of `warn`/`escalate` that locks or reads |
| `RequestCenterProofs` | theorems about `RequestCenter` | section 6 |
| `JobOutcome` | abstract: what a job promises (open, then done or dead for good) | the header of `lib/jobs/runner.ts` |
| `JobQueue` | `ops.job`, `app.claim_jobs`, `runJob`, `recordFailure`, `runWorker`'s slots | one action per transaction or per step of `runJob` at which the process may die |
| `JobQueueProofs` | theorems about `JobQueue` and `FairPick`, refinement of `JobOutcome` | section 6 |
| `FairPick` | `claimWants` and the choice of `app.claim_jobs` | pure operators beside `JobQueue`, checked for every bounded input, proved for all |
| `Scheduler` | `ops.schedule`, `tickSchedules`, `syncSchedules` | one action per committed step: the row taken, each organization's insert, the advance |
| `SchedulerProofs` | theorems about `Scheduler` and `Cron` | section 6 |
| `Cron` | `nextFire`, `cronMatches`, `localParts` on a calendar whose sizes are constants | pure operators beside `Scheduler`, checked for every expression on a small calendar, proved for any |
| `DeadlineReminders` | `scanDeadlines`, `remindDeadline`, `notifyOverdue`, their policy and quiet hours, the dedupe keys | one action per committed scan, two per run of a job, one per change of the item or the flag |
| `DeadlineRemindersProofs` | theorems about `DeadlineReminders` | section 6 |
| `Files` | uploads, attachments, expiry and the orphan sweep | one action per step between which the web process may die |
| `FilesProofs` | theorems about `Files` | section 6 |
| `Guardians` | guardian links, logins, the guardians' bell, leave requests, and what a removal does to them | one step per row lock, one for what is read under the locks, one for the commit |
| `GuardiansProofs` | theorems about `Guardians` | section 6 |
| `Messages` | guardians' messages: send, answer, the re-route by a removal, a revoked role, an ended or replaced teaching; appointments, an unlink, the clock | the same scheme; the candidates of a re-route are taken in one step, as FOR KEY SHARE SKIP LOCKED takes them |
| `MessagesProofs` | theorems about `Messages` | section 6 |
| `MC...` | constants for TLC | - |

### WorkItems

A transaction goes through the phases people -> items -> refs -> ended, as the
services do: `lockItemPeople` (actor, assignees, the creator of a confidential
item, FOR KEY SHARE) or the recipients of a new item, or the removed person FOR
UPDATE; then the item rows (`lockWorkItem`, or every open item of the removed
person); then everything is read again and written (`Decide`), which locks what
the foreign keys reference (`Refs`: transition, notifications) and the clock row;
then `Commit`. Any transaction may be rolled back at any point (`Abort`), or be
refused under its locks (`Refuse`). Uncommitted writes are visible to nobody.

Locks within a phase are taken in ascending id order, except a class roster
(read in name order) and foreign keys (`InTurn`). PostgreSQL's re-check of a row
that was locked by a removal is `DropRecipient`.

Three facts about the code came out of the model. Without the request center's
check, the removal's second read of the items (`StillOpen`) never finds fewer
items than the first: `RemovalSeesAll` is proved, so that read is a second line
of defence. The actor's own row is locked KEY SHARE only when the removed person
has open items (`ItemPhaseLocks`), after that person's FOR UPDATE - the one place
where person rows are not taken in ascending order (section 5). And a request
that is in progress when its last assignee is removed stays as it is, its clock
paused, by design (`service.ts:755`).

Not in the module: the 24-hour idempotency window of a double tap, comments,
watchers, the owner's own handling of an inbox entry (read, pinned, archived),
files, the flag and permission checks, which narrow who may
ask but not what happens then. Of the removal, the writes to other tables are in
`Guardians` and `Messages` or left out.

### RequestCenter

One connection of `WorkItems` runs the check, the others serve creations, status
changes and removals. A check locks every due clock it can have at once
(`Begins`), then handles row after row: `Quiet` leaves it for the end of the
school's quiet hours, `Remind` rings the addressees one person row at a time,
`Plan` reads the chain without a lock, `LockPersons` takes whom it can of the
plan, `Escalate` takes the item and decides on what is committed, `Skip` leaves
an item somebody holds; `Finish` commits, `Dies` rolls everything back. A clock's
time is one of early, near its end, over (`due`). `TopLevel` is the highest level
of the chain for the kind of the clocks (`topLevel` in `request-sla.ts`): 3 for a
confidential request to the school, 2 for what a guardian wrote; the runs have 3.

It shows that two branches of `checkWorkItem` (a request found closed or in
progress), the second re-read of `escalate` and `closeStalePaused` are
unreachable (`CheckSeesTodo`): no change of the status commits without the clock
row the check holds. An edit locks what a status change locks and changes nothing
the check reads, so edits are not served here.

### JobQueue and FairPick

A row is queued, running, failed, done or dead; time is two facts per row,
`due` (run_at has come) and `expired` (the lease has run out), which may become
true at any moment, also while the run lives. `Claim` takes any set of due rows
of the right size (the SQL's fair order is a choice among these), skips those a
live run holds FOR UPDATE, and dead-letters rows whose last lease expired; its
answer may be lost (`StartIn`). A run reads its row under the fence (`Open`,
`Lost`), executes, commits handler and completion together (`Finish`) or rolls
back (`Fail`), and `RecordFailure` is the second transaction that may come late,
or never (`FailureNotRecorded`). `Crash` kills a process at any step. One kind of
job is modelled; `Slots` is its concurrency within the process cap.

Which rows the claim takes, and how many of each kind a turn asks for, are pure
and in `FairPick`: rows by their organization's turn, then by age, within a
window; free slots handed out from a rotating start. They are compared with what
a fair pick is (`IsFair`, `PlanIsFair`): TLC does it for every assignment of 5
rows to 3 organizations and every room of 3 kinds, `TurnsAreFair` for any number
of rows, organizations and kinds.

### Scheduler and Cron

One schedule whose cron fires at the multiples of `Period`. A worker reads the
clock when its turn or sync begins and may act on that reading much later.
`TakeDue` is the `FOR UPDATE SKIP LOCKED` read together with the organizations
that are not suspended; `InsertJob` commits one organization's job in a
transaction of its own; `Advance` moves the row on and commits; `Crash` rolls
the row back and leaves the inserted jobs. `SyncWrite` is the upsert of a worker
that starts.

`Cron` is `nextFire` itself, on a calendar whose hours, days, months and weeks
have any length (the months one length, and days are counted through). TLC tries
every expression from every minute where an hour has 2 minutes, a day 3 hours, a
month 2 days, a year 2 months and a week 3 days: against the first match, in a
zone of one offset and in one whose clock goes back; `NextFireRight` proves the
same for any lengths and any full hours at which a clock is moved. In a zone whose
clock goes on, the jump to the next midnight from a day that does not match counts
24 hours on a day of 23 and may pass over a tick; there only expressions that fire
every day are claimed. This, and a repeated local time that fires twice, are
finding 10.

### DeadlineReminders

One item, given at time 0 with or without a deadline; a unit of time is the
minute of `deliverNow` and `deliveryTime`. `Scan` reads it and enqueues the
reminder and the giver's notice under their keys (`SameKey`, `Enqueued`);
`RunReads` is a run of such a job up to the decision whether it still applies
and may be delivered now (`Applies`, `MayTell`); `RunTells` reads who has not
finished and tells them, or the giver, or queues the job again for the end of
the quiet hours (`PutOff`); `RunFails` is the rolled-back run. What `JobQueue`
establishes is used here: a job's row belongs to one run, and its writes happen
with its completion or not at all. In between the giver may move, close, reopen
or start over the item, an assignee finishes, and the flag goes on or off.

The lead is the school's own; a scan asks for the items within the longest lead
any school sets (`MaxLead`, a day at least), as the query is one for all.

`scanned`, `lapse` and `since` are history variables: the last scan, the last
time a scan or a due job was late, the minute after the last change of deadline,
status or flag.
They state the preconditions of the three properties that say somebody IS told;
nothing else reads them. A bell's time is its run's reading of the clock, as the
row's `created_at` is its transaction's start.

Not in the module: which items are reminded at all (type, confidentiality, given
to somebody else), persons who are no longer active, the settings per school, the
2000 items a scan reads at most, a second night of quiet hours.

### Files

A file is one upload attempt: its request (`up`), its row, its bytes (`disk`:
temp, placed, more than a day old, beyond the directories the sweep reads). An
upload is received, recorded under the person's advisory lock with the quota read
again, renamed into place, and committed - and the process may not hear of the
commit. Then, as after any failure, its clean-up deletes the planned file
(`EndUpload`), which leaves a live pending row without bytes; no page was told its
id, and it expires after a day (finding 11). `told` holds the ids a page was given,
which is what `KnownHasBytes` speaks of. A holder is the giver's set of
one item or one student's answer; an edit locks the holder, then the pending
rows. A sweep lists the directory first, asks for the live rows of the old files
later, and stops before it deletes when too many are orphans (the brake). `Crash`
ends any request or sweep at any step and loses what is only in memory; bytes it
leaves behind are the sweep's.

Not in the module: sizes (the quota counts files only), file types, downloads,
the answer's text.

### Guardians

A request takes its locks kind by kind, each kind of request in its own order:

| Request | Order of the locks |
|---|---|
| add, unlink a guardian | student, guardian, link |
| remove a student | student, profile, guardians, links |
| remove a colleague who is a guardian | guardian, links |
| tell the guardians (absence, report card, early exit) | guardians FOR SHARE, then the links read again |
| ask for leave | link, profile, guardian (by foreign key) |
| cancel a leave request | leave |
| decide one | leave, guardians FOR SHARE |

A guardian who is not a colleague has a login for the links: it opens with the
first, closes with the last, opens again with the next, and the bell then holds
nothing of a former child. A first link may insert the person; the unique phone
stands in the way of a second insert (`NewGuardian`).

A link is named by its pair, so an unlink that waited may act on a newer link of
the same pair, which the code, naming the row, would refuse: the model does more
than the code, not less. A leave request's time is a set of periods. Left out:
early exits as rows of their own, the managers' bell, the response clock of a
leave request (`WorkItems` has the clocks), the school's settings, the class bulk
of guardians.

### Messages

One school, one guardian with one child. A request's locks, kind by kind:

| Request | Order of the locks |
|---|---|
| send | recipients' persons, link |
| answer | addressees' persons, item |
| remove a colleague | person FOR UPDATE, teachings and roles, candidates, the person's open items |
| revoke a role, end a teaching | role or teaching, candidates, planned items |
| replace a teacher (`assignTeaching`, the offerings form) | old teaching, next teacher FOR SHARE, candidates, planned items |
| give a role, a teaching | person FOR NO KEY UPDATE, FOR SHARE |
| unlink | link |

`PlansMessages` is the part of `prepareGuardianMessageReroute` that reads: the
open messages of whoever loses the capacity and the chain of each (own
destination, principals, vice principals). `TakesCandidates` is its lock: it
takes whom nobody holds FOR UPDATE and passes over the others; so a colleague
whose removal is rolled back afterwards was passed over too. `LossWrites` is
`applyGuardianMessageReroute`, with a removal's withdrawal: under the items'
locks, a message with no live addressee gets the first step of its chain with
somebody new. A transaction sees its own ended and given offices (`Seen`) and
the committed ones of the others.

A message's age has three values, around the form key's 10 minutes and the rate
limit's hour. Left out: the guardian's own person row, which no other request here
takes in a mode that matters; the actor's row of a removal (finding 4); bells, the
response clock, relinking, closed offerings, the counselor, who is one more office
with its page.

## 3. Runs

| Run | Bounds | Shows |
|---|---|---|
| `work_task` | 3 persons, 1 task, 2 connections used again and again; person 3 removable, 2 with broad rights | `RemovedNotCounted`, `StatusFollowsAssignees`, `LastFinishCloses`, `ClosedItemNotEdited`, `FinishedStaysFinished` |
| `work_waits` | a task and a confidential request, 2 persons removable, 2 connections with one transaction each, weak fairness | `NoCircularWait`, `EveryRequestEnds` |
| `center_check` | 1 request, 4 persons of 4 levels, 1 client used again and again beside the check, fairness | `CheckSeesTodo`, `ClockFollowsStatus`, `AddedAreActive`, `NobodyLeftAlone` |
| `center_removed` | 1 request, 3 persons, 2 clients beside the check | violation: a person the check adds is removed and counts on an open request |
| `jobs_promise` | 2 jobs, 2 workers with 1 slot, 2 attempts, fairness | `TypeOK`, `OneRunAtATime`, `ClaimIsFair`, `StaleRunWritesNothing`, `KeepsPromise` (refinement), `EveryJobEnds` |
| `jobs_fence` | 1 worker with 2 slots | violation: the fence lets an earlier attempt's run write |
| `sched_ticks` | 2 organizations (one suspended and taken back at will), 2 workers, period 2, time 6, 1 crash, fairness | `OneJobPerTick`, `FiredForAll`, `NoBurst`, `NextFireIsFirst`, `CatchesUp` |
| `deadline_nudges` | deadlines 7 (in the quiet hours 5-8) and 9 (after them), lead 5, grace 2, a scan at least every minute or not, 2 assignees, time 9, 2 changes or failures | `OneNudge`, `ToldInTime` |
| `deadline_moved` | deadlines 4 and 6, lead 3, no quiet hours, 1 assignee, time 6, 2 changes | violation: a deadline that went away and came back has no reminder |
| `files_uploads` | 2 upload attempts of one person, 2 holders, 2 editors, a daily quota and a holder's limit of 1, fairness | `KnownHasBytes`, `OneHome`, `SetWithinLimit`, `QuotaHolds`, `NoBytesForEver` |
| `guardians_links` | 2 guardians (one a colleague), 2 children, 3 connections of one request each from every consistent set of links, 2 leave requests for one span, at most 1 waiting | `AccessFollowsLinks`, `NoFormerChild`, `LeavesKeepApart`, `AskedWhileLinked`, `FirstAnswerStands` |
| `messages_routed` | 3 colleagues (2 principals, one of them a teacher; the others may be given an office), 2 messages of 2 forms, 1 an hour, 3 connections of one request each | `AddresseesThere`, `RateKept`, `NoTwin`, `NobodyLeftOut`, `AnswerStands`, `NoCircularWait` |

Why the bounds suffice. The races of `WorkItems` are between two transactions
over one item: a removal against a creation, a reopening, an answer, an edit; a
circular wait needs two transactions and two rows, which two items and two
removable persons give in every order. `Reuse` lets the same connections serve
request after request, so a long history (cancel, remove, start over) is covered
where it matters (`work_task`, `center_check`). Four levels let the chain go up
twice and skip a level that was removed. Two jobs, two workers put two runs of
one job in two processes; the second attempt is the last, where the two limits
meet. Three ticks and one crash are an outage across a tick and a re-fired tick;
two workers are one that fires while the other syncs or skips. In
`deadline_nudges` the reminder of deadline 7 falls before the night and its
giver's notice into it, the reminder of 9 falls just before the night, so that a
late job is put off to its end; two changes take a deadline away and bring it
back, close and reopen, or fail a run and change what it was about. With a quota
and a limit of 1, two uploads are one too many, and two forms want one place or
one file. In `guardians_links` two requests race and a third comes before, after
or between; 1 for `LEAVE_MAX_PENDING` (5) makes the second request one too many.
In `messages_routed` a message has two addressees who may both go, each a
candidate of the other's chain, and a third who is appointed; a send may race two
other requests, or come before or after them, and two sends race with a third
request. 1 stands for `MESSAGE_RATE_LIMIT` (10), so the second message within the
hour is one too many. The one type invariant that is run is
`jobs_promise`'s (attempts never pass the maximum); every module's is a theorem.
The proved properties hold for all bounds.

Not reached: the sweep's brake needs 10 files, so with 2 it never holds back;
`NoBytesForEver` is about what it lets through (its doc asks a human to look at
the rest), and the sweep reads at most 500 files a time.

Deadlock checking stays on in `work_task` and `center_check`, where connections
are reused; elsewhere the system may stop: connections are used up, the clock has
reached its bound (`Scheduler`, `DeadlineReminders`), all jobs are pruned, no
upload attempt is left.

Every property has a mutant: a definition mutated as a plausible bug would
(dropped guard, missing lock, wrong key), defined beside the original as
`Name_variant` and recorded in `PROJECT.json`, under which TLC finds the property
violated.

## 4. Fairness

* `WorkItems!FairSpec`: weak fairness of `Work(t)`: a transaction that was
  started goes on (statement timeouts and the connection pool see to that) and
  PostgreSQL grants a lock that is free for good. No fairness of `Start` or of
  `Abort`, so `EveryRequestEnds` does not count on a deadlock victim.
* `RequestCenter!CenterFairSpec`: the same for the clients; time passes; the
  check comes again and again (its schedule) and is not cut down every time, nor
  always within the quiet hours (strong fairness of its steps). `NobodyLeftAlone`
  asks for calm clients: against a client who holds the item at every check the
  code promises nothing, it skips.
* `JobQueue!FairSpec`: time passes (`RunAtComes`, `LeaseRunsOut`), the worker
  loop polls (`Claim`), and no step of a run hangs for ever (statement timeout,
  abort signal at the kind's timeout). Crashes are neither required nor ruled out.
* `Scheduler!FairSpec`: a started turn goes on, and the worker loop begins a turn
  again and again (strong fairness, because a restarted worker's sync comes in
  between). The clock, suspensions and crashes owe nothing.
* `Files!FairSpec`: days pass, a request ends one way or the other, and the daily
  sweep comes again and again and is not always cut short.

## 5. Findings

Checked by a run that expects the violation:

1. The fence of a run names the worker, not the attempt (`jobs_fence`): with two
   slots of one kind a late failure report of the first attempt is taken for the
   second's. With one run of the kind per process it cannot happen
   (`jobs_promise`), and a job takes effect once all the same (`KeepsPromise`,
   proved for any number of slots).
2. The dedupe key of a reminder's job is the item and the deadline, and it stays
   used after the job ran and did nothing (`deadline_moved`). A deadline that is
   moved away and back, or an item closed and reopened, after that run is not
   reminded of until the old job is pruned. `ToldInTime` therefore speaks of
   items whose deadline, status and flag nobody touched.
3. The request center adds assignees to an existing item, which
   `service.ts:124` says nothing but a guardian message's re-route does
   (`center_removed`): a status change that had locked the people before holds
   nobody's row for the newcomer, whose removal it may then overlook.
Found with TLC in the same modules, each with a change of constants only:

4. `removePerson` locks its actor's row after the removed person's: two removals
   of each other wait in a circle (`NoCircularWait` in `WorkItems` with
   `NItem = 1`, `Requests = {}`, `Reach = {2, 3}`, `Remover = {2, 3}`,
   `Removable = {2, 3}`). When nobody is both remover and removable there is no
   circle, which `work_waits` checks and `NoCircle` proves.
5. A tick that is fired again after a crash stands in for the ticks missed since:
   an organization that had its job from the first attempt gets none for them,
   though `schedules.ts:4` promises one (`Scheduler` with one worker and
   `[][\A w \in Worker : (Advance(w) /\ Fresh(turn[w])) => \A o \in Steady :
   recent[o] > 0]_vars`).
6. Two more circles with persons asked for late (`NoCircularWait` in
   `RequestCenter`): the check holds an escalated item and asks for the row of an
   addressee it reminds of another request (`requests.ts:324`), or a change holds
   the item and asks for the row of an addressee who joined (`service.ts:127`).
7. A leave request locks the link and then the profile (`guardian-leave.ts:177`),
   the removal of the child the profile and then the link, against the one lock
   order that `removal.ts:53` states; PostgreSQL aborts one (`NoCircularWait` in
   `Guardians` with 1 guardian, 1 child, `Family = {<<1, 1>>}`, 2 connections).
   One more with a colleague who is a guardian (`Colleague = {1}`): the request
   holds the link and its insert waits for the guardian's person row, whose
   removal waits for the link.
8. A message is sent to a teacher whose teaching ends between the send's choice
   of its addressees and its commit: neither sees the other, and the message stays
   with somebody who no longer counts as able to answer, though
   `guardian-messages.ts:31` says it is handed on in that same write
   (`NoneStranded` in `Messages` with `FirstHolds = {<<1, "teacher">>,
   <<2, "principal">>}`, `Revocable = {<<1, "teacher">>}`, nothing else given or
   taken, 1 message, 2 connections). The exception that
   `guardian-message-routing.ts:47` accepts is about two changes of offices. The
   addressee keeps the item and may still answer it.
9. A teacher's replacement holds the row of the teaching it ends when it asks for
   the next teacher's person row (`lib/admin/teaching.ts:229`), a removal holds the
   person and asks for the rows of their teachings (`removal.ts:255`); the lock order
   that `removal.ts:53` states leaves the teachings out. Two replacements of one
   colleague by the other and the removals of both wait in a circle
   (`NoCircularWait` in `Messages` with 4 connections and two removable colleagues
   whose teaching is both `Appointable` and `Revocable`; in the school that takes
   two offerings). With one such colleague there is none, which `messages_routed`
   checks and `NoCircle` proves.
10. Two of `cron.ts`'s remarks about zones with summer time do not hold (neither
   matters to the deployed schedules, whose default zone has none). Line 12 says
   that a repeated local time fires once: `nextFire` finds the second one too
   (`Cron` with, for the zones of `Autumn`, `Search` giving two firings in a row
   with the same `LocalParts`). Line 144 says that the hour test corrects a jump
   to midnight that lands an hour off: from a day of 23 hours that does not match,
   the jump lands an hour after midnight and passes over a tick in that hour
   (`NextFireIsFirst` without `EveryDay`).
11. After a commit it did not hear of, an upload's clean-up deletes the bytes of a
   live pending row (`app/api/files/route.ts:153` asks only whether the process
   knows of the commit), though `files/storage.ts:55` calls a row without bytes a
   fault (`\A f \in File : Live(f) => Stored(f)` in `Files`). No page was told the
   row's id, so nobody can attach or open it, and it expires after a day; for
   that day it counts against the quota. `KnownHasBytes` therefore speaks of
   the files a page was told of.

## 6. Proofs

All theorems hold for every value of the constants that satisfies the `ASSUME`s
of the module (sizes are naturals, `Period` is positive, the null values are no
members) and the assumptions named below.

`WorkItemsProofs`: `TypeCorrect` (`[]TypeOK`), `DisciplineHolds`
(`[]LockDiscipline`) and `RemovedNeverCounted` (`[]RemovedNotCounted`).
`RemovedNotCounted` is not inductive: that a creation cannot add a removed person
follows from the KEY SHARE it holds, that a reopening cannot revive one from
`lockItemPeople` having locked every assignee before the item, and that the
removal clears all open items from its holding the person FOR UPDATE since before
its first read. `LockDiscipline` states these facts in six parts (`LocksExclude`,
`WritersHoldItem`, `PeopleCovered`, `RecipientsCovered`, `RemovalSeesAll`,
`WritesAreSafe`); with `TypeOK` and `RemovedNotCounted` they are the inductive
invariant.

The same module proves the state of an item and the waits. A transaction writes
an item only while it holds it, so a property of single items is kept when each
write is computed, and commits keep it (`StatusFollowsAlways`,
`ClockFollowsAlways`, `InboxFollowsAlways`); the same fact gives the action
properties `EditsLandOpen`, `FinishedIsKept` and `LastFinishIsFollowed`.
`StatusFollowsAlways` is about tasks that are done or not started: a giver may set
a task to in progress or cancelled whatever its assignees did. That nobody is
left to finish an open task is `LastFinishIsFollowed`, which needs
`RemovedNotCounted`: a giver's change takes out only those who are removed, and
of these none is unfinished on an open item. `PeopleBeforeItems` is the lock
order itself, and `NoCircle` follows from it with a level for each transaction
(`WaitLevel`): whoever waits in a circle would wait for somebody of a higher
level. It assumes `Apart`, that no remover is removable (finding 4).

`RequestCenterProofs`: `CenterTypes`, `SeesTodo`, `ClockFollowsInCenter` and
`AddsActive`. The check holds the clock rows of what it still has to handle
(`Clear`), a change of the status cannot commit without its clock row
(`CheckClear`), and the share lock of a planned person keeps the person from
being removed until the commit.

`JobQueueProofs`: the inductive invariant is `TypeOK`, `AttemptsLeft`,
`OneRunAtATime`, `EffectIffDone` and `LeaseHeld` (a run that executes still owns
its row: the row lock keeps claim, failure reports and other runs out), and from
it `TypeCorrect`, `RunsExclude`, `EffectsExact`, `AttemptsBounded`,
`LeaseSurvives` (the second LeaseLost of `runJob` is unreachable), the action
property `FinishedStays`, the refinement `Refines` (`Spec => KeepsPromise`: the
initial state maps to none, each step to a step of `JobOutcome` or a stutter), and
`StaleWritesNothing`, which assumes `Slots = 1` (finding 1).

`TurnsAreFair` (`[]ClaimIsFair`) is about `FairPick`, that is about sums, counts
and a recursive function. Induction is done by hand: a counterexample would have a
least one (`LeastNatural`), and there is none. The pick: the rows before a row in
turn order are counted (`Before` is a strict order, so what is chosen is a prefix
of it), an organization's chosen rows are its oldest, and two organizations' shares
differ by one at most while both have rows. The plan: what is left never grows and
is handed out exactly, and a kind that comes first in the rotation gets a slot.

`SchedulerProofs`: the inductive invariant adds to `TypeOK`, `OneJobPerTick`,
`FiringIsDue` and `FiredForAll` that a job's key is its tick (`KeyIsTick`) and
that a firing turn has seen to every organization off its list (`ListedOrDone`);
from it `TypeCorrect`, `FiresOnce`, `FiresForAll`, `OneLeader`. `NeverABurst`
needs a measure: what a stale reading of the clock may still fire (`Stale`)
against what the passing of time owes (`Owed`).

`NextFireRight` (`[]NextFireIsFirst`) is about `Cron`. Up to the next local hour
the hour stays the same in any zone whose clock moves at full hours (`SameHour`);
up to the next local midnight the day does, unless the clock goes on
(`SameDayThere`: one that goes back never crosses midnight twice, as midnight is a
full hour). So no jump passes over a match (`JumpsRight`), the first match obeys
the rule of `nextFire`'s loop, and by the last minute at which they could differ
the loop finds nothing else (`SearchIsFirst`). `CalendarAssumption`: lengths are
positive and clocks move at full hours.

`DeadlineRemindersProofs`: `TypeCorrect`, `OneNudgePerDeadline` (`[]OneNudge`)
and `QuietHoursKept` (`[]QuietKept`). `OneNudge` rests on three facts about the
rows: a dedupe key names one row; only the scan's row is ever put off, since its
replacement runs after the quiet hours; whatever rang has left its scan's row
behind, so no scan inserts another. `QuietKept` needs that a run of a reminder
has settled that it may be delivered at the time it read.

`NobodyLeftOut` (`[]ToldInTime`) turns "is told in time" into an invariant over the
history variables (`TInv`). Of an item nobody touched, while no job has died:
the last scan left a row for every nudge whose moment it saw coming (`ScanLeft`);
a row that still waits waits for the workers, its moment or the end of the quiet
hours, and for nothing else (`MomentsOK`); a nudge that has a row has rung, waits,
or was dropped for the quiet hours (`RowsTell`); so a tick on which the workers had
kept up for a period, outside the quiet hours, leaves nobody untold (`InTime`). It
assumes `HorizonAssumption`: a scan looks further ahead than the next one comes
(`SCAN_AHEAD_MS` is 30 minutes, the schedule's period 15), no lead is longer than
the longest, and the quiet hours are no longer than that horizon (they are shorter
than a day, and the longest lead starts at the default of a day). Without the last
a deadline inside the night would come into the scan's sight too late for the
minute before the night; the proof showed that the horizon has to be the longest
lead of all schools, as in the code, not the item's own.

`FilesProofs`: `TypeCorrect`, `KnownFilesHaveBytes`, `AttachedOnce`,
`SetsWithinLimit`, `QuotaNeverExceeded`. The first needs what the sweep may have
in its hands: a file it is about to delete was old when listed and had no live row
when asked, and no row can come later, because a transaction that would write one
is younger than the file. The others follow from the locks: two edits never have
one holder or one pending row, two uploads never one person.

`GuardiansProofs`: `GuardianTypes`, `AccessFollows`, `FormerChildGone`,
`LeavesApart`, `AsksLinked`, `FirstStands`. The inductive invariant says of each
transaction which locks it holds at each phase (`Covered`), what it found under
them (`Knows`) and that what it is about to write is right of the database as it
is (`Promise`); `Undisturbed` carries each of these through another's commit,
because what that commit changes needs a lock in conflict (`LocksExclude`).

`MessagesProofs`: `TypeCorrect`, `NobodyRemovedAddressed`, `RateHolds`,
`FormsSentOnce`, `FirstAnswerStands`, `HandedOnInTheSameWrite`, `NoCircle`. The
inductive invariant `IInv` says of each transaction what it knows at its phase: a send holds
its recipients and the link (`Sender`), a removal holds the person FOR UPDATE, so
that every message with them is planned, locked and then written without them
(`Remover`), the candidates of a re-route are there and locked (`Taker`), and each
message of a write is a new one under the link or an open one under its own lock
(`Writer`). `CommitKnows` carries this through another's commit, `AgesKnow`
through an hour that passes. `NoCircle` needs of each transaction what it holds and
wants at its phase (`WInv`) and gives each a level by the row it waits for, such
that whoever stands in the way waits at a higher one: persons, offices, the link,
items in ascending order. That candidates are taken with SKIP LOCKED keeps them
out of it. It assumes `Apart`, that at most one removable colleague can both be
given the teaching and lose it (finding 9).

Proved and not listed by any run, because they are steps on the way or follow
from the shape of the code: `LockDiscipline`, `InboxFollowsWork`,
`RecipientsLockedFirst`, `EffectIffDone`, `AttemptsLeft`, `FinishedIsFinal`,
`FiringIsDue`, `QuietKept`.

Every safety property that a passing run checks is a theorem. Only model-checked:
liveness (`EveryRequestEnds`, `EveryJobEnds`, `CatchesUp`, `NobodyLeftAlone`,
`NoBytesForEver`: fairness and ENABLED are out of the prover's reach), and that the
findings' counterexamples exist.

## 7. Plan

Done: `RowLocks`, `WorkItems`, `RequestCenter`, `JobOutcome`, `JobQueue`,
`FairPick`, `Scheduler`, `Cron`, `DeadlineReminders`, `Files`, `Guardians`,
`Messages`, with the proofs above. Left, in this order:

1. The idempotency window of a double tap, and the submission's return, as
   operations of `WorkItems`.
2. The class bulk of guardians.
3. The login throttle: count, evaluate and record in separate transactions.
4. Enrolment and teaching against the removal; attendance and session reports;
   concurrent saves of report cards under the profiles' locks.

## 8. Not modelled

Pages and formatting (presentation), audit rows (an append-only trail nothing
reads back), row-level security (policies of PostgreSQL; one organization is
modelled everywhere), configuration (the last writer wins under FOR UPDATE), the
importer (one transaction over the services above; parsing is its substance),
counseling files; and, for now, what section 7 leaves. Most of the repository's
lines are of these kinds - pages, components, read queries, seeds, load tests and
scripts - and hold no state of their own that a concurrent step could spoil.
`PROJECT.json` lists each component with its status and its reason.
