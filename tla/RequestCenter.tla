--------------------------- MODULE RequestCenter ---------------------------
(***************************************************************************)
(* The request center's check (src/src/modules/workspace/requests.ts),     *)
(* every 15 minutes in one transaction: it locks the response clocks that  *)
(* are due, reminds the addressees of a request near the end of its        *)
(* period, and escalates one whose period is over to the next level of     *)
(* the chain - while the addressees answer, the counselor changes the      *)
(* request, and persons are removed (module WorkItems, whose connections   *)
(* other than the check's serve those).                                    *)
(*                                                                         *)
(* One check is begin -> (over) plan, persons, item -> (near) bells ->     *)
(* commit, rows in the order of their deadline; nothing it writes is seen  *)
(* before the commit.  `item[i].clock` is the clock's state; this module   *)
(* adds where its current period stands.                                   *)
(***************************************************************************)
EXTENDS WorkItems, FiniteSetsExt

CONSTANTS
    Checker,   \* the connection the check runs on
    Level,     \* each person's level: 0 staff .. 3 org_admin
    TopLevel   \* how far up requests of this kind are escalated (topLevel)

Levels == 0 .. 3
Clients == Tx \ {Checker}

ASSUME CheckerAssumption == Checker \in Tx
ASSUME LevelAssumption == Level \in [Person -> Levels] /\ TopLevel \in Levels \ {0}

VARIABLES
    due,      \* how much of the clock's period has passed: 0 early, 1 near, 2 over
    warned,   \* was this period's reminder sent?
    check     \* the running check

centerVars == <<due, warned, check>>
allVars == <<vars, due, warned, check>>

\* `over` and `near` are the locked rows still to handle, `cur` the one being
\* handled, `plan` whom the escalation would add, `reminded` and `renewed`
\* the rows already updated.
Check ==
    [phase : {"idle", "rows", "planned", "persons", "bells"},
     over : SUBSET Item, near : SUBSET Item, cur : Item \union {0},
     plan : SUBSET Person, reminded : SUBSET Item, renewed : SUBSET Item]

NoCheck ==
    [phase |-> "idle", over |-> {}, near |-> {}, cur |-> 0,
     plan |-> {}, reminded |-> {}, renewed |-> {}]

ClockLock(i) == Lock(<<"clock", i>>, "update")
ItemLock(i) == Lock(<<"item", i>>, "no_key_update")

\* SKIP LOCKED takes what it can have at once.
Free(w) == Grantable(Checker, w)

-----------------------------------------------------------------------------
(* The chain: who is above the addressees (request-sla.ts).                *)

\* The addressees who are still there.
Live(i) == Assignees(item[i]) \ archived

\* officeHolders / organizationAdmins, less whoever has the request already.
LevelCandidates(i, l) ==
    {p \in Person \ archived : Level[p] = l} \ (Assignees(item[i]) \union {Giver[i]})

\* The levels an escalation may go to: above every live addressee, not above
\* the kind's top, with somebody to add.
Above(i) ==
    {l \in 1 .. TopLevel : (\A p \in Live(i) : Level[p] < l) /\ LevelCandidates(i, l) # {}}

\* (mutant of NextLevel: without an addressee there is no level to go up from)
NextLevel_fromSomebody(i) ==
    IF Above(i) = {} \/ Live(i) = {} THEN {} ELSE LevelCandidates(i, Min(Above(i)))

\* nextLevel: the lowest of them.
NextLevel(i) == IF Above(i) = {} THEN {} ELSE LevelCandidates(i, Min(Above(i)))

-----------------------------------------------------------------------------
(* Time.                                                                   *)

\* A stopped clock does not count: what a pause took is added to the deadline.
Ticking(i) == item[i].clock = "running" /\ due[i] < 2

Elapse ==
    \E i \in Requests :
        /\ Ticking(i)
        /\ due' = [due EXCEPT ![i] = @ + 1]
        /\ UNCHANGED <<vars, warned, check>>

-----------------------------------------------------------------------------
(* The check.                                                              *)

\* A running clock with something to do: the end of its period, or a reminder
\* not sent in it; a clock somebody holds is left for the next check.
DueRows(mark) ==
    {i \in Requests : /\ item[i].clock = "running"
                      /\ due[i] = mark
                      /\ mark = 2 \/ ~warned[i]
                      /\ Free(ClockLock(i))}

Begins ==
    /\ check.phase = "idle"
    /\ DueRows(1) \union DueRows(2) # {}
    /\ check' = [NoCheck EXCEPT !.phase = "rows", !.over = DueRows(2), !.near = DueRows(1)]
    /\ held' = [held EXCEPT ![Checker] = {ClockLock(i) : i \in DueRows(1) \union DueRows(2)}]
    /\ UNCHANGED <<archived, item, pc, op, want, write, due, warned>>

\* The next row: those over come first, their deadline is earlier.
NextRow(i) ==
    /\ check.phase = "rows"
    /\ i \in IF check.over # {} THEN check.over ELSE check.near

\* The school's quiet hours: the row is left for the first check after them.
Quiet ==
    \E i \in Item :
        /\ NextRow(i)
        /\ check' = [check EXCEPT !.over = @ \ {i}, !.near = @ \ {i}]
        /\ UNCHANGED <<vars, due, warned>>

\* warn: a bell for every live addressee, whose person row the insert locks.
Remind ==
    \E i \in check.near :
        /\ NextRow(i)
        /\ check' = [check EXCEPT !.phase = "bells", !.near = @ \ {i}, !.cur = i]
        /\ want' = [want EXCEPT ![Checker] = PersonLocks(Live(i), "key_share") \ held[Checker]]
        /\ UNCHANGED <<archived, item, pc, op, held, write, due, warned>>

Ring ==
    \E w \in want[Checker] :
        /\ InTurn(Checker, w) /\ Free(w)
        /\ want' = [want EXCEPT ![Checker] = @ \ {w}]
        /\ held' = [held EXCEPT ![Checker] = @ \union {w}]
        /\ UNCHANGED <<archived, item, pc, op, write, due, warned, check>>

Reminded ==
    /\ check.phase = "bells" /\ want[Checker] = {}
    /\ check' = [check EXCEPT !.phase = "rows", !.cur = 0, !.reminded = @ \union {check.cur}]
    /\ UNCHANGED <<vars, due, warned>>

\* escalate: the plan is read without a lock ...
Plan ==
    \E i \in check.over :
        /\ NextRow(i)
        /\ check' = [check EXCEPT !.phase = "planned", !.over = @ \ {i}, !.cur = i, !.plan = NextLevel(i)]
        /\ UNCHANGED <<vars, due, warned>>

\* ... then the persons of the plan, without waiting, if they are active ...
LockPersons ==
    /\ check.phase = "planned"
    /\ held' = [held EXCEPT ![Checker] =
                  @ \union {Share(p) : p \in {q \in check.plan \ archived : Free(Share(q))}}]
    /\ check' = [check EXCEPT !.phase = "persons"]
    /\ UNCHANGED <<archived, item, pc, op, want, write, due, warned>>

Handled(renewed) ==
    check' = [check EXCEPT !.phase = "rows", !.cur = 0, !.plan = {}, !.renewed = @ \union renewed]

\* (mutant of Added: the plan is carried out as it was made)
Added_planned(i) == check.plan \ (Assignees(item[i]) \union {Giver[i]})

\* Of the plan, who could be locked and does not have the request meanwhile.
Added(i) ==
    {p \in check.plan \ archived : Share(p) \in held[Checker]} \ (Assignees(item[i]) \union {Giver[i]})

Escalated(i) ==
    [item[i] EXCEPT
        !.asg   = [p \in Person |-> IF p \in Added(i) THEN "pending" ELSE item[i].asg[p]],
        !.inbox = [p \in Person |-> IF p \in Added(i) THEN "live" ELSE item[i].inbox[p]]]

\* ... then the item, without waiting, and the decision on what is committed:
\* the next level joins, or the same addressees get a new period.
Escalate ==
    LET i == check.cur IN
    /\ check.phase = "persons"
    /\ Free(ItemLock(i)) /\ item[i].status = "todo"
    /\ held' = [held EXCEPT ![Checker] = @ \union {ItemLock(i)}]
    /\ write' = [write EXCEPT ![Checker] =
                   [j \in DOMAIN @ \union (IF Added(i) = {} THEN {} ELSE {i}) |->
                      IF j = i THEN Escalated(i) ELSE @[j]]]
    /\ Handled({i})
    /\ UNCHANGED <<archived, item, pc, op, want, due, warned>>

\* An answer in flight holds the item: the next check sees.
Skip ==
    /\ check.phase = "persons"
    /\ ~Free(ItemLock(check.cur))
    /\ Handled({})
    /\ UNCHANGED <<vars, due, warned>>

Ends ==
    /\ check' = NoCheck
    /\ want' = [want EXCEPT ![Checker] = {}]
    /\ held' = [held EXCEPT ![Checker] = {}]
    /\ write' = [write EXCEPT ![Checker] = NoWrite]
    /\ UNCHANGED <<pc, op, archived>>

Finish ==
    /\ check.phase = "rows" /\ check.over = {} /\ check.near = {}
    /\ item' = [i \in Item |-> IF i \in DOMAIN write[Checker] THEN write[Checker][i] ELSE item[i]]
    /\ due' = [i \in Item |-> IF i \in check.renewed THEN 0 ELSE due[i]]
    /\ warned' = [i \in Item |-> i \notin check.renewed /\ (i \in check.reminded \/ warned[i])]
    /\ Ends

\* The worker dies, or the check is the victim of a deadlock: its job is run
\* again, from the start.
Dies ==
    /\ check.phase # "idle"
    /\ Ends
    /\ UNCHANGED <<item, due, warned>>

-----------------------------------------------------------------------------
CenterInit ==
    /\ Init
    /\ due = [i \in Item |-> 0]
    /\ warned = [i \in Item |-> FALSE]
    /\ check = NoCheck

\* An edit locks what a change of the status locks, and changes nothing the
\* check reads.
Serve(t) ==
    /\ BeginCreate(t) \/ BeginChange(t) \/ BeginRemove(t) \/ Work(t) \/ Abort(t)
    /\ UNCHANGED centerVars
Checks == Begins \/ Quiet \/ Remind \/ Ring \/ Reminded \/ Plan \/ LockPersons \/ Escalate \/ Skip \/ Finish

CenterNext == (\E t \in Clients : Serve(t)) \/ Elapse \/ Checks \/ Dies

CenterSpec == CenterInit /\ [][CenterNext]_allVars

\* Time passes; the check comes every 15 minutes, so it comes again and again
\* outside the quiet hours and is not cut down every time; a request that has
\* begun goes on.
CenterFairSpec ==
    /\ CenterSpec
    /\ \A t \in Clients : WF_allVars(Work(t) /\ UNCHANGED centerVars)
    /\ WF_allVars(Elapse) /\ WF_allVars(Checks)
    /\ SF_allVars(Begins) /\ SF_allVars(Plan) /\ SF_allVars(LockPersons)
    /\ SF_allVars(Escalate \/ Skip) /\ SF_allVars(Finish /\ check.renewed # {})

-----------------------------------------------------------------------------
(* Properties.                                                             *)

\* Every variable has its shape; the check's connection serves nothing else.
CenterTypeOK ==
    /\ TypeOK
    /\ pc[Checker] = "idle"
    /\ due \in [Item -> 0 .. 2]
    /\ warned \in [Item -> BOOLEAN]
    /\ check \in Check
    /\ check.phase = "idle" => check = NoCheck

\* Whoever joins a request is there when they join, and stays until then: a
\* removal that commits between the plan of an escalation and its commit takes
\* its person out of the plan, any other waits (requests.ts `lockPersons`).
AddedAreActive ==
    [][\A i \in Item, p \in Person :
         (item[i].status # "absent" /\ item[i].asg[p] = "none" /\ item'[i].asg[p] # "none")
             => p \notin archived']_allVars

\* While the check handles a request, the request waits for an answer and its
\* clock runs: the two branches of checkWorkItem for a request that is closed
\* or in progress, the second `again` of escalate and closeStalePaused find
\* nothing, because a change of the status cannot commit without the clock
\* row the check holds (request-clock.ts "so the clock and the status never
\* disagree").
CheckSeesTodo ==
    \A i \in check.over \union check.near \union ({check.cur} \ {0}) :
        item[i].status = "todo" /\ item[i].clock = "running"

\* Nobody is left to answer this request, though the chain has somebody.
Alone(i) ==
    /\ item[i].clock = "running" /\ Live(i) = {}
    /\ \E p \in Person \ archived : Level[p] \in 1 .. TopLevel /\ p # Giver[i]

\* A request whose last addressee was removed does not stay with nobody: once
\* no other request interferes, the check hands it to the chain (requests.ts
\* "Per open, RUNNING request ... ESCALATED").
NobodyLeftAlone ==
    \A i \in Requests : <>[](\A t \in Clients : pc[t] = "idle") => []<>~Alone(i)
=============================================================================
