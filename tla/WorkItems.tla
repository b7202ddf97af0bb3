----------------------------- MODULE WorkItems -----------------------------
(***************************************************************************)
(* The work items of the school ("kar"): src/src/modules/workspace/        *)
(* service.ts, and the removal of a person (iam/removal.ts) that takes     *)
(* them out of their open work.  Requests run as concurrent transactions   *)
(* at READ COMMITTED, so the model works at the grain the code argues at:  *)
(* one step per row lock, one step for what is read under the locks, one   *)
(* step for the commit.  Uncommitted writes are kept in `write` and shown  *)
(* to nobody before the commit.                                            *)
(*                                                                         *)
(* A transaction goes through the phases                                   *)
(*   people -> items -> refs -> ended                                      *)
(*   people  person rows: lockItemPeople / the recipients of a new item /  *)
(*           the removed person                                            *)
(*   items   work item rows, after that everything is read again           *)
(*   refs    rows the writes themselves lock: the persons a foreign key    *)
(*           names (transition, notification), the request's clock         *)
(***************************************************************************)
EXTENDS Integers, FiniteSets, RowLocks

CONSTANTS
    NPerson,    \* persons are 1 .. NPerson, in the order of their ids
    NItem,      \* work items are 1 .. NItem, in the order of their ids
    Tx,         \* the database connections requests run on
    Giver,      \* the creator of each item
    Requests,   \* the items of type admin_request; the others are tasks
    Reach,      \* the persons items are given to (class rosters, personReach)
    Broad,      \* holders of a broad workspace.work_item.update
    Remover,    \* who may remove colleagues and students ...
    Removable,  \* ... and who may be removed (planRemoval's guards)
    Reuse       \* does a connection serve another request after the first?

Person == 1 .. NPerson
Item == 1 .. NItem

ASSUME SizesAssumption == NPerson \in Nat /\ NItem \in Nat
ASSUME PeopleAssumption ==
    /\ Giver \in [Item -> Person]
    /\ Requests \subseteq Item
    /\ Reach \subseteq Person /\ Broad \subseteq Person
    /\ Remover \subseteq Person /\ Removable \subseteq Person
    /\ Reuse \in BOOLEAN

Status == {"todo", "doing", "done", "cancelled"}
Row == ({"person"} \X Person) \union ({"item", "clock"} \X Item)
Locks == Row \X Mode

\* A work item with the rows under it.  `asg` is each person's assignee row,
\* `inbox` their inbox entry (unread, read and pinned are all "live"),
\* `clock` the response clock of a request (workspace.request_sla), `text`
\* what an edit changes.
ItemRow ==
    [status : Status \union {"absent"},
     asg    : [Person -> {"none", "pending", "accepted", "done"}],
     inbox  : [Person -> {"none", "live", "archived"}],
     clock  : {"none", "running", "paused", "closed"},
     text   : {"first", "edited"}]

\* A request: what is asked, by whom, of which item; the status asked for; the
\* recipients of a new item, or the person to remove.
NoOp == [kind |-> "none", by |-> 0, item |-> 0, to |-> "none", who |-> {}]
Op ==
    {NoOp}
    \union [kind : {"create"}, by : Person, item : Item, to : {"none"}, who : SUBSET Person]
    \union [kind : {"change"}, by : Person, item : Item, to : Status, who : {{}}]
    \union [kind : {"edit"}, by : Person, item : Item, to : {"none"}, who : {{}}]
    \union [kind : {"remove"}, by : Person, item : {0}, to : {"none"}, who : {{p} : p \in Person}]

VARIABLES
    archived,   \* the persons whose status is 'archived'
    item,       \* committed work items
    pc, op,     \* each transaction's phase and request
    want, held, \* row locks it still has to take in this phase / it holds
    write       \* its uncommitted item rows

vars == <<archived, item, pc, op, want, held, write>>
dbVars == <<archived, item>>

Phase == {"idle", "people", "items", "refs", "ended"}
NoWrite == [i \in {} |-> NoOp]

AbsentItem ==
    [status |-> "absent", asg |-> [p \in Person |-> "none"],
     inbox |-> [p \in Person |-> "none"], clock |-> "none", text |-> "first"]

\* What insertWorkItem (with openRequestSla for a request) leaves behind.
NewItem(i, who) ==
    [status |-> "todo",
     asg    |-> [p \in Person |-> IF p \in who THEN "pending" ELSE "none"],
     inbox  |-> [p \in Person |-> IF p \in who \union {Giver[i]} THEN "live" ELSE "none"],
     clock  |-> IF i \in Requests THEN "running" ELSE "none",
     text   |-> "first"]

\* Whom an item may be given to: never nobody; a request goes to others.
Recipients(i) == {who \in SUBSET Reach : who # {} /\ (i \in Requests => Giver[i] \notin who)}

-----------------------------------------------------------------------------
(* What the code reads off an item.                                        *)

Open(row) == row.status \in {"todo", "doing"}
Assignees(row) == {p \in Person : row.asg[p] # "none"}
AllDone(asg) == \A p \in Person : asg[p] \in {"none", "done"}

\* (mutant of Unfinished: finished rows are taken out too)
Unfinished_anyState(row, i, p) == Open(row) /\ row.asg[p] # "none" /\ Giver[i] # p

\* An assignee row the removal of p takes out (withdrawRemovedAssignee).
Unfinished(row, i, p) ==
    /\ Open(row)
    /\ row.asg[p] \in {"pending", "accepted"}
    /\ Giver[i] # p

\* canViewWorkItem: the creator, anyone with an inbox entry, a broad reader
\* unless the item is confidential or the creator's own.
CanView(a, i) ==
    LET row == item[i] IN
    /\ row.status # "absent"
    /\ \/ a = Giver[i]
       \/ row.inbox[a] # "none"
       \/ a \in Broad /\ i \notin Requests /\ Assignees(row) # {Giver[i]}

\* managesItem: the giver, or a broad holder who is not an assignee.
Manages(a, i, row) == a = Giver[i] \/ (a \in Broad /\ row.asg[a] = "none")

\* (mutant of ItemPeople: nobody but the actor)
ItemPeople_actorOnly(a, i) == {a}

\* lockItemPeople: the actor, the assignees, a confidential item's creator.
ItemPeople(a, i) ==
    {a} \union Assignees(item[i]) \union (IF i \in Requests THEN {Giver[i]} ELSE {})

\* The open items a removal of p will lock (its first, unlocked read).
Candidates(p) == {i \in Item : Unfinished(item[i], i, p)}

\* (mutant of PersonLocks: every person row FOR UPDATE)
PersonLocks_update(who, mode) == {Lock(<<"person", p>>, "update") : p \in who}

PersonLocks(who, mode) == {Lock(<<"person", p>>, mode) : p \in who}
ItemLocks(which, mode) == {Lock(<<"item", i>>, mode) : i \in which}

-----------------------------------------------------------------------------
(* What the code writes.                                                   *)

\* (mutant of ClockAfter: a reopened request keeps its stopped clock)
ClockAfter_noResume(clock, to) ==
    IF clock \in {"none", "closed"} \/ to = "todo" THEN clock
    ELSE IF to = "doing" THEN "paused" ELSE "closed"

\* syncRequestClock: in progress stops a running clock, open runs it again,
\* an answer or a cancellation closes it for good.
ClockAfter(clock, to) ==
    CASE clock \in {"none", "closed"} -> clock
      [] to = "doing" -> "paused"
      [] to = "todo" -> "running"
      [] OTHER -> "closed"

\* setItemStatus.
SetStatus(row, to) == [row EXCEPT !.status = to, !.clock = ClockAfter(row.clock, to)]

\* (mutant of Gone: starting over keeps the removed persons who had finished)
Gone_finishedStay(row, i, to) ==
    {p \in archived : to \in {"todo", "doing"} /\ p # Giver[i] /\ row.asg[p] \in {"pending", "accepted"}}

\* withdrawArchivedAssignees: whom a manager's reopening takes out.
Gone(row, i, to) ==
    {p \in archived : /\ to \in {"todo", "doing"}
                      /\ p # Giver[i]
                      /\ row.asg[p] # "none"
                      /\ to = "todo" \/ row.asg[p] # "done"}

ManagerChange(row, i, to) ==
    LET gone == Gone(row, i, to)
        stays(p) == row.asg[p] # "none" /\ p \notin gone
        after(p) == CASE ~stays(p) -> "none"
                      [] stays(p) /\ to = "done" -> "done"
                      [] stays(p) /\ to = "todo" -> "pending"
                      [] OTHER -> row.asg[p]
    IN  [SetStatus(row, to) EXCEPT
            !.asg = [p \in Person |-> after(p)],
            !.inbox = [p \in Person |-> IF p \in gone THEN "archived" ELSE row.inbox[p]]]

\* (mutant of AssigneeChange: who is left to finish is read before the own row is marked)
AssigneeChange_readBefore(row, i, a, to) ==
    LET asg == [row.asg EXCEPT ![a] = IF to = "doing" THEN "accepted" ELSE "done"]
        follows == IF to = "doing" THEN row.status = "todo" ELSE i \in Requests \/ AllDone(row.asg)
    IN  [(IF follows THEN SetStatus(row, to) ELSE row) EXCEPT !.asg = asg]

\* An assignee's own "started" or "done": the item follows when it was not
\* started yet, when they were the last, or when one answer closes it.
AssigneeChange(row, i, a, to) ==
    LET asg == [row.asg EXCEPT ![a] = IF to = "doing" THEN "accepted" ELSE "done"]
        follows == IF to = "doing" THEN row.status = "todo" ELSE i \in Requests \/ AllDone(asg)
    IN  [(IF follows THEN SetStatus(row, to) ELSE row) EXCEPT !.asg = asg]

\* (mutant of Withdraw: the item stays open)
Withdraw_staysOpen(row, p) ==
    [row EXCEPT !.asg[p] = "none", !.inbox[p] = "archived"]

\* The removed person leaves the item; whoever is left may all have finished.
Withdraw(row, p) ==
    LET asg == [row.asg EXCEPT ![p] = "none"]
        flips == AllDone(asg) /\ \E q \in Person : asg[q] = "done"
    IN  [(IF flips THEN SetStatus(row, "done") ELSE row) EXCEPT
            !.asg = asg, !.inbox[p] = "archived"]

\* changeStatusCore's early returns, read under the item's lock.
ChangeAllowed(a, i, to) ==
    LET row == item[i] IN
    IF Manages(a, i, row)
    THEN row.status # to
    ELSE /\ Open(row)
         /\ \/ to = "doing" /\ row.asg[a] = "pending"
            \/ to = "done" /\ row.asg[a] \in {"pending", "accepted"}

ChangedItem(a, i, to) ==
    IF Manages(a, i, item[i]) THEN ManagerChange(item[i], i, to)
                              ELSE AssigneeChange(item[i], i, a, to)

-----------------------------------------------------------------------------
(* The start of a request: what it reads before its first lock.            *)

Begin(t, o, locks) ==
    /\ pc[t] = "idle"
    /\ pc' = [pc EXCEPT ![t] = "people"]
    /\ op' = [op EXCEPT ![t] = o]
    /\ want' = [want EXCEPT ![t] = locks]
    /\ UNCHANGED <<archived, item, held, write>>

\* createWorkItem / createConfidentialWorkItem: the active recipients.  An
\* item for oneself reads nobody.
BeginCreate(t) ==
    \E i \in Item : \E who \in Recipients(i) :
        /\ item[i].status = "absent"
        /\ Giver[i] \notin archived
        /\ who \intersect archived = {}
        /\ Begin(t, [kind |-> "create", by |-> Giver[i], item |-> i, to |-> "none", who |-> who],
                 IF who = {Giver[i]} THEN {} ELSE PersonLocks(who, "key_share"))

BeginChange(t) ==
    \E i \in Item, a \in Person \ archived, to \in Status :
        /\ CanView(a, i)
        /\ Begin(t, [kind |-> "change", by |-> a, item |-> i, to |-> to, who |-> {}],
                 PersonLocks(ItemPeople(a, i), "key_share"))

BeginEdit(t) ==
    \E i \in Item, a \in Person \ archived :
        /\ CanView(a, i)
        /\ Begin(t, [kind |-> "edit", by |-> a, item |-> i, to |-> "none", who |-> {}],
                 PersonLocks(ItemPeople(a, i), "key_share"))

\* removePerson: the person FOR UPDATE before anything else.
BeginRemove(t) ==
    \E a \in Remover \ archived, p \in Removable :
        /\ a # p
        /\ Begin(t, [kind |-> "remove", by |-> a, item |-> 0, to |-> "none", who |-> {p}],
                 PersonLocks({p}, "update"))

-----------------------------------------------------------------------------
(* Row locks.                                                              *)

Rank(row) == IF row[1] = "person" THEN row[2] ELSE NPerson + row[2]

\* (mutant of InTurn: several rows locked in whatever order the query yields)
InTurn_anyOrder(t, w) == TRUE

\* Rows are taken in ascending order; a class roster is read in the order of
\* names and foreign keys are checked in the order of the inserted rows, so
\* those two may come in any order.
InTurn(t, w) ==
    \/ pc[t] = "refs"
    \/ op[t].kind = "create"
    \/ \A v \in want[t] : Rank(w[1]) <= Rank(v[1])

Grantable(t, w) == \A u \in Tx \ {t} : ~Collides(held[u], w)

\* A recipient read FOR KEY SHARE whose removal committed while this read
\* waited: PostgreSQL re-checks status = 'active' and the row drops out.
DropsOut(t, w) ==
    /\ op[t].kind = "create" /\ pc[t] = "people"
    /\ w[1][2] \in archived

TakeLock(t) ==
    \E w \in want[t] :
        /\ InTurn(t, w) /\ Grantable(t, w) /\ ~DropsOut(t, w)
        /\ want' = [want EXCEPT ![t] = @ \ {w}]
        /\ held' = [held EXCEPT ![t] = @ \union {w}]
        /\ UNCHANGED <<archived, item, pc, op, write>>

DropRecipient(t) ==
    \E w \in want[t] :
        /\ InTurn(t, w) /\ Grantable(t, w) /\ DropsOut(t, w)
        /\ want' = [want EXCEPT ![t] = @ \ {w}]
        /\ op' = [op EXCEPT ![t].who = @ \ {w[1][2]}]
        /\ UNCHANGED <<archived, item, pc, held, write>>

\* The items of the request: the inserted row's own key, the one item, or
\* every open item of the removed person with the actor's row before them.
ItemPhaseLocks(t) ==
    LET o == op[t] IN
    CASE o.kind = "create" -> ItemLocks({o.item}, "update")
      [] o.kind \in {"change", "edit"} -> ItemLocks({o.item}, "no_key_update")
      [] o.kind = "remove" ->
            LET mine == UNION {Candidates(p) : p \in o.who} IN
            IF mine = {} THEN {}
            ELSE PersonLocks({o.by}, "key_share") \union ItemLocks(mine, "no_key_update")

LockItems(t) ==
    /\ pc[t] = "people" /\ want[t] = {}
    /\ pc' = [pc EXCEPT ![t] = "items"]
    /\ want' = [want EXCEPT ![t] = ItemPhaseLocks(t)]
    /\ UNCHANGED <<archived, item, op, held, write>>

-----------------------------------------------------------------------------
(* The decision, on what is committed now, under the locks.                *)

\* (mutant of Allowed: an edit checks that the item is open before its lock only)
Allowed_editUnchecked(t) ==
    LET o == op[t] IN
    CASE o.kind = "create" -> item[o.item].status = "absent" /\ o.who # {}
      [] o.kind = "change" -> ChangeAllowed(o.by, o.item, o.to)
      [] o.kind = "edit"   -> Manages(o.by, o.item, item[o.item])
      [] o.kind = "remove" -> TRUE

Allowed(t) ==
    LET o == op[t] IN
    CASE o.kind = "create" -> item[o.item].status = "absent" /\ o.who # {}
      [] o.kind = "change" -> ChangeAllowed(o.by, o.item, o.to)
      [] o.kind = "edit"   -> Manages(o.by, o.item, item[o.item]) /\ Open(item[o.item])
      [] o.kind = "remove" -> TRUE

\* The items of the removed person that are still theirs to be taken out of.
StillOpen(t) ==
    {i \in Item : Lock(<<"item", i>>, "no_key_update") \in held[t]
                  /\ \E p \in op[t].who : Unfinished(item[i], i, p)}

Written(t) ==
    LET o == op[t] IN
    CASE o.kind = "create" -> [i \in {o.item} |-> NewItem(i, o.who)]
      [] o.kind = "change" -> [i \in {o.item} |-> ChangedItem(o.by, i, o.to)]
      [] o.kind = "edit"   -> [i \in {o.item} |-> [item[i] EXCEPT !.text = "edited"]]
      [] o.kind = "remove" -> [i \in StillOpen(t) |-> Withdraw(item[i], CHOOSE p \in o.who : TRUE)]

\* The persons the writes reference by a foreign key: the item's creator and
\* recipients, the transition's actor, the notified assignees, the counselor
\* who hears of an answer.
Referenced(t, after) ==
    LET o == op[t] IN
    CASE o.kind = "create" -> {o.by} \union o.who
      [] o.kind = "change" ->
            {o.by} \union (IF Manages(o.by, o.item, item[o.item]) THEN Assignees(after[o.item])
                           ELSE IF o.item \in Requests THEN {Giver[o.item]} ELSE {})
      [] o.kind = "edit"   -> Assignees(after[o.item])
      [] o.kind = "remove" -> IF DOMAIN after = {} THEN {} ELSE {o.by}

\* (mutant of Clocks: the clock is set without its row's lock)
Clocks_unlocked(after) == {}

\* The clock rows the status changes update.
Clocks(after) ==
    {Lock(<<"clock", i>>, "no_key_update") :
        i \in {j \in DOMAIN after : after[j].clock # item[j].clock}}

\* A lock on a row this transaction already holds is granted at once.
Refs(t, after) ==
    {w \in PersonLocks(Referenced(t, after), "key_share") : \A m \in Mode : <<w[1], m>> \notin held[t]}
    \union Clocks(after)

Decide(t) ==
    /\ pc[t] = "items" /\ want[t] = {} /\ Allowed(t)
    /\ pc' = [pc EXCEPT ![t] = "refs"]
    /\ write' = [write EXCEPT ![t] = Written(t)]
    /\ want' = [want EXCEPT ![t] = Refs(t, Written(t))]
    /\ UNCHANGED <<archived, item, op, held>>

-----------------------------------------------------------------------------
(* The end of a transaction.                                               *)

End(t) ==
    /\ pc' = [pc EXCEPT ![t] = IF Reuse THEN "idle" ELSE "ended"]
    /\ op' = [op EXCEPT ![t] = NoOp]
    /\ want' = [want EXCEPT ![t] = {}]
    /\ held' = [held EXCEPT ![t] = {}]
    /\ write' = [write EXCEPT ![t] = NoWrite]

Commit(t) ==
    /\ pc[t] = "refs" /\ want[t] = {}
    /\ item' = [i \in Item |-> IF i \in DOMAIN write[t] THEN write[t][i] ELSE item[i]]
    /\ archived' = IF op[t].kind = "remove" THEN archived \union op[t].who ELSE archived
    /\ End(t)

\* A refused request (AppError) rolls back.
Refuse(t) ==
    /\ pc[t] = "items" /\ want[t] = {} /\ ~Allowed(t)
    /\ End(t) /\ UNCHANGED dbVars

\* A statement timeout, a lost connection, the victim of a deadlock, or a
\* named recipient who dropped out: rolled back at any point.
Abort(t) ==
    /\ pc[t] \in {"people", "items", "refs"}
    /\ End(t) /\ UNCHANGED dbVars

-----------------------------------------------------------------------------
\* Work begins on a database whose items are not written yet, or as
\* insertWorkItem wrote them.
Init ==
    /\ archived = {}
    /\ item \in [Item -> {AbsentItem} \union UNION {{NewItem(i, who) : who \in Recipients(i)} : i \in Item}]
    /\ \A i \in Item : item[i] = AbsentItem \/ \E who \in Recipients(i) : item[i] = NewItem(i, who)
    /\ pc = [t \in Tx |-> "idle"]
    /\ op = [t \in Tx |-> NoOp]
    /\ want = [t \in Tx |-> {}]
    /\ held = [t \in Tx |-> {}]
    /\ write = [t \in Tx |-> NoWrite]

Start(t) == BeginCreate(t) \/ BeginChange(t) \/ BeginEdit(t) \/ BeginRemove(t)
Work(t) == TakeLock(t) \/ DropRecipient(t) \/ LockItems(t) \/ Decide(t) \/ Refuse(t) \/ Commit(t)

Next == \E t \in Tx : Start(t) \/ Work(t) \/ Abort(t)

Spec == Init /\ [][Next]_vars

\* A started transaction that can go on goes on; requests may never come and
\* nothing has to fail.
FairSpec == Spec /\ \A t \in Tx : WF_vars(Work(t))

-----------------------------------------------------------------------------
(* Properties.                                                             *)

\* Every variable has its shape; a transaction has a request while it is busy.
TypeOK ==
    /\ archived \subseteq Person
    /\ item \in [Item -> ItemRow]
    /\ pc \in [Tx -> Phase]
    /\ op \in [Tx -> Op]
    /\ \A t \in Tx : op[t] = NoOp <=> pc[t] \in {"idle", "ended"}
    /\ want \in [Tx -> SUBSET Locks]
    /\ held \in [Tx -> SUBSET Locks]
    /\ write = [t \in Tx |-> write[t]]
    /\ \A t \in Tx : /\ DOMAIN write[t] \subseteq Item
                    /\ write[t] \in [DOMAIN write[t] -> ItemRow]

\* A removed person never counts on an open item somebody else gave: their
\* unfinished assignee row is gone whichever of the removal, a new item, a
\* reopening or an answer commits first (iam/removal.ts "Concurrency",
\* withdrawArchivedAssignees).
RemovedNotCounted ==
    \A i \in Item, p \in archived : ~Unfinished(item[i], i, p)

\* A task that is done has nobody left to finish, and one that is not started
\* has nobody who started and, when it has assignees, somebody still to finish
\* - also when the last unfinished assignee is removed while the others finish.
\* A task in progress or cancelled may have any assignees: the giver may set it
\* to either whatever they did (changeStatusCore's manager path).
StatusFollowsAssignees ==
    \A i \in Item \ Requests :
        LET row == item[i] IN
        /\ row.status = "done" => AllDone(row.asg)
        /\ row.status = "todo" =>
              /\ \A p \in Person : row.asg[p] # "accepted"
              /\ Assignees(row) # {} => ~AllDone(row.asg)

\* Whichever of the last two assignees finishes second, or is removed while the
\* other finishes, started or not: the write after which an open task has
\* assignees and none left to finish closes it (changeStatusCore's `remaining`,
\* withdrawRemovedAssignee's completion).
LastFinishCloses ==
    [][\A i \in Item \ Requests :
         (/\ Open(item[i]) /\ ~AllDone(item[i].asg)
          /\ AllDone(item'[i].asg) /\ Assignees(item'[i]) # {}) => ~Open(item'[i])]_item

\* The response clock of a request never counts while the request is being
\* worked on or closed, and never stands still while it waits - unless it was
\* closed by an earlier answer (request-clock.ts, on every path that changes
\* the status, the removal's completion included).
ClockFollowsStatus ==
    \A i \in Requests :
        CASE item[i].status = "todo"  -> item[i].clock \in {"running", "closed"}
          [] item[i].status = "doing" -> item[i].clock \in {"paused", "closed"}
          [] item[i].status = "absent" -> item[i].clock = "none"
          [] OTHER -> item[i].clock = "closed"

\* Whoever is taken off an item no longer has it in their inbox, and whoever
\* still has it to do does: the inbox row and the assignee row change together.
InboxFollowsWork ==
    \A i \in Item, p \in Person :
        p # Giver[i] => (item[i].inbox[p] = "live") = (item[i].asg[p] # "none")

\* An edit never lands on an item that was closed while the edit waited
\* (lockWorkItem's comment).
ClosedItemNotEdited ==
    [][\A i \in Item : item'[i].text # item[i].text => Open(item[i])]_item

\* What an assignee finished stays on record: only starting the item over
\* takes a finished row back or out (a removal withdraws unfinished rows only,
\* read again under the item's lock).
FinishedStaysFinished ==
    [][\A i \in Item, p \in Person :
         (item[i].asg[p] = "done" /\ item'[i].asg[p] # "done") => item'[i].status = "todo"]_item

\* Transaction t may be waiting for a lock that u holds.
Waits(t, u) == u # t /\ \E w \in want[t] : InTurn(t, w) /\ Collides(held[u], w)

\* "Lock order - the same in every transaction, so none waits on another in a
\* circle" (iam/removal.ts).
NoCircularWait ==
    \A S \in (SUBSET Tx) \ {{}} : \E t \in S : \A u \in S : ~Waits(t, u)

\* lockItemPeople covers every person a write on an existing item references:
\* such a transaction, or a removal, asks for no person row once it holds an
\* item ("nothing locks a work item and then a person").
RecipientsLockedFirst ==
    \A t \in Tx :
        (pc[t] = "refs" /\ op[t].kind # "create") => \A w \in want[t] : w[1][1] # "person"

-----------------------------------------------------------------------------
(* Why a removed person is never counted: what the locks guarantee.        *)

\* No two transactions hold conflicting locks.
LocksExclude ==
    \A t, u \in Tx : t # u => \A w \in held[t] : ~Collides(held[u], w)

Share(p) == Lock(<<"person", p>>, "key_share")
Asked(t) == want[t] \union held[t]

HoldsItem(t, i) ==
    Lock(<<"item", i>>, "no_key_update") \in held[t] \/ Lock(<<"item", i>>, "update") \in held[t]

\* Whoever writes an item has its row.
WritersHoldItem ==
    \A t \in Tx :
        /\ \A i \in DOMAIN write[t] : HoldsItem(t, i)
        /\ pc[t] = "items" /\ op[t].kind = "create" =>
              Lock(<<"item", op[t].item>>, "update") \in Asked(t)
        /\ pc[t] = "items" /\ op[t].kind \in {"change", "edit"} =>
              Lock(<<"item", op[t].item>>, "no_key_update") \in Asked(t)

\* A write on an existing item has asked for every assignee's person row
\* before the item's, and holds them all once it has the item.
PeopleCovered ==
    \A t \in Tx : op[t].kind \in {"change", "edit"} =>
        LET people == {op[t].by} \union Assignees(item[op[t].item])
                        \union (IF op[t].item \in Requests THEN {Giver[op[t].item]} ELSE {})
        IN  /\ item[op[t].item].status # "absent"
            /\ pc[t] \in {"people", "items", "refs"}
            /\ \A p \in people : Share(p) \in (IF pc[t] = "people" THEN Asked(t) ELSE held[t])

\* A recipient of a new item who is locked is still there.
RecipientsCovered ==
    \A t \in Tx : op[t].kind = "create" =>
        /\ pc[t] \in {"people", "items", "refs"}
        /\ op[t].by = Giver[op[t].item]
        /\ \A p \in op[t].who \ {op[t].by} :
              \/ pc[t] = "people" /\ Share(p) \in want[t]
              \/ Share(p) \in held[t] /\ p \notin archived

\* A removal holds its person, and knows every open item they have to finish,
\* from its first read of them to its commit: nothing is added to the list
\* behind its back, and nobody but itself can clear it.
RemovalSeesAll ==
    \A t \in Tx : op[t].kind = "remove" =>
        \E p \in Person :
            /\ op[t].who = {p}
            /\ pc[t] \in {"people", "items", "refs"}
            /\ Lock(<<"person", p>>, "update") \in (IF pc[t] = "people" THEN Asked(t) ELSE held[t])
            /\ pc[t] = "items" =>
                 \A i \in Item : Unfinished(item[i], i, p) =>
                                    Lock(<<"item", i>>, "no_key_update") \in Asked(t)
            /\ pc[t] = "refs" =>
                 /\ \A i \in Item : Unfinished(item[i], i, p) => i \in DOMAIN write[t]
                 /\ \A i \in DOMAIN write[t] : write[t][i] = Withdraw(item[i], p)

\* What is about to be written gives unfinished work only to persons who are
\* still there and cannot leave before the commit, and adds nobody to an
\* existing item.
WritesAreSafe ==
    \A t \in Tx : pc[t] = "refs" => \A i \in DOMAIN write[t] :
        /\ write[t][i].status # "absent"
        /\ op[t].kind # "remove" =>
             \A p \in Person : Unfinished(write[t][i], i, p) => Share(p) \in held[t] /\ p \notin archived
        /\ IF op[t].kind = "create" THEN item[i].status = "absent"
                                    ELSE Assignees(write[t][i]) \subseteq Assignees(item[i])

LockDiscipline ==
    /\ LocksExclude
    /\ WritersHoldItem
    /\ PeopleCovered
    /\ RecipientsCovered
    /\ RemovalSeesAll
    /\ WritesAreSafe

-----------------------------------------------------------------------------
\* Every request ends, committed or refused, without a deadlock victim.
EveryRequestEnds ==
    \A t \in Tx : pc[t] # "idle" ~> pc[t] \in {"idle", "ended"}
=============================================================================
