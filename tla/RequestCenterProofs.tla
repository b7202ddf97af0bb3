------------------------ MODULE RequestCenterProofs ------------------------
(***************************************************************************)
(* Theorems about RequestCenter, for any persons, items, connections and   *)
(* levels: the check handles open requests only, whoever it adds is still  *)
(* there when it commits, and the clock follows the status while the check *)
(* escalates.                                                              *)
(*                                                                         *)
(* The discipline of WorkItems does not hold here as it stands: the check  *)
(* adds an assignee behind the back of whoever locked an item's people     *)
(* before (run center_removed).  What remains of it is said again of each  *)
(* connection (`Clear`), and the rest is what the check's own locks give   *)
(* (`CheckClear`).                                                         *)
(***************************************************************************)
EXTENDS RequestCenter, WorkItemsProofs

Watched == check.over \union check.near \union ({check.cur} \ {0})

Rows == \A i \in Item : RowFollows(i, item[i])

\* What a request's connection knows of the item it is about to write.
WriteClear(t, i) ==
    /\ pc[t] = "refs"
    /\ RowFollows(i, write[t][i]) /\ write[t][i].status # "absent"
    /\ IF op[t].kind = "create" THEN item[i].status = "absent"
                                ELSE Assignees(write[t][i]) \subseteq Assignees(item[i])
    /\ write[t][i].clock # item[i].clock => Lock(<<"clock", i>>, "no_key_update") \in Asked(t)

Clear(t) ==
    /\ op[t].kind \in {"change", "edit"} => item[op[t].item].status # "absent"
    /\ op[t].kind = "remove" =>
         \A p \in op[t].who :
            Lock(<<"person", p>>, "update") \in (IF pc[t] = "people" THEN Asked(t) ELSE held[t])
    /\ \A i \in DOMAIN write[t] : WriteClear(t, i)

\* Whom an escalation is about to add.
Joins(i, p) == write[Checker][i].asg[p] # "none" /\ item[i].asg[p] = "none"

\* The check holds the clock of every row it still handles, and the person row
\* of everybody it has added.
CheckClear ==
    /\ Watched \subseteq Requests
    /\ check.phase \in {"bells", "planned", "persons"} => check.cur \in Watched
    /\ \A i \in Watched : ClockLock(i) \in held[Checker] /\ item[i].clock = "running"
    /\ check.phase = "idle" => write[Checker] = NoWrite
    /\ check.phase # "bells" => want[Checker] = {}
    /\ \A i \in DOMAIN write[Checker] :
         /\ RowFollows(i, write[Checker][i]) /\ write[Checker][i].status # "absent"
         /\ \A p \in Person : Joins(i, p) => p \notin archived /\ Share(p) \in held[Checker]

CInv ==
    /\ CenterTypeOK
    /\ LocksExclude /\ WritersHoldItem
    /\ Rows
    /\ \A t \in Clients : Clear(t)
    /\ CheckClear

-----------------------------------------------------------------------------
(* The other connections.                                                  *)

\* A request of the center is one of WorkItems.
LEMMA ServeIsNext ==
    ASSUME NEW t \in Clients, Serve(t)
    PROVE  /\ t \in Tx /\ t # Checker
           /\ Start(t) \/ Work(t) \/ Abort(t)
           /\ [Next]_vars /\ due' = due /\ warned' = warned /\ check' = check
BY DEF Serve, Clients, Next, Start, centerVars

\* What a request's step does to the committed rows.
LEMMA ServeFacts ==
    ASSUME TypeOK, NEW t \in Tx, Start(t) \/ Work(t) \/ Abort(t)
    PROVE  /\ \A i \in Item : \/ item'[i] = item[i]
                              \/ Commit(t) /\ i \in DOMAIN write[t] /\ item'[i] = write[t][i]
           /\ Commit(t) => pc[t] = "refs" /\ want[t] = {}
           /\ archived' = archived \/ (Commit(t) /\ op[t].kind = "remove"
                                       /\ archived' = archived \union op[t].who)
<1>1. CASE Commit(t)
  <2>1. item' = [i \in Item |-> IF i \in DOMAIN write[t] THEN write[t][i] ELSE item[i]]
    BY <1>1, CommitItemType
  <2> QED BY <1>1, <2>1 DEF Commit
<1>2. CASE ~Commit(t)
  BY <1>2, OnlyCommitsWrite
<1> QED BY <1>1, <1>2

\* A status change keeps the assignees it has, or loses some.
LEMMA ChangeKeeps ==
    ASSUME TypeOK, NEW i \in Item, NEW a \in Person, NEW to \in Status,
           item[i].status # "absent", ChangeAllowed(a, i, to)
    PROVE  /\ ChangedItem(a, i, to).status # "absent"
           /\ Assignees(ChangedItem(a, i, to)) \subseteq Assignees(item[i])
<1>0. item[i] \in ItemRow /\ item[i].asg \in [Person -> {"none", "pending", "accepted", "done"}]
  BY DEF TypeOK, ItemRow
<1>1. CASE Manages(a, i, item[i])
  <2> DEFINE row == ManagerChange(item[i], i, to)
  <2>1. /\ row.status = to
        /\ \A p \in Person : item[i].asg[p] = "none" => row.asg[p] = "none"
    BY <1>0, ManagerChangeType
  <2> HIDE DEF row
  <2>2. row.status # "absent" /\ Assignees(row) \subseteq Assignees(item[i])
    BY <2>1 DEF Assignees, Status
  <2> QED BY <1>1, <2>2 DEF ChangedItem, row
<1>2. CASE ~Manages(a, i, item[i])
  <2>1. to \in {"doing", "done"} /\ item[i].asg[a] \in {"pending", "accepted"}
    BY <1>2 DEF ChangeAllowed
  <2> DEFINE row == AssigneeChange(item[i], i, a, to)
  <2>2. /\ row.status \in {item[i].status, to}
        /\ \A q \in Person : q # a => row.asg[q] = item[i].asg[q]
    BY <1>0, <2>1, AssigneeChangeType
  <2> HIDE DEF row
  <2>3. row.status # "absent" /\ Assignees(row) \subseteq Assignees(item[i])
    BY <2>1, <2>2 DEF Assignees
  <2> QED BY <1>2, <2>3 DEF ChangedItem, row
<1> QED BY <1>1, <1>2

\* What is decided under the item's lock.
LEMMA DecidedClear ==
    ASSUME TypeOK, Rows, NEW t \in Tx, Decide(t), Clear(t), NEW i \in DOMAIN Written(t)
    PROVE  /\ RowFollows(i, Written(t)[i]) /\ Written(t)[i].status # "absent"
           /\ IF op[t].kind = "create" THEN item[i].status = "absent"
                                       ELSE Assignees(Written(t)[i]) \subseteq Assignees(item[i])
           /\ Written(t)[i].clock # item[i].clock =>
                Lock(<<"clock", i>>, "no_key_update") \in Refs(t, Written(t))
<1> DEFINE o == op[t]
<1>0. pc[t] = "items" /\ Allowed(t)
  BY PhaseFacts
<1>1. /\ o.kind \in {"create", "change", "edit", "remove"}
      /\ o.by \in Person /\ o.who \in SUBSET Person
      /\ o.kind \in {"create", "change", "edit"} => o.item \in Item
      /\ o.kind = "change" => o.to \in Status
      /\ \A j \in Item : item[j] \in ItemRow
  BY <1>0, OpCases DEF TypeOK
<1>2. RowFollows(i, Written(t)[i])
  BY WrittenFollows DEF Rows, Clear
<1>3. Written(t)[i].clock # item[i].clock =>
        Lock(<<"clock", i>>, "no_key_update") \in Refs(t, Written(t))
  BY DEF Refs, Clocks
<1>4. CASE o.kind = "create"
  <2>1. i = o.item /\ Written(t)[i] = NewItem(i, o.who) /\ item[i].status = "absent"
    BY <1>0, <1>4 DEF Written, Allowed
  <2> QED BY <1>2, <1>3, <1>4, <2>1 DEF NewItem
<1>5. CASE o.kind = "change"
  <2>1. i = o.item /\ Written(t)[i] = ChangedItem(o.by, i, o.to) /\ ChangeAllowed(o.by, i, o.to)
    BY <1>0, <1>5 DEF Written, Allowed
  <2>2. item[i].status # "absent"
    BY <1>5, <2>1 DEF Clear
  <2> QED BY <1>1, <1>2, <1>3, <1>5, <2>1, <2>2, ChangeKeeps
<1>6. CASE o.kind = "edit"
  <2>1. i = o.item /\ Written(t)[i] = [item[i] EXCEPT !.text = "edited"]
    BY <1>6 DEF Written
  <2>2. Written(t)[i].status = item[i].status /\ Written(t)[i].asg = item[i].asg
    BY <1>1, <1>6, <2>1 DEF ItemRow
  <2>3. item[i].status # "absent"
    BY <1>6, <2>1 DEF Clear
  <2> QED BY <1>2, <1>3, <1>6, <2>2, <2>3 DEF Assignees
<1>7. CASE o.kind = "remove"
  <2>1. PICK p \in Person : o.who = {p}
    BY <1>0, <1>7, OpCases
  <2>2. i \in StillOpen(t) /\ Written(t)[i] = Withdraw(item[i], p)
    BY <1>7, <2>1 DEF Written
  <2>3. i \in Item /\ item[i].status # "absent"
    BY <2>2 DEF StillOpen, Unfinished, Open
  <2> QED BY <1>1, <1>2, <1>3, <1>7, <2>2, <2>3, WithdrawType, WithdrawFacts
<1> QED BY <1>1, <1>4, <1>5, <1>6, <1>7

\* The connection that makes the step.
LEMMA OwnClear ==
    ASSUME CInv, NEW t \in Clients, Serve(t)
    PROVE  Clear(t)'
<1>0. /\ TypeOK /\ Rows /\ Clear(t) /\ t \in Tx
      /\ Start(t) \/ Work(t) \/ Abort(t)
  BY ServeIsNext DEF CInv, CenterTypeOK
<1>1. CASE Start(t)
  <2>1. /\ pc[t] = "idle" /\ pc'[t] = "people" /\ UNCHANGED <<item, held, write>>
    BY <1>0, <1>1, StartFacts
  <2>2. DOMAIN write'[t] = {}
    BY <1>0, <2>1 DEF Clear, WriteClear
  <2>3. \/ op'[t].kind = "create"
        \/ op'[t].kind \in {"change", "edit"} /\ item[op'[t].item].status # "absent"
        \/ \E p \in Person : /\ op'[t].kind = "remove" /\ op'[t].who = {p}
                             /\ Lock(<<"person", p>>, "update") \in want'[t]
    BY <1>0, <1>1, StartFacts
  <2> QED BY <2>1, <2>2, <2>3 DEF Clear, Asked
<1>2. CASE TakeLock(t)
  <2>1. UNCHANGED <<archived, item, pc, op, write>> /\ Asked(t)' = Asked(t) /\ held[t] \subseteq held'[t]
    BY <1>0, <1>2, TakeLockFacts
  <2> QED BY <1>0, <2>1 DEF Clear, WriteClear, RowFollows, ClockFollows, StatusFollows, InboxFollows, Assignees
<1>3. CASE DropRecipient(t)
  <2>1. op'[t].kind = "create" /\ pc[t] = "people" /\ write' = write
    BY <1>0, <1>3, DropFacts
  <2> QED BY <1>0, <2>1 DEF Clear, WriteClear
<1>4. CASE LockItems(t)
  <2>1. /\ pc[t] = "people" /\ want[t] = {} /\ pc'[t] = "items"
        /\ UNCHANGED <<archived, item, op, held, write>>
    BY <1>0, <1>4, PhaseFacts
  <2> QED BY <1>0, <2>1 DEF Clear, WriteClear, Asked
<1>5. CASE Decide(t)
  <2>1. /\ pc[t] = "items" /\ pc'[t] = "refs" /\ UNCHANGED <<archived, item, op, held>>
        /\ write'[t] = Written(t) /\ want'[t] = Refs(t, Written(t))
    BY <1>0, <1>5, PhaseFacts
  <2>2. ASSUME NEW i \in DOMAIN Written(t) PROVE WriteClear(t, i)'
    <3>1. /\ RowFollows(i, Written(t)[i]) /\ Written(t)[i].status # "absent"
          /\ IF op[t].kind = "create" THEN item[i].status = "absent"
                                      ELSE Assignees(Written(t)[i]) \subseteq Assignees(item[i])
          /\ Written(t)[i].clock # item[i].clock =>
               Lock(<<"clock", i>>, "no_key_update") \in Refs(t, Written(t))
      BY <1>0, <1>5, <2>2, DecidedClear
    <3> QED BY <2>1, <3>1
            DEF WriteClear, RowFollows, ClockFollows, StatusFollows, InboxFollows, Assignees, Asked
  <2> QED BY <1>0, <2>1, <2>2 DEF Clear
<1>6. CASE End(t)
  BY <1>0, <1>6, EndFacts DEF Clear, NoOp
<1> QED BY <1>0, <1>1, <1>2, <1>3, <1>4, <1>5, <1>6 DEF Work, Refuse, Commit, Abort

\* An item two transactions hold is held by one.
LEMMA NotBoth ==
    ASSUME CInv, NEW t \in Tx, NEW u \in Tx, t # u, NEW i \in DOMAIN write[t]
    PROVE  i \in Item /\ i \notin DOMAIN write[u]
BY OneHolder DEF CInv, CenterTypeOK, TypeOK, WritersHoldItem

\* Another request's step leaves what a connection knows of its items alone.
LEMMA OtherClear ==
    ASSUME CInv, NEW t \in Clients, Serve(t), NEW u \in Clients, u # t
    PROVE  Clear(u)'
<1>0. /\ TypeOK /\ Clear(u) /\ Clear(t) /\ t \in Tx /\ u \in Tx
      /\ Start(t) \/ Work(t) \/ Abort(t)
  BY ServeIsNext DEF CInv, CenterTypeOK, Clients
<1>1. /\ pc'[u] = pc[u] /\ op'[u] = op[u] /\ want'[u] = want[u]
      /\ held'[u] = held[u] /\ write'[u] = write[u]
  BY <1>0, OthersUnchanged
<1>2. \A i \in Item : item[i].status # "absent" => item'[i].status # "absent"
  BY <1>0, ServeFacts DEF Clear, WriteClear
<1>3. op[u].kind \in {"change", "edit"} => op[u].item \in Item
  BY <1>0 DEF TypeOK, Op, NoOp
<1>4. \A i \in DOMAIN write[u] : item'[i] = item[i]
  BY <1>0, ServeFacts, NotBoth
<1>5. ASSUME NEW i \in DOMAIN write[u] PROVE WriteClear(u, i)'
  <2>1. WriteClear(u, i)
    BY <1>0 DEF Clear
  <2>2. item'[i] = item[i] /\ write'[u][i] = write[u][i] /\ Asked(u)' = Asked(u)
    BY <1>1, <1>4 DEF Asked
  <2>3. RowFollows(i, write[u][i])'
    BY <2>1, <2>2 DEF WriteClear, RowFollows, ClockFollows, StatusFollows, InboxFollows, Assignees
  <2> QED BY <1>1, <2>1, <2>2, <2>3 DEF WriteClear, Assignees
<1> QED BY <1>0, <1>1, <1>2, <1>3, <1>5 DEF Clear, Asked

\* The clock rows the check holds keep the requests it handles as they are; the
\* persons it holds stay.
LEMMA ServeLeavesCheck ==
    ASSUME CInv, NEW t \in Clients, Serve(t)
    PROVE  CheckClear'
<1>0. /\ TypeOK /\ LocksExclude /\ CheckClear /\ Clear(t) /\ t \in Tx /\ t # Checker /\ Checker \in Tx
      /\ Start(t) \/ Work(t) \/ Abort(t)
      /\ check' = check /\ Watched' = Watched
  BY ServeIsNext, CheckerAssumption DEF CInv, CenterTypeOK, Watched
<1>1. held'[Checker] = held[Checker] /\ write'[Checker] = write[Checker] /\ want'[Checker] = want[Checker]
  BY <1>0, OthersUnchanged
<1>2. ASSUME NEW i \in Watched PROVE item'[i].clock = "running"
  <2>1. i \in Item /\ item[i].clock = "running" /\ ClockLock(i) \in held[Checker]
    BY <1>0, PeopleAssumption DEF CheckClear
  <2>2. CASE item'[i] = item[i]
    BY <2>1, <2>2
  <2>3. CASE Commit(t) /\ i \in DOMAIN write[t] /\ item'[i] = write[t][i]
    <3>1. want[t] = {} /\ WriteClear(t, i)
      BY <1>0, <2>3, ServeFacts DEF Clear
    <3>2. Lock(<<"clock", i>>, "no_key_update") \notin held[t]
      BY <1>0, <2>1 DEF LocksExclude, ClockLock, Lock, Collides, ConflictsWith
    <3> QED BY <2>1, <2>3, <3>1, <3>2 DEF WriteClear, Asked
  <2> QED BY <1>0, <2>1, <2>2, <2>3, ServeFacts
<1>3. ASSUME NEW i \in DOMAIN write[Checker]
      PROVE  item'[i] = item[i]
  BY <1>0, ServeFacts, NotBoth
<1>4. ASSUME NEW p \in Person, p \notin archived, Share(p) \in held[Checker]
      PROVE  p \notin archived'
  <2>1. CASE archived' = archived
    BY <1>4, <2>1
  <2>2. CASE Commit(t) /\ op[t].kind = "remove" /\ archived' = archived \union op[t].who
    <3>1. p \in op[t].who => Lock(<<"person", p>>, "update") \in held[t]
      BY <1>0, <2>2, ServeFacts DEF Clear
    <3> QED BY <1>0, <1>4, <2>2, <3>1, ShareExcludesRemoval
  <2> QED BY <1>0, <2>1, <2>2, ServeFacts
<1>5. ASSUME NEW i \in DOMAIN write[Checker]
      PROVE  /\ RowFollows(i, write[Checker][i]) /\ write[Checker][i].status # "absent"
             /\ \A p \in Person : Joins(i, p)' => p \notin archived' /\ Share(p) \in held'[Checker]
  BY <1>0, <1>1, <1>3, <1>4, <1>5 DEF CheckClear, Joins
<1>6. \A i \in DOMAIN write[Checker] : RowFollows(i, write[Checker][i])'
  BY <1>1, <1>5 DEF RowFollows, ClockFollows, StatusFollows, InboxFollows, Assignees
<1>7. ASSUME NEW i \in DOMAIN write'[Checker]
      PROVE  /\ RowFollows(i, write[Checker][i])' /\ write'[Checker][i].status # "absent"
             /\ \A p \in Person : Joins(i, p)' => p \notin archived' /\ Share(p) \in held'[Checker]
  BY <1>1, <1>5, <1>6
<1>8. /\ Watched' \subseteq Requests
      /\ check'.phase \in {"bells", "planned", "persons"} => check'.cur \in Watched'
      /\ \A i \in Watched' : ClockLock(i) \in held'[Checker] /\ item'[i].clock = "running"
      /\ check'.phase = "idle" => write'[Checker] = NoWrite
      /\ check'.phase # "bells" => want'[Checker] = {}
  BY <1>0, <1>1, <1>2 DEF CheckClear
<1> QED BY <1>7, <1>8 DEF CheckClear, Share, ClockLock, NoWrite, Lock

LEMMA ServeStep ==
    ASSUME CInv, NEW t \in Clients, Serve(t)
    PROVE  CInv'
<1>0. /\ CenterTypeOK /\ TypeOK /\ LocksExclude /\ WritersHoldItem /\ Rows
      /\ t \in Tx /\ t # Checker /\ Checker \in Tx
      /\ Start(t) \/ Work(t) \/ Abort(t)
      /\ [Next]_vars /\ due' = due /\ warned' = warned /\ check' = check
  BY ServeIsNext, CheckerAssumption DEF CInv, CenterTypeOK
<1>1. CenterTypeOK'
  <2>1. TypeOK' BY <1>0, TypeStep
  <2>2. pc'[Checker] = pc[Checker] BY <1>0, OthersUnchanged
  <2> QED BY <1>0, <2>1, <2>2 DEF CenterTypeOK, Check, NoCheck
<1>2. LocksExclude' BY <1>0, LocksExcludeStep
<1>3. WritersHoldItem' BY <1>0, WritersHoldItemStep
<1>4. Rows'
  <2>1. \A i \in Item : RowFollows(i, item'[i])
    BY <1>0, ServeFacts DEF CInv, Rows, Clear, WriteClear
  <2> QED BY <2>1 DEF Rows, RowFollows, ClockFollows, StatusFollows, InboxFollows, Assignees
<1>5. \A u \in Clients : Clear(u)'
  BY OwnClear, OtherClear
<1>6. CheckClear' BY ServeLeavesCheck
<1> QED BY <1>1, <1>2, <1>3, <1>4, <1>5, <1>6 DEF CInv, Clients

-----------------------------------------------------------------------------
(* The check's own steps.                                                  *)

LEMMA ReadsOnly ==
    ASSUME Quiet \/ Reminded \/ Plan \/ Skip
    PROVE  UNCHANGED <<archived, item, pc, op, want, held, write>>
<1>1. CASE Quiet
  BY <1>1, Zenon DEF Quiet, vars
<1>2. CASE Reminded \/ Skip
  BY <1>2 DEF Reminded, Skip, vars
<1>3. CASE Plan
  BY <1>3, Zenon DEF Plan, vars
<1> QED BY <1>1, <1>2, <1>3

\* What a step of the check leaves alone, and what it takes.
LEMMA CheckKeeps ==
    ASSUME TypeOK, Checks \/ Dies
    PROVE  /\ UNCHANGED <<archived, pc, op>>
           /\ \A u \in Tx \ {Checker} :
                want'[u] = want[u] /\ held'[u] = held[u] /\ write'[u] = write[u]
           /\ item' = item \/ Finish
<1>1. CASE Begins \/ Ring
  BY <1>1 DEF TypeOK, Begins, Ring
<1>6. CASE Remind
  BY <1>6 DEF TypeOK, Remind
<1>2. CASE LockPersons \/ Escalate
  BY <1>2 DEF TypeOK, LockPersons, Escalate
<1>4. CASE Quiet \/ Reminded \/ Plan \/ Skip
  BY <1>4, ReadsOnly
<1>3. CASE Finish \/ Dies
  BY <1>3 DEF TypeOK, Finish, Dies, Ends
<1> QED BY <1>1, <1>2, <1>3, <1>4, <1>6 DEF Checks

\* A clock row, a person row, the item's row.
LEMMA CheckLocksType ==
    /\ \A i \in Item : ClockLock(i) \in Locks /\ ItemLock(i) \in Locks
    /\ \A p \in Person : Share(p) \in Locks
BY DEF ClockLock, ItemLock, Share, Lock, Locks, Row, Mode

\* Every lock the check takes is free when it takes it.
LEMMA CheckTakesFree ==
    ASSUME CenterTypeOK, CheckClear, Checks \/ Dies
    PROVE  \A w \in held'[Checker] : w \in held[Checker] \/ (w \in Locks /\ Free(w))
<1>0. TypeOK /\ Checker \in Tx /\ held[Checker] \subseteq Locks /\ Requests \subseteq Item
  BY CheckerAssumption, PeopleAssumption DEF CenterTypeOK, TypeOK
<1>1. CASE Begins
  <2>1. held'[Checker] = {ClockLock(i) : i \in DueRows(1) \union DueRows(2)}
    BY <1>0, <1>1 DEF Begins, TypeOK
  <2>2. \A i \in DueRows(1) \union DueRows(2) : i \in Item /\ Free(ClockLock(i))
    BY <1>0 DEF DueRows
  <2> QED BY <2>1, <2>2, CheckLocksType
<1>2. CASE Quiet \/ Remind \/ Reminded \/ Plan \/ Skip
  <2>1. Remind => held' = held
    BY DEF Remind
  <2> QED BY <1>2, <2>1, ReadsOnly
<1>3. CASE Ring
  <2>1. PICK w \in want[Checker] : Free(w) /\ held' = [held EXCEPT ![Checker] = @ \union {w}]
    BY <1>3 DEF Ring
  <2> QED BY <1>0, <2>1 DEF TypeOK
<1>4. CASE LockPersons
  <2> DEFINE new == {q \in check.plan \ archived : Free(Share(q))}
  <2>1. held'[Checker] = held[Checker] \union {Share(p) : p \in new}
    BY <1>0, <1>4 DEF LockPersons, TypeOK
  <2>2. new \subseteq Person
    BY DEF CenterTypeOK, Check
  <2>3. \A p \in new : Share(p) \in Locks /\ Free(Share(p))
    BY <2>2, CheckLocksType
  <2> QED BY <2>1, <2>3
<1>5. CASE Escalate
  <2>1. /\ held'[Checker] = held[Checker] \union {ItemLock(check.cur)}
        /\ Free(ItemLock(check.cur)) /\ check.phase = "persons"
    BY <1>0, <1>5 DEF Escalate, TypeOK
  <2>2. check.cur \in Item
    BY <1>0, <2>1 DEF CheckClear
  <2> QED BY <2>1, <2>2, CheckLocksType
<1>6. CASE Finish \/ Dies
  BY <1>0, <1>6 DEF Finish, Dies, Ends, TypeOK
<1> QED BY <1>1, <1>2, <1>3, <1>4, <1>5, <1>6 DEF Checks

LEMMA CheckLocksExclude ==
    ASSUME CenterTypeOK, LocksExclude, CheckClear, Checks \/ Dies
    PROVE  LocksExclude'
<1>0. TypeOK /\ Checker \in Tx
  BY CheckerAssumption DEF CenterTypeOK
<1>1. \A u \in Tx \ {Checker} : held'[u] = held[u]
  BY <1>0, CheckKeeps
<1>2. \A w \in held'[Checker] : w \in Locks /\ \A u \in Tx \ {Checker} : ~Collides(held[u], w)
  BY <1>0, CheckTakesFree DEF TypeOK, Free, Grantable, LocksExclude
<1>3. ASSUME NEW u \in Tx \ {Checker}, NEW v \in held[u], Collides(held'[Checker], v)
      PROVE  FALSE
  <2>1. v \in Locks /\ v = <<v[1], v[2]>> /\ v[2] \in Mode
    BY <1>0, <1>3 DEF TypeOK, Locks
  <2>2. PICK n \in ConflictsWith(v[2]) : <<v[1], n>> \in held'[Checker]
    BY <1>3 DEF Collides
  <2>3. n \in Mode /\ v[2] \in ConflictsWith(n)
    BY <2>1, <2>2, ConflictsSymmetric
  <2>4. ~Collides(held[u], <<v[1], n>>)
    BY <1>2, <2>2
  <2> QED BY <2>1, <2>3, <2>4 DEF Collides
<1> QED BY <1>0, <1>1, <1>2, <1>3 DEF LocksExclude

\* The row an escalation writes.
LEMMA EscalatedRow ==
    ASSUME TypeOK, NEW i \in Item
    PROVE  /\ Escalated(i) \in ItemRow
           /\ Escalated(i).status = item[i].status /\ Escalated(i).clock = item[i].clock
           /\ \A p \in Person :
                /\ Escalated(i).asg[p] = IF p \in Added(i) THEN "pending" ELSE item[i].asg[p]
                /\ Escalated(i).inbox[p] = IF p \in Added(i) THEN "live" ELSE item[i].inbox[p]
<1>1. item[i] \in ItemRow
  BY DEF TypeOK
<1> DEFINE asg == [p \in Person |-> IF p \in Added(i) THEN "pending" ELSE item[i].asg[p]]
           inbox == [p \in Person |-> IF p \in Added(i) THEN "live" ELSE item[i].inbox[p]]
<1>2. /\ asg \in [Person -> {"none", "pending", "accepted", "done"}]
      /\ inbox \in [Person -> {"none", "live", "archived"}]
      /\ \A p \in Person : /\ asg[p] = IF p \in Added(i) THEN "pending" ELSE item[i].asg[p]
                           /\ inbox[p] = IF p \in Added(i) THEN "live" ELSE item[i].inbox[p]
  BY <1>1 DEF ItemRow
<1>3. Escalated(i) = [item[i] EXCEPT !.asg = asg, !.inbox = inbox]
  BY DEF Escalated
<1> HIDE DEF asg, inbox
<1>4. /\ Escalated(i) \in ItemRow
      /\ Escalated(i).status = item[i].status /\ Escalated(i).clock = item[i].clock
      /\ Escalated(i).asg = asg /\ Escalated(i).inbox = inbox
  BY <1>1, <1>2, <1>3 DEF ItemRow
<1> QED BY <1>2, <1>4

\* The chain names persons.
LEMMA NextLevelType == \A i \in Item : NextLevel(i) \subseteq Person
BY DEF NextLevel, LevelCandidates

\* The check's locks, wishes and writes keep their shape.
LEMMA CheckDbType ==
    ASSUME CenterTypeOK, CheckClear, Checks \/ Dies
    PROVE  TypeOK'
<1>0. TypeOK /\ Checker \in Tx /\ Requests \subseteq Item
  BY CheckerAssumption, PeopleAssumption DEF CenterTypeOK
<1>1. UNCHANGED <<archived, pc, op>>
  BY <1>0, CheckKeeps
<1>2. held' \in [Tx -> SUBSET Locks]
  <2>1. \A w \in held'[Checker] : w \in Locks
    BY <1>0, CheckTakesFree DEF TypeOK
  <2>2. \A u \in Tx : held'[u] \subseteq Locks
    BY <1>0, <2>1, CheckKeeps DEF TypeOK
  <2>3. held' = [u \in Tx |-> held'[u]]
    <3>0. held = [u \in Tx |-> held[u]]
      BY <1>0 DEF TypeOK
    <3>1. CASE Begins \/ Ring
      BY <3>0, <3>1 DEF Begins, Ring
    <3>2. CASE LockPersons
      BY <3>0, <3>2 DEF LockPersons
    <3>5. CASE Escalate
      BY <3>0, <3>5 DEF Escalate
    <3>3. CASE Finish \/ Dies
      BY <3>0, <3>3 DEF Finish, Dies, Ends
    <3>4. Remind => held' = held
      BY DEF Remind
    <3> QED BY <1>0, <3>1, <3>2, <3>3, <3>4, <3>5, ReadsOnly DEF Checks, TypeOK
  <2> QED BY <2>2, <2>3
<1>3. want' \in [Tx -> SUBSET Locks]
  <2>1. CASE Remind
    <3>1. PICK i \in check.near : want' = [want EXCEPT ![Checker] = PersonLocks(Live(i), "key_share") \ held[Checker]]
      BY <2>1, Zenon DEF Remind
    <3>2. PersonLocks(Live(i), "key_share") \subseteq Locks
      BY LocksType, ModeType DEF Live, Assignees
    <3> QED BY <1>0, <3>1, <3>2 DEF TypeOK
  <2>2. CASE Ring
    BY <1>0, <2>2 DEF Ring, TypeOK
  <2>3. CASE Finish \/ Dies
    BY <1>0, <2>3 DEF Finish, Dies, Ends, TypeOK
  <2>4. Begins \/ LockPersons \/ Escalate => want' = want
    BY DEF Begins, LockPersons, Escalate
  <2> QED BY <1>0, <2>1, <2>2, <2>3, <2>4, ReadsOnly DEF Checks, TypeOK
<1>4. /\ write' = [u \in Tx |-> write'[u]]
      /\ \A u \in Tx : DOMAIN write'[u] \subseteq Item /\ write'[u] \in [DOMAIN write'[u] -> ItemRow]
  <2>1. CASE Escalate
    <3> DEFINE i == check.cur
               rows == [j \in DOMAIN write[Checker] \union (IF Added(i) = {} THEN {} ELSE {i}) |->
                          IF j = i THEN Escalated(i) ELSE write[Checker][j]]
    <3>1. write' = [write EXCEPT ![Checker] = rows] /\ check.phase = "persons"
      BY <2>1 DEF Escalate
    <3>2. i \in Item
      BY <1>0, <3>1 DEF CheckClear
    <3>3. \A j \in DOMAIN rows : j \in Item /\ rows[j] \in ItemRow
      BY <1>0, <3>2, EscalatedRow DEF TypeOK
    <3>4. rows = [j \in DOMAIN rows |-> rows[j]]
      OBVIOUS
    <3> HIDE DEF rows
    <3>5. write'[Checker] = rows
      BY <1>0, <3>1 DEF TypeOK
    <3>6. DOMAIN rows \subseteq Item /\ rows \in [DOMAIN rows -> ItemRow]
      BY <3>3, <3>4
    <3> QED BY <1>0, <3>1, <3>5, <3>6 DEF TypeOK
  <2>2. CASE Finish \/ Dies
    <3>1. write' = [write EXCEPT ![Checker] = NoWrite]
      BY <2>2 DEF Finish, Dies, Ends
    <3>2. DOMAIN NoWrite = {} /\ NoWrite \in [{} -> ItemRow]
      BY DEF NoWrite
    <3> QED BY <1>0, <3>1, <3>2 DEF TypeOK
  <2>3. Begins \/ Ring \/ LockPersons => write' = write
    BY DEF Begins, Ring, LockPersons
  <2>4. Remind => write' = write
    BY Zenon DEF Remind
  <2> QED BY <1>0, <2>1, <2>2, <2>3, <2>4, ReadsOnly DEF Checks, TypeOK
<1>5. item' \in [Item -> ItemRow]
  BY <1>0, CheckKeeps DEF Finish, TypeOK
<1> QED BY <1>0, <1>1, <1>2, <1>3, <1>4, <1>5 DEF TypeOK

\* While the check goes on, it only ever handles fewer rows, and keeps what it
\* holds.
LEMMA CheckGoesOn ==
    ASSUME CenterTypeOK, CheckClear,
           Quiet \/ Remind \/ Ring \/ Reminded \/ Plan \/ LockPersons \/ Escalate \/ Skip
    PROVE  /\ check' \in Check /\ check'.phase # "idle"
           /\ Watched' \subseteq Watched
           /\ check'.phase \in {"bells", "planned", "persons"} => check'.cur \in Watched'
           /\ held[Checker] \subseteq held'[Checker]
           /\ due' = due /\ warned' = warned /\ item' = item /\ archived' = archived
<1>0. /\ TypeOK /\ Checker \in Tx /\ check \in Check /\ held[Checker] \in SUBSET Locks
      /\ check.phase \in {"bells", "planned", "persons"} => check.cur \in Watched /\ check.cur \in Item /\ check.cur # 0
  <2>1. \A i \in Requests : i \in Item /\ i # 0
    BY PeopleAssumption DEF Item
  <2> QED BY <2>1, CheckerAssumption DEF CenterTypeOK, TypeOK, CheckClear
<1>1. CASE Quiet
  <2>1. PICK i \in Item : NextRow(i) /\ check' = [check EXCEPT !.over = @ \ {i}, !.near = @ \ {i}]
    BY <1>1, Zenon DEF Quiet
  <2>2. UNCHANGED <<vars, due, warned>>
    BY <1>1, Zenon DEF Quiet
  <2>3. /\ check'.phase = "rows" /\ check'.cur = check.cur
        /\ check'.over \subseteq check.over /\ check'.near \subseteq check.near
        /\ check' \in Check
    BY <1>0, <2>1 DEF Check, NextRow
  <2> QED BY <2>2, <2>3 DEF vars, Watched
<1>2. CASE Remind
  <2>1. PICK i \in check.near : NextRow(i) /\ check' = [check EXCEPT !.phase = "bells", !.near = @ \ {i}, !.cur = i]
    BY <1>2, Zenon DEF Remind
  <2>2. UNCHANGED <<archived, item, held, due, warned>>
    BY <1>2, Zenon DEF Remind
  <2>3. i \in Item /\ i # 0
    BY <1>0 DEF Check, Item
  <2>4. /\ check'.phase = "bells" /\ check'.cur = i
        /\ check'.over = check.over /\ check'.near \subseteq check.near
        /\ check' \in Check
    BY <1>0, <2>1, <2>3 DEF Check
  <2> QED BY <2>2, <2>3, <2>4 DEF Watched
<1>3. CASE Ring
  <2>1. check' = check /\ UNCHANGED <<archived, item, due, warned>>
    BY <1>3 DEF Ring
  <2>2. PICK w \in want[Checker] : held' = [held EXCEPT ![Checker] = @ \union {w}]
    BY <1>3 DEF Ring
  <2>3. held[Checker] \subseteq held'[Checker]
    BY <1>0, <2>2 DEF TypeOK
  <2>4. check.phase = "bells"
    BY <1>3 DEF Ring, CheckClear
  <2> QED BY <1>0, <1>3, <2>1, <2>3, <2>4 DEF Watched
<1>4. CASE Reminded
  <2> DEFINE done == check.reminded \union {check.cur}
  <2>0. done \in SUBSET Item
    BY <1>0, <1>4 DEF Check, Reminded
  <2>1. check' = [check EXCEPT !.phase = "rows", !.cur = 0, !.reminded = done]
    BY <1>4 DEF Reminded
  <2> HIDE DEF done
  <2>2. /\ check'.phase = "rows" /\ check'.cur = 0
        /\ check'.over = check.over /\ check'.near = check.near
        /\ check' \in Check
    BY <1>0, <2>0, <2>1 DEF Check
  <2> QED BY <1>4, <2>2 DEF Reminded, vars, Watched
<1>5. CASE Plan
  <2>1. PICK i \in check.over :
           check' = [check EXCEPT !.phase = "planned", !.over = @ \ {i}, !.cur = i, !.plan = NextLevel(i)]
    BY <1>5, Zenon DEF Plan
  <2>2. UNCHANGED <<vars, due, warned>>
    BY <1>5, Zenon DEF Plan
  <2>3. i \in Item /\ i # 0 /\ NextLevel(i) \in SUBSET Person
    BY <1>0, NextLevelType DEF Check, Item
  <2>4. /\ check'.phase = "planned" /\ check'.cur = i
        /\ check'.near = check.near /\ check'.over \subseteq check.over
        /\ check' \in Check
    BY <1>0, <2>1, <2>3 DEF Check
  <2> QED BY <2>2, <2>3, <2>4 DEF Watched, vars
<1>6. CASE LockPersons
  <2>1. check' = [check EXCEPT !.phase = "persons"] /\ check.phase = "planned"
    BY <1>6 DEF LockPersons
  <2>2. /\ check'.phase = "persons" /\ check'.cur = check.cur
        /\ check'.near = check.near /\ check'.over = check.over
        /\ check' \in Check
    BY <1>0, <2>1 DEF Check
  <2>3. held[Checker] \subseteq held'[Checker] /\ UNCHANGED <<archived, item, due, warned>>
    BY <1>0, <1>6 DEF LockPersons, TypeOK
  <2> QED BY <1>0, <2>1, <2>2, <2>3 DEF Watched
<1>7. ASSUME Escalate \/ Skip
      PROVE  /\ check'.phase = "rows" /\ check'.cur = 0
             /\ check'.near = check.near /\ check'.over = check.over
             /\ check' \in Check
  <2>1. check.phase = "persons" /\ \E done \in SUBSET {check.cur} : Handled(done)
    BY <1>7, Zenon DEF Escalate, Skip
  <2>2. PICK done \in SUBSET {check.cur} : Handled(done)
    BY <2>1
  <2> QED BY <1>0, <2>1, <2>2 DEF Check, Handled
<1>8. CASE Escalate
  <2>1. UNCHANGED <<archived, item, due, warned>>
    BY <1>8 DEF Escalate
  <2>2. held' = [held EXCEPT ![Checker] = @ \union {ItemLock(check.cur)}]
    BY <1>8 DEF Escalate
  <2>3. held[Checker] \subseteq held'[Checker]
    BY <1>0, <2>2 DEF TypeOK
  <2> QED BY <1>7, <1>8, <2>1, <2>3 DEF Watched
<1>9. CASE Skip
  <2>1. UNCHANGED <<archived, item, held, due, warned>>
    BY <1>9 DEF Skip, vars
  <2> QED BY <1>7, <1>9, <2>1 DEF Watched
<1> QED BY <1>1, <1>2, <1>3, <1>4, <1>5, <1>6, <1>8, <1>9

LEMMA CheckTypeStep ==
    ASSUME CenterTypeOK, CheckClear, Checks \/ Dies
    PROVE  CenterTypeOK'
<1>0. /\ TypeOK /\ Checker \in Tx /\ check \in Check
      /\ due \in [Item -> 0 .. 2] /\ warned \in [Item -> BOOLEAN] /\ Requests \subseteq Item
  BY CheckerAssumption, PeopleAssumption DEF CenterTypeOK
<1>1. TypeOK' /\ pc'[Checker] = "idle"
  BY CheckDbType, CheckKeeps DEF CenterTypeOK
<1>2. /\ check' \in Check /\ (check'.phase = "idle" => check' = NoCheck)
      /\ due' \in [Item -> 0 .. 2] /\ warned' \in [Item -> BOOLEAN]
  <2>1. NoCheck \in Check /\ NoCheck.phase = "idle"
    BY DEF NoCheck, Check
  <2>2. CASE Begins
    <3>1. check' = [NoCheck EXCEPT !.phase = "rows", !.over = DueRows(2), !.near = DueRows(1)]
      BY <2>2 DEF Begins
    <3>2. DueRows(1) \in SUBSET Item /\ DueRows(2) \in SUBSET Item
      BY <1>0 DEF DueRows
    <3>3. check' \in Check /\ check'.phase = "rows"
      BY <2>1, <3>1, <3>2 DEF Check
    <3>4. due' = due /\ warned' = warned
      BY <2>2 DEF Begins
    <3> QED BY <1>0, <3>3, <3>4
  <2>3. CASE Finish
    <3>1. check' = NoCheck
      BY <2>3 DEF Finish, Ends
    <3>2. due' \in [Item -> 0 .. 2]
      BY <1>0, <2>3 DEF Finish
    <3>3. warned' \in [Item -> BOOLEAN]
      BY <1>0, <2>3, Zenon DEF Finish
    <3> QED BY <2>1, <3>1, <3>2, <3>3
  <2>4. CASE Dies
    BY <1>0, <2>1, <2>4 DEF Dies, Ends
  <2>5. CASE Quiet \/ Remind \/ Ring \/ Reminded \/ Plan \/ LockPersons \/ Escalate \/ Skip
    BY <1>0, <2>5, CheckGoesOn
  <2> QED BY <2>2, <2>3, <2>4, <2>5 DEF Checks
<1> QED BY <1>1, <1>2 DEF CenterTypeOK

\* The check writes items it holds.
LEMMA CheckHoldsItem ==
    ASSUME CenterTypeOK, WritersHoldItem, CheckClear, Checks \/ Dies
    PROVE  WritersHoldItem'
<1>0. TypeOK /\ Checker \in Tx
  BY CheckerAssumption DEF CenterTypeOK
<1>1. ASSUME NEW i \in DOMAIN write'[Checker] PROVE HoldsItem(Checker, i)'
  <2>1. CASE Begins \/ Finish \/ Dies
    <3>1. DOMAIN write'[Checker] = {}
      BY <1>0, <2>1 DEF Begins, Finish, Dies, Ends, NoWrite, CheckClear, TypeOK
    <3> QED BY <1>1, <3>1
  <2>2. CASE Escalate
    <3>1. held' = [held EXCEPT ![Checker] = @ \union {ItemLock(check.cur)}]
      BY <2>2 DEF Escalate
    <3>2. DOMAIN write'[Checker] \subseteq DOMAIN write[Checker] \union {check.cur}
      BY <1>0, <2>2 DEF Escalate, TypeOK
    <3>3. held[Checker] \subseteq held'[Checker] /\ ItemLock(check.cur) \in held'[Checker]
      BY <1>0, <3>1 DEF TypeOK
    <3> QED BY <1>0, <1>1, <3>2, <3>3 DEF WritersHoldItem, HoldsItem, ItemLock
  <2>3. CASE Quiet \/ Remind \/ Ring \/ Reminded \/ Plan \/ LockPersons \/ Skip
    <3>1. held[Checker] \subseteq held'[Checker]
      BY <2>3, CheckGoesOn
    <3>2. write' = write
      <4>1. Remind => write' = write
        BY Zenon DEF Remind
      <4>2. Ring \/ LockPersons => write' = write
        BY DEF Ring, LockPersons
      <4> QED BY <2>3, <4>1, <4>2, ReadsOnly
    <3> QED BY <1>0, <1>1, <3>1, <3>2 DEF WritersHoldItem, HoldsItem
  <2> QED BY <2>1, <2>2, <2>3 DEF Checks
<1>2. pc'[Checker] = "idle"
  BY <1>0, CheckKeeps DEF CenterTypeOK
<1>3. ASSUME NEW u \in Tx, u # Checker
      PROVE  /\ pc'[u] = pc[u] /\ op'[u] = op[u] /\ want'[u] = want[u]
             /\ held'[u] = held[u] /\ write'[u] = write[u]
  BY <1>0, <1>3, CheckKeeps
<1> QED BY <1>0, <1>1, <1>2, <1>3 DEF WritersHoldItem, HoldsItem, Asked

\* An escalation keeps the columns of the row in agreement and adds only
\* persons who are there and held.
LEMMA EscalatedClear ==
    ASSUME TypeOK, Rows, NEW i \in Requests
    PROVE  /\ RowFollows(i, Escalated(i)) /\ Escalated(i).status = item[i].status
           /\ \A p \in Person : (Escalated(i).asg[p] # "none" /\ item[i].asg[p] = "none")
                                   => p \notin archived /\ Share(p) \in held[Checker]
<1>0. i \in Item /\ RowFollows(i, item[i])
  BY PeopleAssumption DEF Rows
<1>1. /\ Escalated(i).status = item[i].status /\ Escalated(i).clock = item[i].clock
      /\ \A p \in Person :
           /\ Escalated(i).asg[p] = IF p \in Added(i) THEN "pending" ELSE item[i].asg[p]
           /\ Escalated(i).inbox[p] = IF p \in Added(i) THEN "live" ELSE item[i].inbox[p]
  BY <1>0, EscalatedRow
<1>2. RowFollows(i, Escalated(i))
  <2>1. ClockFollows(i, Escalated(i))
    BY <1>0, <1>1 DEF RowFollows, ClockFollows
  <2>2. StatusFollows(i, Escalated(i))
    BY DEF StatusFollows
  <2>3. InboxFollows(i, Escalated(i))
    BY <1>0, <1>1 DEF RowFollows, InboxFollows
  <2> QED BY <2>1, <2>2, <2>3 DEF RowFollows
<1>3. \A p \in Added(i) : p \notin archived /\ Share(p) \in held[Checker]
  BY DEF Added
<1> QED BY <1>1, <1>2, <1>3

LEMMA CheckClearStep ==
    ASSUME CInv, Checks \/ Dies
    PROVE  CheckClear'
<1>0. /\ CenterTypeOK /\ TypeOK /\ CheckClear /\ Rows /\ Checker \in Tx
  BY CheckerAssumption DEF CInv, CenterTypeOK
<1>1. CASE Begins
  <2> DEFINE due1 == DueRows(1) \union DueRows(2)
  <2>1. /\ check'.phase = "rows" /\ Watched' = due1
    <3>1. check' = [NoCheck EXCEPT !.phase = "rows", !.over = DueRows(2), !.near = DueRows(1)]
      BY <1>1 DEF Begins
    <3>2. check'.phase = "rows" /\ check'.over = DueRows(2) /\ check'.near = DueRows(1) /\ check'.cur = 0
      BY <3>1 DEF NoCheck
    <3> QED BY <3>2 DEF Watched
  <2>2. /\ UNCHANGED <<archived, item, want, write>> /\ check.phase = "idle"
        /\ held'[Checker] = {ClockLock(i) : i \in due1}
    BY <1>0, <1>1 DEF Begins, TypeOK
  <2>3. \A i \in due1 : i \in Requests /\ item[i].clock = "running"
    BY DEF DueRows
  <2>4. DOMAIN write'[Checker] = {} /\ want'[Checker] = {}
    BY <1>0, <2>2 DEF CheckClear, NoWrite
  <2>5. \A i \in due1 : ClockLock(i)' = ClockLock(i)
    BY DEF ClockLock, Lock
  <2> QED BY <2>1, <2>2, <2>3, <2>4, <2>5 DEF CheckClear
<1>2. CASE Finish \/ Dies
  <2>1. check' = NoCheck /\ want'[Checker] = {} /\ write'[Checker] = NoWrite
    BY <1>0, <1>2 DEF Finish, Dies, Ends, TypeOK
  <2>2. Watched' = {} /\ check'.phase = "idle"
    BY <2>1 DEF Watched, NoCheck
  <2>3. DOMAIN write'[Checker] = {} /\ NoWrite' = NoWrite
    BY <2>1 DEF NoWrite
  <2> QED BY <2>1, <2>2, <2>3 DEF CheckClear
<1>3. CASE Quiet \/ Remind \/ Ring \/ Reminded \/ Plan \/ LockPersons \/ Escalate \/ Skip
  <2>1. /\ check'.phase # "idle" /\ Watched' \subseteq Watched
        /\ check'.phase \in {"bells", "planned", "persons"} => check'.cur \in Watched'
        /\ held[Checker] \subseteq held'[Checker] /\ item' = item /\ archived' = archived
    BY <1>0, <1>3, CheckGoesOn
  <2>2. check'.phase # "bells" => want'[Checker] = {}
    <3>1. CASE Remind
      <4>1. PICK i \in check.near : check' = [check EXCEPT !.phase = "bells", !.near = @ \ {i}, !.cur = i]
        BY <3>1, Zenon DEF Remind
      <4> QED BY <1>0, <4>1 DEF CenterTypeOK, Check
    <3>2. CASE Ring
      BY <1>0, <3>2 DEF Ring, CheckClear
    <3>3. CASE Reminded
      BY <3>3, ReadsOnly DEF Reminded
    <3>4. CASE LockPersons \/ Escalate
      BY <1>0, <3>4 DEF LockPersons, Escalate, CheckClear
    <3>5. CASE Quiet \/ Plan \/ Skip
      <4>1. check.phase # "bells"
        BY <3>5, Zenon DEF Quiet, Plan, Skip, NextRow
      <4> QED BY <1>0, <3>5, <4>1, ReadsOnly DEF CheckClear
    <3> QED BY <1>3, <3>1, <3>2, <3>3, <3>4, <3>5
  <2> DEFINE Good(i, row) ==
        /\ RowFollows(i, row) /\ row.status # "absent"
        /\ \A p \in Person : (row.asg[p] # "none" /\ item[i].asg[p] = "none")
                                => p \notin archived /\ Share(p) \in held[Checker]
  <2>3. \A i \in DOMAIN write[Checker] : Good(i, write[Checker][i])
    BY <1>0 DEF CheckClear, Joins
  <2>4. ASSUME NEW i \in DOMAIN write'[Checker] PROVE Good(i, write'[Checker][i])
    <3>1. CASE Escalate
      <4>1. check.cur \in Requests /\ item[check.cur].status = "todo"
        BY <1>0, <3>1 DEF Escalate, CheckClear
      <4>2. Good(check.cur, Escalated(check.cur))
        BY <1>0, <4>1, EscalatedClear
      <4>3. \/ i = check.cur /\ write'[Checker][i] = Escalated(i)
            \/ i \in DOMAIN write[Checker] /\ write'[Checker][i] = write[Checker][i]
        BY <1>0, <2>4, <3>1 DEF Escalate, TypeOK
      <4> HIDE DEF Good
      <4> QED BY <2>3, <4>2, <4>3
    <3>2. CASE Quiet \/ Remind \/ Ring \/ Reminded \/ Plan \/ LockPersons \/ Skip
      <4>1. Remind => write' = write
        BY Zenon DEF Remind
      <4>2. Ring \/ LockPersons => write' = write
        BY DEF Ring, LockPersons
      <4>3. write' = write
        BY <3>2, <4>1, <4>2, ReadsOnly
      <4> HIDE DEF Good
      <4> QED BY <2>3, <2>4, <4>3
    <3> QED BY <1>3, <3>1, <3>2
  <2>5. ASSUME NEW i \in DOMAIN write'[Checker]
        PROVE  /\ RowFollows(i, write[Checker][i])' /\ write'[Checker][i].status # "absent"
               /\ \A p \in Person : Joins(i, p)' => p \notin archived' /\ Share(p) \in held'[Checker]
    <3>1. Good(i, write'[Checker][i])
      BY <2>4
    <3>2. RowFollows(i, write[Checker][i])'
      BY <3>1 DEF RowFollows, ClockFollows, StatusFollows, InboxFollows, Assignees
    <3> QED BY <2>1, <3>1, <3>2 DEF Joins
  <2>6. /\ Watched' \subseteq Requests
        /\ \A i \in Watched' : ClockLock(i) \in held'[Checker] /\ item'[i].clock = "running"
    BY <1>0, <2>1 DEF CheckClear
  <2> QED BY <2>1, <2>2, <2>5, <2>6 DEF CheckClear, Share, ClockLock, NoWrite, Lock
<1> QED BY <1>1, <1>2, <1>3 DEF Checks

\* The check's commit writes the rows it holds.
LEMMA FinishFacts ==
    ASSUME CInv, Checks \/ Dies
    PROVE  \A i \in Item : item'[i] = item[i] \/ (i \in DOMAIN write[Checker] /\ item'[i] = write[Checker][i])
<1>1. CASE Finish
  <2>1. item' = [i \in Item |-> IF i \in DOMAIN write[Checker] THEN write[Checker][i] ELSE item[i]]
    BY <1>1 DEF Finish
  <2> QED BY <2>1
<1>2. CASE ~Finish
  <2>1. item' = item
    BY <1>2, CheckKeeps DEF CInv, CenterTypeOK
  <2> QED BY <2>1
<1> QED BY <1>1, <1>2

LEMMA CheckLeavesClear ==
    ASSUME CInv, Checks \/ Dies, NEW u \in Clients
    PROVE  Clear(u)'
<1>0. /\ TypeOK /\ Clear(u) /\ CheckClear /\ u \in Tx /\ u # Checker /\ Checker \in Tx
  BY CheckerAssumption DEF CInv, CenterTypeOK, Clients
<1>1. /\ pc'[u] = pc[u] /\ op'[u] = op[u] /\ want'[u] = want[u]
      /\ held'[u] = held[u] /\ write'[u] = write[u]
  BY <1>0, CheckKeeps
<1>2. \A i \in Item : item[i].status # "absent" => item'[i].status # "absent"
  BY <1>0, FinishFacts DEF CheckClear
<1>3. op[u].kind \in {"change", "edit"} => op[u].item \in Item
  BY <1>0 DEF TypeOK, Op, NoOp
<1>4. \A i \in DOMAIN write[u] : item'[i] = item[i]
  BY <1>0, FinishFacts, NotBoth
<1>5. ASSUME NEW i \in DOMAIN write[u] PROVE WriteClear(u, i)'
  <2>1. WriteClear(u, i)
    BY <1>0 DEF Clear
  <2>2. item'[i] = item[i] /\ write'[u][i] = write[u][i] /\ Asked(u)' = Asked(u)
    BY <1>1, <1>4 DEF Asked
  <2>3. RowFollows(i, write[u][i])'
    BY <2>1, <2>2 DEF WriteClear, RowFollows, ClockFollows, StatusFollows, InboxFollows, Assignees
  <2> QED BY <1>1, <2>1, <2>2, <2>3 DEF WriteClear, Assignees
<1> QED BY <1>0, <1>1, <1>2, <1>3, <1>5 DEF Clear, Asked

LEMMA CheckStep ==
    ASSUME CInv, Checks \/ Dies
    PROVE  CInv'
<1>0. CenterTypeOK /\ LocksExclude /\ WritersHoldItem /\ Rows /\ CheckClear
  BY DEF CInv
<1>1. Rows'
  <2>1. \A i \in Item : RowFollows(i, item'[i])
    BY <1>0, FinishFacts DEF Rows, CheckClear
  <2> QED BY <2>1 DEF Rows, RowFollows, ClockFollows, StatusFollows, InboxFollows, Assignees
<1>2. \A u \in Clients : Clear(u)'
  BY CheckLeavesClear
<1> QED
  BY <1>0, <1>1, <1>2, CheckTypeStep, CheckLocksExclude, CheckHoldsItem, CheckClearStep DEF CInv, Clients

-----------------------------------------------------------------------------
(* The invariant.                                                          *)

\* Time, or nothing at all.
LEMMA QuietStep ==
    ASSUME CInv, UNCHANGED <<vars, check>>, CenterTypeOK'
    PROVE  CInv'
<1>1. UNCHANGED <<archived, item, pc, op, want, held, write, check>>
  BY DEF vars
<1>2. LocksExclude' /\ WritersHoldItem'
  BY <1>1 DEF CInv, LocksExclude, WritersHoldItem, HoldsItem, Asked
<1>3. Rows'
  BY <1>1 DEF CInv, Rows
<1>4. ASSUME NEW u \in Clients PROVE Clear(u)'
  <2>1. Clear(u)
    BY DEF CInv
  <2>2. ASSUME NEW i \in DOMAIN write[u] PROVE WriteClear(u, i)'
    <3>1. WriteClear(u, i)
      BY <2>1 DEF Clear
    <3>2. RowFollows(i, write[u][i])'
      BY <1>1, <3>1 DEF WriteClear, RowFollows, ClockFollows, StatusFollows, InboxFollows, Assignees
    <3> QED BY <1>1, <3>1, <3>2 DEF WriteClear, Assignees, Asked
  <2> QED BY <1>1, <2>1, <2>2 DEF Clear, Asked
<1>5. CheckClear'
  BY <1>1 DEF CInv, CheckClear, Watched, Joins, RowFollows, ClockFollows, StatusFollows, InboxFollows, Assignees
<1> QED BY <1>2, <1>3, <1>4, <1>5 DEF CInv, Clients

LEMMA CenterStep == CInv /\ [CenterNext]_allVars => CInv'
<1> SUFFICES ASSUME CInv, [CenterNext]_allVars PROVE CInv'
  OBVIOUS
<1>1. CASE \E t \in Clients : Serve(t)
  BY <1>1, ServeStep
<1>2. CASE Checks \/ Dies
  BY <1>2, CheckStep
<1>3. CASE Elapse
  <2>1. PICK i \in Requests : Ticking(i) /\ due' = [due EXCEPT ![i] = @ + 1]
    BY <1>3, Zenon DEF Elapse
  <2>2. UNCHANGED <<vars, warned, check>>
    BY <1>3, Zenon DEF Elapse
  <2>3. due' \in [Item -> 0 .. 2]
    BY <2>1, PeopleAssumption DEF CInv, CenterTypeOK, Ticking
  <2>4. CenterTypeOK'
    BY <2>2, <2>3 DEF CInv, CenterTypeOK, TypeOK, vars
  <2> QED BY <2>2, <2>4, QuietStep
<1>4. CASE UNCHANGED allVars
  <2>1. UNCHANGED <<vars, due, warned, check>>
    BY <1>4 DEF allVars
  <2>2. CenterTypeOK'
    BY <2>1 DEF CInv, CenterTypeOK, TypeOK, vars
  <2> QED BY <2>1, <2>2, QuietStep
<1> QED BY <1>1, <1>2, <1>3, <1>4 DEF CenterNext

LEMMA CenterStarts == CenterInit => CInv
<1> SUFFICES ASSUME CenterInit PROVE CInv
  OBVIOUS
<1>0. Init /\ check = NoCheck
  BY DEF CenterInit
<1>1. IInv /\ RowsFollow
  BY <1>0, InitDiscipline, InitFollows
<1>2. /\ archived = {} /\ \A t \in Tx : pc[t] = "idle" /\ op[t] = NoOp /\ want[t] = {} /\ write[t] = NoWrite
  BY <1>0 DEF Init
<1>3. CenterTypeOK
  <2>1. NoCheck \in Check
    BY DEF NoCheck, Check
  <2> QED BY <1>0, <1>1, <1>2, <2>1, CheckerAssumption DEF CenterTypeOK, CenterInit, IInv
<1>4. \A t \in Clients : Clear(t)
  BY <1>2 DEF Clients, Clear, NoOp, NoWrite
<1>5. CheckClear
  <2>1. Watched = {} /\ check.phase = "idle"
    BY <1>0 DEF Watched, NoCheck
  <2> QED BY <1>2, <2>1, CheckerAssumption DEF CheckClear, NoWrite
<1> QED BY <1>1, <1>3, <1>4, <1>5 DEF CInv, IInv, LockDiscipline, RowsFollow, Rows

-----------------------------------------------------------------------------
\* Every variable of the request center has its shape, and the check's
\* connection serves nobody else.
THEOREM CenterTypes == CenterSpec => []CenterTypeOK
<1>1. CInv => CenterTypeOK
  BY DEF CInv
<1> QED BY <1>1, CenterStarts, CenterStep, PTL DEF CenterSpec

\* Whatever the check still handles waits for an answer and its clock runs: a
\* status change waits for the clock row the check holds (request-clock.ts).
THEOREM SeesTodo == CenterSpec => []CheckSeesTodo
<1>1. CInv => CheckSeesTodo
  <2> SUFFICES ASSUME CInv, NEW i \in Watched PROVE item[i].status = "todo" /\ item[i].clock = "running"
    BY DEF CheckSeesTodo, Watched
  <2>1. i \in Requests /\ i \in Item /\ item[i].clock = "running" /\ item[i] \in ItemRow
    BY PeopleAssumption DEF CInv, CheckClear, CenterTypeOK, TypeOK
  <2>2. ClockFollows(i, item[i])
    BY <2>1 DEF CInv, Rows, RowFollows
  <2> QED BY <2>1, <2>2 DEF ClockFollows, ItemRow, Status
<1> QED BY <1>1, CenterStarts, CenterStep, PTL DEF CenterSpec

\* The response clock agrees with the status of the request, though the check
\* reminds, renews and escalates while it is answered, reopened or cancelled.
THEOREM ClockFollowsInCenter == CenterSpec => []ClockFollowsStatus
<1>1. CInv => ClockFollowsStatus
  <2> SUFFICES ASSUME CInv, NEW i \in Requests
               PROVE  CASE item[i].status = "todo"  -> item[i].clock \in {"running", "closed"}
                        [] item[i].status = "doing" -> item[i].clock \in {"paused", "closed"}
                        [] item[i].status = "absent" -> item[i].clock = "none"
                        [] OTHER -> item[i].clock = "closed"
    BY DEF ClockFollowsStatus
  <2>1. i \in Item /\ item[i] \in ItemRow
    BY PeopleAssumption DEF CInv, CenterTypeOK, TypeOK
  <2>2. ClockFollows(i, item[i])
    BY <2>1 DEF CInv, Rows, RowFollows
  <2> QED BY <2>1, <2>2 DEF ClockFollows, ItemRow, Status
<1> QED BY <1>1, CenterStarts, CenterStep, PTL DEF CenterSpec

\* Whoever joins a request that exists is there when they join: the persons of
\* an escalation are held from their lock to its commit, and no other write on
\* an existing item adds anybody (requests.ts lockPersons).
THEOREM AddsActive == CenterSpec => AddedAreActive
<1>1. CInv /\ [CenterNext]_allVars =>
        [\A i \in Item, p \in Person :
           (item[i].status # "absent" /\ item[i].asg[p] = "none" /\ item'[i].asg[p] # "none")
               => p \notin archived']_allVars
  <2> SUFFICES ASSUME CInv, CenterNext, NEW i \in Item, NEW p \in Person,
                      item[i].status # "absent", item[i].asg[p] = "none", item'[i].asg[p] # "none"
               PROVE  p \notin archived'
    OBVIOUS
  <2>0. TypeOK
    BY DEF CInv, CenterTypeOK
  <2>1. ASSUME NEW t \in Clients, Serve(t) PROVE FALSE
    <3>1. t \in Tx /\ (Start(t) \/ Work(t) \/ Abort(t)) /\ Clear(t)
      BY <2>1, ServeIsNext DEF CInv
    <3>2. i \in DOMAIN write[t] /\ item'[i] = write[t][i]
      BY <2>0, <3>1, ServeFacts
    <3>3. Assignees(write[t][i]) \subseteq Assignees(item[i])
      BY <3>1, <3>2 DEF Clear, WriteClear
    <3> QED BY <3>2, <3>3 DEF Assignees
  <2>2. CASE Checks \/ Dies
    <3>1. i \in DOMAIN write[Checker] /\ item'[i] = write[Checker][i]
      BY <2>2, FinishFacts
    <3>2. p \notin archived
      BY <3>1 DEF CInv, CheckClear, Joins
    <3> QED BY <2>0, <2>2, <3>2, CheckKeeps
  <2>3. CASE Elapse
    BY <2>3 DEF Elapse, vars
  <2> QED BY <2>1, <2>2, <2>3 DEF CenterNext
<1> QED BY <1>1, CenterStarts, CenterStep, PTL DEF CenterSpec, AddedAreActive
=============================================================================
