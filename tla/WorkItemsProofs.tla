-------------------------- MODULE WorkItemsProofs --------------------------
(***************************************************************************)
(* Theorems about WorkItems for any number of persons, items and           *)
(* connections: its types, the lock discipline, and that a removed person  *)
(* is never counted on an open item; then what the columns of one work     *)
(* item say of each other, and that nobody locks a work item and then a    *)
(* person.                                                                 *)
(***************************************************************************)
EXTENDS WorkItems, TLAPS, WellFoundedInduction

-----------------------------------------------------------------------------
(* The rows the code writes are rows.                                      *)

LEMMA NewItemType ==
    ASSUME NEW i \in Item, NEW who \in SUBSET Person
    PROVE  NewItem(i, who) \in ItemRow
BY DEF NewItem, ItemRow, Status

LEMMA SetStatusType ==
    ASSUME NEW row \in ItemRow, NEW to \in Status
    PROVE  /\ SetStatus(row, to) \in ItemRow
           /\ SetStatus(row, to).asg = row.asg
           /\ SetStatus(row, to).inbox = row.inbox
           /\ SetStatus(row, to).text = row.text
           /\ SetStatus(row, to).status = to
BY DEF SetStatus, ClockAfter, ItemRow, Status

LEMMA WithdrawType ==
    ASSUME NEW row \in ItemRow, NEW p \in Person
    PROVE  /\ Withdraw(row, p) \in ItemRow
           /\ Withdraw(row, p).asg = [row.asg EXCEPT ![p] = "none"]
           /\ Withdraw(row, p).status \in {row.status, "done"}
<1> DEFINE asg == [row.asg EXCEPT ![p] = "none"]
           flips == AllDone(asg) /\ \E q \in Person : asg[q] = "done"
           base == IF flips THEN SetStatus(row, "done") ELSE row
<1>1. base \in ItemRow /\ base.status \in {row.status, "done"}
  BY SetStatusType DEF Status
<1>2. asg \in [Person -> {"none", "pending", "accepted", "done"}]
  BY DEF ItemRow
<1>3. Withdraw(row, p) = [base EXCEPT !.asg = asg, !.inbox[p] = "archived"]
  BY DEF Withdraw
<1> HIDE DEF asg, base
<1>4. /\ [base EXCEPT !.asg = asg, !.inbox[p] = "archived"] \in ItemRow
      /\ [base EXCEPT !.asg = asg, !.inbox[p] = "archived"].asg = asg
      /\ [base EXCEPT !.asg = asg, !.inbox[p] = "archived"].status = base.status
  BY <1>1, <1>2 DEF ItemRow
<1> QED BY <1>1, <1>3, <1>4 DEF asg

LEMMA ManagerChangeType ==
    ASSUME NEW row \in ItemRow, NEW i \in Item, NEW to \in Status
    PROVE  /\ ManagerChange(row, i, to) \in ItemRow
           /\ ManagerChange(row, i, to).status = to
           /\ \A p \in Person : ManagerChange(row, i, to).asg[p] =
                (IF row.asg[p] = "none" \/ p \in Gone(row, i, to) THEN "none"
                 ELSE IF to = "done" THEN "done"
                 ELSE IF to = "todo" THEN "pending"
                 ELSE row.asg[p])
<1> DEFINE gone == Gone(row, i, to)
           asg == [p \in Person |->
                     IF row.asg[p] = "none" \/ p \in gone THEN "none"
                     ELSE IF to = "done" THEN "done"
                     ELSE IF to = "todo" THEN "pending"
                     ELSE row.asg[p]]
           base == SetStatus(row, to)
           inbox == [p \in Person |-> IF p \in gone THEN "archived" ELSE row.inbox[p]]
<1>1. asg \in [Person -> {"none", "pending", "accepted", "done"}]
  BY DEF ItemRow
<1>2. inbox \in [Person -> {"none", "live", "archived"}]
  BY DEF ItemRow
<1>3. ManagerChange(row, i, to) = [base EXCEPT !.asg = asg, !.inbox = inbox]
  BY DEF ManagerChange, Status
<1>5. base \in ItemRow /\ base.status = to
  BY SetStatusType
<1> HIDE DEF gone, asg, inbox, base
<1>4. /\ [base EXCEPT !.asg = asg, !.inbox = inbox] \in ItemRow
      /\ [base EXCEPT !.asg = asg, !.inbox = inbox].asg = asg
      /\ [base EXCEPT !.asg = asg, !.inbox = inbox].status = to
  BY <1>1, <1>2, <1>5 DEF ItemRow
<1> QED BY <1>3, <1>4 DEF asg, gone

LEMMA AssigneeChangeType ==
    ASSUME NEW row \in ItemRow, NEW i \in Item, NEW a \in Person, NEW to \in {"doing", "done"}
    PROVE  /\ AssigneeChange(row, i, a, to) \in ItemRow
           /\ AssigneeChange(row, i, a, to).status \in {row.status, to}
           /\ \A q \in Person : AssigneeChange(row, i, a, to).asg[q] =
                (IF q # a THEN row.asg[q] ELSE IF to = "doing" THEN "accepted" ELSE "done")
<1> DEFINE asg == [row.asg EXCEPT ![a] = IF to = "doing" THEN "accepted" ELSE "done"]
           follows == IF to = "doing" THEN row.status = "todo" ELSE i \in Requests \/ AllDone(asg)
           base == IF follows THEN SetStatus(row, to) ELSE row
<1>1. base \in ItemRow /\ base.status \in {row.status, to}
  BY SetStatusType DEF Status
<1>2. asg \in [Person -> {"none", "pending", "accepted", "done"}]
  BY DEF ItemRow
<1>3. AssigneeChange(row, i, a, to) = [base EXCEPT !.asg = asg]
  BY DEF AssigneeChange
<1> HIDE DEF asg, base
<1>4. /\ [base EXCEPT !.asg = asg] \in ItemRow
      /\ [base EXCEPT !.asg = asg].asg = asg
      /\ [base EXCEPT !.asg = asg].status = base.status
  BY <1>1, <1>2 DEF ItemRow
<1>5. \A q \in Person : asg[q] = IF q # a THEN row.asg[q] ELSE IF to = "doing" THEN "accepted" ELSE "done"
  BY DEF asg, ItemRow
<1> QED BY <1>1, <1>3, <1>4, <1>5

-----------------------------------------------------------------------------
(* Type correctness.                                                       *)

\* What a request is, by its kind.
LEMMA OpCases ==
    ASSUME TypeOK, NEW t \in Tx, pc[t] \in {"people", "items", "refs"}
    PROVE  /\ op[t].kind \in {"create", "change", "edit", "remove"}
           /\ op[t].by \in Person
           /\ op[t].who \in SUBSET Person
           /\ op[t].kind \in {"create", "change", "edit"} => op[t].item \in Item
           /\ op[t].kind = "change" => op[t].to \in Status
           /\ op[t].kind = "remove" => \E p \in Person : op[t].who = {p}
<1>1. op[t] \in Op /\ op[t] # NoOp
  BY DEF TypeOK
<1> QED BY <1>1 DEF Op, NoOp

LEMMA LocksType ==
    /\ \A who \in SUBSET Person : \A m \in Mode : PersonLocks(who, m) \subseteq Locks
    /\ \A which \in SUBSET Item : \A m \in Mode : ItemLocks(which, m) \subseteq Locks
    /\ \A i \in Item : \A m \in Mode : Lock(<<"clock", i>>, m) \in Locks
<1>1. \A who \in SUBSET Person : \A m \in Mode : PersonLocks(who, m) \subseteq Locks
  BY DEF PersonLocks, Lock, Locks, Row
<1>2. \A which \in SUBSET Item : \A m \in Mode : ItemLocks(which, m) \subseteq Locks
  BY DEF ItemLocks, Lock, Locks, Row
<1>3. \A i \in Item : \A m \in Mode : Lock(<<"clock", i>>, m) \in Locks
  BY DEF Lock, Locks, Row
<1> QED BY <1>1, <1>2, <1>3

LEMMA ModeType == "key_share" \in Mode /\ "no_key_update" \in Mode /\ "update" \in Mode
BY DEF Mode

\* The answer of an assignee is "started" or "done".
LEMMA ChangedItemType ==
    ASSUME TypeOK, NEW a \in Person, NEW i \in Item, NEW to \in Status, ChangeAllowed(a, i, to)
    PROVE  ChangedItem(a, i, to) \in ItemRow
<1>1. item[i] \in ItemRow
  BY DEF TypeOK
<1>2. CASE Manages(a, i, item[i])
  BY <1>1, <1>2, ManagerChangeType DEF ChangedItem
<1>3. CASE ~Manages(a, i, item[i])
  <2>1. to \in {"doing", "done"}
    BY <1>3 DEF ChangeAllowed
  <2> QED BY <1>1, <1>3, <2>1, AssigneeChangeType DEF ChangedItem
<1> QED BY <1>2, <1>3

LEMMA WrittenType ==
    ASSUME TypeOK, NEW t \in Tx, pc[t] = "items", Allowed(t)
    PROVE  /\ DOMAIN Written(t) \subseteq Item
           /\ Written(t) \in [DOMAIN Written(t) -> ItemRow]
<1> DEFINE o == op[t]
<1>0. /\ o.kind \in {"create", "change", "edit", "remove"}
      /\ o.by \in Person
      /\ o.who \in SUBSET Person
      /\ o.kind \in {"create", "change", "edit"} => o.item \in Item
      /\ o.kind = "change" => o.to \in Status
      /\ o.kind = "remove" => \E p \in Person : o.who = {p}
  BY OpCases
<1>1. \A i \in Item : item[i] \in ItemRow
  BY DEF TypeOK
<1>2. CASE o.kind = "create"
  <2>1. Written(t) = [i \in {o.item} |-> NewItem(i, o.who)]
    BY <1>2 DEF Written
  <2> QED BY <1>0, <1>2, <2>1, NewItemType
<1>3. CASE o.kind = "change"
  <2>1. Written(t) = [i \in {o.item} |-> ChangedItem(o.by, i, o.to)]
    BY <1>3 DEF Written
  <2>2. ChangeAllowed(o.by, o.item, o.to)
    BY <1>3 DEF Allowed
  <2>3. ChangedItem(o.by, o.item, o.to) \in ItemRow
    BY <1>0, <1>3, <2>2, ChangedItemType
  <2> QED BY <1>0, <1>3, <2>1, <2>3
<1>4. CASE o.kind = "edit"
  <2>1. Written(t) = [i \in {o.item} |-> [item[i] EXCEPT !.text = "edited"]]
    BY <1>4 DEF Written
  <2>2. [item[o.item] EXCEPT !.text = "edited"] \in ItemRow
    BY <1>0, <1>1, <1>4 DEF ItemRow
  <2> QED BY <1>0, <1>4, <2>1, <2>2
<1>5. CASE o.kind = "remove"
  <2> DEFINE p == CHOOSE q \in o.who : TRUE
  <2>1. Written(t) = [i \in StillOpen(t) |-> Withdraw(item[i], p)]
    BY <1>5 DEF Written
  <2>2. p \in Person
    BY <1>0, <1>5
  <2>3. StillOpen(t) \subseteq Item
    BY DEF StillOpen
  <2> HIDE DEF p
  <2>4. \A i \in StillOpen(t) : Withdraw(item[i], p) \in ItemRow
    BY <1>1, <2>2, <2>3, WithdrawType
  <2> QED BY <2>1, <2>3, <2>4
<1> QED BY <1>0, <1>2, <1>3, <1>4, <1>5

LEMMA RefsType ==
    ASSUME TypeOK, NEW t \in Tx, pc[t] = "items", NEW after, DOMAIN after \subseteq Item
    PROVE  Refs(t, after) \subseteq Locks
<1>1. Clocks(after) \subseteq Locks
  BY LocksType, ModeType DEF Clocks
<1>2. Referenced(t, after) \subseteq Person
  <2>1. /\ op[t].kind \in {"create", "change", "edit", "remove"}
        /\ op[t].by \in Person
        /\ op[t].who \in SUBSET Person
        /\ op[t].kind \in {"create", "change", "edit"} => op[t].item \in Item
    BY OpCases
  <2>2. \A row : Assignees(row) \subseteq Person
    BY DEF Assignees
  <2>3. \A i \in Item : Giver[i] \in Person
    BY PeopleAssumption
  <2> QED BY <2>1, <2>2, <2>3 DEF Referenced
<1>3. PersonLocks(Referenced(t, after), "key_share") \subseteq Locks
  BY <1>2, LocksType, ModeType
<1> QED BY <1>1, <1>3 DEF Refs

LEMMA InitType == Init => TypeOK
<1> SUFFICES ASSUME Init PROVE TypeOK
  OBVIOUS
<1>1. \A i \in Item : item[i] \in ItemRow
  <2> TAKE i \in Item
  <2>1. AbsentItem \in ItemRow
    BY DEF AbsentItem, ItemRow, Status
  <2>2. CASE item[i] = AbsentItem
    BY <2>1, <2>2
  <2>3. CASE \E who \in Recipients(i) : item[i] = NewItem(i, who)
    <3>1. Recipients(i) \subseteq SUBSET Person
      BY PeopleAssumption DEF Recipients
    <3> QED BY <2>3, <3>1, NewItemType
  <2> QED BY <2>2, <2>3 DEF Init
<1>2. item \in [Item -> ItemRow]
  <2>1. item = [i \in Item |-> item[i]]
    BY DEF Init
  <2> QED BY <1>1, <2>1
<1>3. write = [t \in Tx |-> NoWrite]
  BY DEF Init
<1>4. DOMAIN NoWrite = {} /\ NoWrite \in [{} -> ItemRow]
  BY DEF NoWrite
<1>5. pc \in [Tx -> Phase] /\ op \in [Tx -> Op] /\ \A t \in Tx : op[t] = NoOp <=> pc[t] \in {"idle", "ended"}
  BY DEF Init, Phase, Op
<1>6. want \in [Tx -> SUBSET Locks] /\ held \in [Tx -> SUBSET Locks]
  BY DEF Init
<1>7. archived \subseteq Person
  BY DEF Init
<1> QED BY <1>2, <1>3, <1>4, <1>5, <1>6, <1>7 DEF TypeOK

\* A request begins.
LEMMA BeginType ==
    ASSUME TypeOK, NEW t \in Tx, NEW o \in Op, o # NoOp, NEW locks \in SUBSET Locks, Begin(t, o, locks)
    PROVE  TypeOK'
<1>1. pc' \in [Tx -> Phase] /\ op' \in [Tx -> Op] /\ want' \in [Tx -> SUBSET Locks]
  BY DEF TypeOK, Begin, Phase
<1>2. \A u \in Tx : op'[u] = NoOp <=> pc'[u] \in {"idle", "ended"}
  BY DEF TypeOK, Begin
<1> QED BY <1>1, <1>2 DEF TypeOK, Begin

LEMMA StartType ==
    ASSUME TypeOK, NEW t \in Tx, Start(t)
    PROVE  TypeOK'
<1>0. \A i \in Item : Giver[i] \in Person
  BY PeopleAssumption
<1>5. \A i \in Item, a \in Person : ItemPeople(a, i) \subseteq Person
  BY <1>0 DEF ItemPeople, Assignees
<1>1. CASE BeginCreate(t)
  <2>0. \A i \in Item : Recipients(i) \subseteq SUBSET Person
    BY PeopleAssumption DEF Recipients
  <2>1. PICK i \in Item, who \in SUBSET Person :
          Begin(t, [kind |-> "create", by |-> Giver[i], item |-> i, to |-> "none", who |-> who],
                IF who = {Giver[i]} THEN {} ELSE PersonLocks(who, "key_share"))
    BY <1>1, <2>0 DEF BeginCreate
  <2> DEFINE o == [kind |-> "create", by |-> Giver[i], item |-> i, to |-> "none", who |-> who]
             locks == IF who = {Giver[i]} THEN {} ELSE PersonLocks(who, "key_share")
  <2>3. o \in Op /\ o # NoOp
    BY <1>0 DEF Op, NoOp
  <2>4. locks \in SUBSET Locks
    BY LocksType, ModeType
  <2> HIDE DEF o, locks
  <2> QED BY <2>1, <2>3, <2>4, BeginType DEF o, locks
<1>2. CASE BeginChange(t)
  <2>1. PICK i \in Item, a \in Person, to \in Status :
          Begin(t, [kind |-> "change", by |-> a, item |-> i, to |-> to, who |-> {}],
                PersonLocks(ItemPeople(a, i), "key_share"))
    BY <1>2 DEF BeginChange
  <2> DEFINE o == [kind |-> "change", by |-> a, item |-> i, to |-> to, who |-> {}]
  <2>2. o \in Op /\ o # NoOp
    BY DEF Op, NoOp
  <2>3. PersonLocks(ItemPeople(a, i), "key_share") \in SUBSET Locks
    BY <1>5, LocksType, ModeType
  <2> QED BY <2>1, <2>2, <2>3, BeginType
<1>3. CASE BeginEdit(t)
  <2>1. PICK i \in Item, a \in Person :
          Begin(t, [kind |-> "edit", by |-> a, item |-> i, to |-> "none", who |-> {}],
                PersonLocks(ItemPeople(a, i), "key_share"))
    BY <1>3 DEF BeginEdit
  <2> DEFINE o == [kind |-> "edit", by |-> a, item |-> i, to |-> "none", who |-> {}]
  <2>2. o \in Op /\ o # NoOp
    BY DEF Op, NoOp
  <2>3. PersonLocks(ItemPeople(a, i), "key_share") \in SUBSET Locks
    BY <1>5, LocksType, ModeType
  <2> QED BY <2>1, <2>2, <2>3, BeginType
<1>4. CASE BeginRemove(t)
  <2>1. PICK a \in Remover, p \in Removable :
          Begin(t, [kind |-> "remove", by |-> a, item |-> 0, to |-> "none", who |-> {p}], PersonLocks({p}, "update"))
    BY <1>4 DEF BeginRemove
  <2> DEFINE o == [kind |-> "remove", by |-> a, item |-> 0, to |-> "none", who |-> {p}]
  <2>2. a \in Person /\ p \in Person
    BY PeopleAssumption
  <2>3. o \in Op /\ o # NoOp
    BY <2>2 DEF Op, NoOp
  <2>4. PersonLocks({p}, "update") \in SUBSET Locks
    BY <2>2, LocksType, ModeType
  <2> QED BY <2>1, <2>3, <2>4, BeginType
<1> QED BY <1>1, <1>2, <1>3, <1>4 DEF Start

LEMMA ItemPhaseLocksType ==
    ASSUME TypeOK, NEW t \in Tx, pc[t] = "people"
    PROVE  ItemPhaseLocks(t) \subseteq Locks
<1>1. /\ op[t].kind \in {"create", "change", "edit", "remove"}
      /\ op[t].by \in Person
      /\ op[t].kind \in {"create", "change", "edit"} => op[t].item \in Item
  BY OpCases
<1>2. \A m \in Mode : op[t].kind \in {"create", "change", "edit"} => ItemLocks({op[t].item}, m) \subseteq Locks
  BY <1>1, LocksType
<1>3. UNION {Candidates(p) : p \in op[t].who} \subseteq Item
  BY DEF Candidates
<1>4. PersonLocks({op[t].by}, "key_share") \subseteq Locks
  BY <1>1, LocksType, ModeType
<1>5. ItemLocks(UNION {Candidates(p) : p \in op[t].who}, "no_key_update") \subseteq Locks
  BY <1>3, LocksType, ModeType
<1> QED BY <1>1, <1>2, <1>4, <1>5, ModeType DEF ItemPhaseLocks

\* A transaction ends.
LEMMA EndType ==
    ASSUME TypeOK, NEW t \in Tx, End(t), archived' \subseteq Person, item' \in [Item -> ItemRow]
    PROVE  TypeOK'
<1>1. DOMAIN NoWrite = {} /\ NoWrite \in [{} -> ItemRow]
  BY DEF NoWrite
<1>2. /\ write' = [u \in Tx |-> write'[u]]
      /\ \A u \in Tx : write'[u] = IF u = t THEN NoWrite ELSE write[u]
  BY DEF TypeOK, End
<1>3. \A u \in Tx : DOMAIN write'[u] \subseteq Item /\ write'[u] \in [DOMAIN write'[u] -> ItemRow]
  BY <1>1, <1>2 DEF TypeOK
<1>4. pc' \in [Tx -> Phase] /\ op' \in [Tx -> Op] /\ \A u \in Tx : op'[u] = NoOp <=> pc'[u] \in {"idle", "ended"}
  BY DEF TypeOK, End, Phase, Op
<1>5. want' \in [Tx -> SUBSET Locks] /\ held' \in [Tx -> SUBSET Locks]
  BY DEF TypeOK, End
<1> QED BY <1>2, <1>3, <1>4, <1>5 DEF TypeOK

LEMMA CommitItemType ==
    ASSUME TypeOK, NEW t \in Tx, Commit(t)
    PROVE  /\ archived' \subseteq Person
           /\ item' = [i \in Item |-> IF i \in DOMAIN write[t] THEN write[t][i] ELSE item[i]]
           /\ item' \in [Item -> ItemRow]
<1>1. op[t].who \in SUBSET Person
  BY OpCases DEF Commit
<1>2. archived' \subseteq Person
  BY <1>1 DEF Commit, TypeOK
<1>3. item' = [i \in Item |-> IF i \in DOMAIN write[t] THEN write[t][i] ELSE item[i]]
  BY DEF Commit
<1>4. \A i \in Item : (IF i \in DOMAIN write[t] THEN write[t][i] ELSE item[i]) \in ItemRow
  BY DEF TypeOK
<1> QED BY <1>2, <1>3, <1>4

LEMMA TypeStep == TypeOK /\ [Next]_vars => TypeOK'
<1> SUFFICES ASSUME TypeOK, [Next]_vars PROVE TypeOK'
  OBVIOUS
<1>1. CASE UNCHANGED vars
  BY <1>1 DEF TypeOK, vars
<1>2. ASSUME NEW t \in Tx, Start(t) PROVE TypeOK'
  BY <1>2, StartType
<1>3. ASSUME NEW t \in Tx, TakeLock(t) PROVE TypeOK'
  <2>1. want' \in [Tx -> SUBSET Locks] /\ held' \in [Tx -> SUBSET Locks]
    BY <1>3 DEF TypeOK, TakeLock
  <2> QED BY <1>3, <2>1 DEF TypeOK, TakeLock
<1>4. ASSUME NEW t \in Tx, DropRecipient(t) PROVE TypeOK'
  <2>1. PICK w \in want[t] : /\ DropsOut(t, w)
                            /\ want' = [want EXCEPT ![t] = @ \ {w}]
                            /\ op' = [op EXCEPT ![t].who = @ \ {w[1][2]}]
                            /\ UNCHANGED <<archived, item, pc, held, write>>
    BY <1>4 DEF DropRecipient
  <2>2. op[t].kind = "create" /\ pc[t] = "people" /\ op[t] \in Op
    BY <2>1 DEF DropsOut, TypeOK
  <2>3. op[t] \in [kind : {"create"}, by : Person, item : Item, to : {"none"}, who : SUBSET Person]
    BY <2>2 DEF Op, NoOp
  <2> DEFINE o == [op[t] EXCEPT !.who = @ \ {w[1][2]}]
  <2>4. o \in [kind : {"create"}, by : Person, item : Item, to : {"none"}, who : SUBSET Person]
    BY <2>3
  <2>5. o \in Op /\ o # NoOp
    BY <2>4 DEF Op, NoOp
  <2>6. op' = [op EXCEPT ![t] = o]
    BY <2>1
  <2>7. want' \in [Tx -> SUBSET Locks]
    BY <2>1 DEF TypeOK
  <2> HIDE DEF o
  <2>8. op' \in [Tx -> Op] /\ \A u \in Tx : op'[u] = NoOp <=> pc'[u] \in {"idle", "ended"}
    BY <2>1, <2>2, <2>5, <2>6 DEF TypeOK
  <2> QED BY <2>1, <2>7, <2>8 DEF TypeOK
<1>5. ASSUME NEW t \in Tx, LockItems(t) PROVE TypeOK'
  <2>1. ItemPhaseLocks(t) \subseteq Locks
    BY <1>5, ItemPhaseLocksType DEF LockItems
  <2>2. want' \in [Tx -> SUBSET Locks] /\ pc' \in [Tx -> Phase]
    BY <1>5, <2>1 DEF TypeOK, LockItems, Phase
  <2>3. \A u \in Tx : op'[u] = NoOp <=> pc'[u] \in {"idle", "ended"}
    BY <1>5 DEF TypeOK, LockItems
  <2> QED BY <1>5, <2>2, <2>3 DEF TypeOK, LockItems
<1>6. ASSUME NEW t \in Tx, Decide(t) PROVE TypeOK'
  <2>1. /\ DOMAIN Written(t) \subseteq Item
        /\ Written(t) \in [DOMAIN Written(t) -> ItemRow]
        /\ Refs(t, Written(t)) \subseteq Locks
    BY <1>6, WrittenType, RefsType DEF Decide
  <2>2. want' \in [Tx -> SUBSET Locks] /\ pc' \in [Tx -> Phase]
    BY <1>6, <2>1 DEF TypeOK, Decide, Phase
  <2>3. \A u \in Tx : op'[u] = NoOp <=> pc'[u] \in {"idle", "ended"}
    BY <1>6 DEF TypeOK, Decide
  <2>4. /\ write' = [u \in Tx |-> write'[u]]
        /\ \A u \in Tx : write'[u] = IF u = t THEN Written(t) ELSE write[u]
    BY <1>6 DEF TypeOK, Decide
  <2>5. \A u \in Tx : DOMAIN write'[u] \subseteq Item /\ write'[u] \in [DOMAIN write'[u] -> ItemRow]
    BY <2>1, <2>4 DEF TypeOK
  <2>6. archived' \subseteq Person /\ item' \in [Item -> ItemRow] /\ op' \in [Tx -> Op] /\ held' \in [Tx -> SUBSET Locks]
    BY <1>6 DEF TypeOK, Decide
  <2> QED BY <2>2, <2>3, <2>4, <2>5, <2>6 DEF TypeOK
<1>7. ASSUME NEW t \in Tx, Refuse(t) PROVE TypeOK'
  BY <1>7, EndType DEF Refuse, dbVars, TypeOK
<1>8. ASSUME NEW t \in Tx, Commit(t) PROVE TypeOK'
  BY <1>8, EndType, CommitItemType DEF Commit
<1>9. ASSUME NEW t \in Tx, Abort(t) PROVE TypeOK'
  BY <1>9, EndType DEF Abort, dbVars, TypeOK
<1> QED BY <1>1, <1>2, <1>3, <1>4, <1>5, <1>6, <1>7, <1>8, <1>9 DEF Next, Work

\* Every reachable state has the shape the code's tables and transactions have.
THEOREM TypeCorrect == Spec => []TypeOK
BY InitType, TypeStep, PTL DEF Spec

-----------------------------------------------------------------------------
(* Locks.                                                                  *)

LEMMA ConflictsSymmetric ==
    /\ \A m, n \in Mode : n \in ConflictsWith(m) => m \in ConflictsWith(n)
    /\ \A m \in Mode : ConflictsWith(m) \subseteq Mode
BY DEF Mode, ConflictsWith

LEMMA LocksExcludeStep ==
    ASSUME TypeOK, LocksExclude, [Next]_vars
    PROVE  LocksExclude'
<1>1. ASSUME NEW t \in Tx, TakeLock(t) PROVE LocksExclude'
  <2>1. PICK w \in want[t] : Grantable(t, w) /\ held' = [held EXCEPT ![t] = @ \union {w}]
    BY <1>1 DEF TakeLock
  <2>2. \A u \in Tx : held'[u] = IF u = t THEN held[t] \union {w} ELSE held[u]
    BY <2>1 DEF TypeOK
  <2>3. \A u \in Tx \ {t} : ~Collides(held[u], w)
    BY <2>1 DEF Grantable
  <2>4. ASSUME NEW u \in Tx \ {t}, NEW v \in held[u]
        PROVE  ~Collides(held[t] \union {w}, v)
    <3>1. ~Collides(held[t], v)
      BY <2>4 DEF LocksExclude
    <3>2. v \in Locks /\ w \in Locks
      BY DEF TypeOK
    <3>3. v = <<v[1], v[2]>> /\ v[2] \in Mode
      BY <3>2 DEF Locks
    <3>4. ASSUME NEW n \in ConflictsWith(v[2]), <<v[1], n>> = w
          PROVE  FALSE
      <4>1. n \in Mode /\ v[2] \in ConflictsWith(n)
        BY <3>3, ConflictsSymmetric
      <4>2. w[1] = v[1] /\ w[2] = n
        BY <3>4
      <4>3. Collides(held[u], w)
        BY <3>3, <4>1, <4>2 DEF Collides
      <4> QED BY <2>3, <4>3
    <3> QED BY <3>1, <3>4 DEF Collides
  <2> QED BY <2>2, <2>3, <2>4 DEF LocksExclude
<1>2. ASSUME NEW t \in Tx, End(t) PROVE LocksExclude'
  <2>1. \A u \in Tx : held'[u] = IF u = t THEN {} ELSE held[u]
    BY <1>2 DEF End, TypeOK
  <2> QED BY <2>1 DEF LocksExclude, Collides
<1>3. CASE UNCHANGED held
  BY <1>3 DEF LocksExclude
<1> QED
  BY <1>1, <1>2, <1>3
  DEF Next, vars, Start, Work, BeginCreate, BeginChange, BeginEdit, BeginRemove, Begin,
      DropRecipient, LockItems, Decide, Refuse, Commit, Abort

\* A shared person and a person held for their removal exclude each other.
LEMMA ShareExcludesRemoval ==
    ASSUME LocksExclude, NEW t \in Tx, NEW u \in Tx, t # u, NEW p \in Person,
           Share(p) \in held[t], Lock(<<"person", p>>, "update") \in held[u]
    PROVE  FALSE
BY DEF LocksExclude, Share, Lock, Collides, ConflictsWith

\* An item has one writer.
LEMMA OneHolder ==
    ASSUME LocksExclude, NEW t \in Tx, NEW u \in Tx, t # u, NEW i \in Item, HoldsItem(t, i), HoldsItem(u, i)
    PROVE  FALSE
<1>1. \A m, n \in {"no_key_update", "update"} : n \in ConflictsWith(m)
  BY DEF ConflictsWith, Mode
<1>2. PICK m \in {"no_key_update", "update"} : <<<<"item", i>>, m>> \in held[t]
  BY DEF HoldsItem, Lock
<1>3. PICK n \in {"no_key_update", "update"} : <<<<"item", i>>, n>> \in held[u]
  BY DEF HoldsItem, Lock
<1> QED BY <1>1, <1>2, <1>3 DEF LocksExclude, Collides

\* A step of t leaves the other transactions alone.
LEMMA OthersUnchanged ==
    ASSUME TypeOK, NEW t \in Tx, Start(t) \/ Work(t) \/ Abort(t), NEW u \in Tx, u # t
    PROVE  /\ pc'[u] = pc[u] /\ op'[u] = op[u] /\ want'[u] = want[u]
           /\ held'[u] = held[u] /\ write'[u] = write[u]
<1>1. CASE Start(t)
  BY <1>1 DEF TypeOK, Start, BeginCreate, BeginChange, BeginEdit, BeginRemove, Begin
<1>2. CASE TakeLock(t)
  BY <1>2 DEF TypeOK, TakeLock
<1>3. CASE DropRecipient(t)
  BY <1>3 DEF TypeOK, DropRecipient
<1>4. CASE LockItems(t) \/ Decide(t)
  BY <1>4 DEF TypeOK, LockItems, Decide
<1>5. CASE End(t)
  BY <1>5 DEF TypeOK, End
<1> QED BY <1>1, <1>2, <1>3, <1>4, <1>5 DEF Work, Refuse, Commit, Abort

\* What the transaction itself keeps while it takes a lock, and asks for in all.
LEMMA TakeLockFacts ==
    ASSUME TypeOK, NEW t \in Tx, TakeLock(t)
    PROVE  /\ UNCHANGED <<archived, item, pc, op, write>>
           /\ Asked(t)' = Asked(t)
           /\ held[t] \subseteq held'[t]
<1>1. PICK w \in want[t] : /\ want' = [want EXCEPT ![t] = @ \ {w}]
                          /\ held' = [held EXCEPT ![t] = @ \union {w}]
  BY DEF TakeLock
<1>2. want'[t] = want[t] \ {w} /\ held'[t] = held[t] \union {w}
  BY <1>1 DEF TypeOK
<1> QED BY <1>2 DEF TakeLock, Asked

\* An ended transaction has nothing.
LEMMA EndFacts ==
    ASSUME TypeOK, NEW t \in Tx, End(t)
    PROVE  /\ op'[t] = NoOp /\ pc'[t] \in {"idle", "ended"}
           /\ DOMAIN write'[t] = {}
BY DEF TypeOK, End, NoWrite

LEMMA WritersHoldItemStep ==
    ASSUME TypeOK, WritersHoldItem, NEW t \in Tx, Start(t) \/ Work(t) \/ Abort(t)
    PROVE  WritersHoldItem'
<1> DEFINE Mine(s) == /\ \A i \in DOMAIN write[s] : HoldsItem(s, i)
                      /\ pc[s] = "items" /\ op[s].kind = "create" =>
                            Lock(<<"item", op[s].item>>, "update") \in Asked(s)
                      /\ pc[s] = "items" /\ op[s].kind \in {"change", "edit"} =>
                            Lock(<<"item", op[s].item>>, "no_key_update") \in Asked(s)
<1>1. ASSUME NEW u \in Tx, u # t PROVE Mine(u)'
  BY <1>1, OthersUnchanged DEF WritersHoldItem, HoldsItem, Asked
<1>2. Mine(t)'
  <2>1. CASE Start(t)
    <3>1. pc'[t] = "people" /\ held' = held /\ write' = write
      BY <2>1 DEF TypeOK, Start, BeginCreate, BeginChange, BeginEdit, BeginRemove, Begin
    <3> QED BY <3>1 DEF WritersHoldItem, HoldsItem
  <2>2. CASE TakeLock(t)
    BY <2>2, TakeLockFacts DEF WritersHoldItem, HoldsItem
  <2>3. CASE DropRecipient(t)
    <3>1. pc'[t] = "people" /\ held' = held /\ write' = write
      BY <2>3 DEF DropRecipient, DropsOut
    <3> QED BY <3>1 DEF WritersHoldItem, HoldsItem
  <2>4. CASE LockItems(t)
    <3>1. /\ pc'[t] = "items" /\ held' = held /\ write' = write /\ op' = op
          /\ want'[t] = ItemPhaseLocks(t)
      BY <2>4 DEF TypeOK, LockItems
    <3>2. /\ op[t].kind = "create" => Lock(<<"item", op[t].item>>, "update") \in ItemPhaseLocks(t)
          /\ op[t].kind \in {"change", "edit"} =>
                Lock(<<"item", op[t].item>>, "no_key_update") \in ItemPhaseLocks(t)
      BY DEF ItemPhaseLocks, ItemLocks
    <3> QED BY <3>1, <3>2 DEF WritersHoldItem, HoldsItem, Asked
  <2>5. CASE Decide(t)
    <3>1. pc'[t] = "refs" /\ held' = held /\ write'[t] = Written(t)
      BY <2>5 DEF TypeOK, Decide
    <3>2. pc[t] = "items" /\ want[t] = {}
      BY <2>5 DEF Decide
    <3>3. op[t].kind \in {"create", "change", "edit", "remove"}
      BY <3>2, OpCases
    <3>4. \A i \in DOMAIN Written(t) : HoldsItem(t, i)
      BY <3>2, <3>3 DEF WritersHoldItem, HoldsItem, Written, StillOpen, Asked
    <3> QED BY <3>1, <3>4 DEF HoldsItem
  <2>6. CASE End(t)
    BY <2>6, EndFacts
  <2> QED BY <2>1, <2>2, <2>3, <2>4, <2>5, <2>6 DEF Work, Refuse, Commit, Abort
<1> QED BY <1>1, <1>2 DEF WritersHoldItem

-----------------------------------------------------------------------------
(* What a commit does to the others.                                       *)

LEMMA WithdrawFacts ==
    ASSUME NEW row \in ItemRow, NEW i \in Item, NEW p \in Person
    PROVE  /\ Assignees(Withdraw(row, p)) \subseteq Assignees(row)
           /\ ~Unfinished(Withdraw(row, p), i, p)
           /\ \A q \in Person : Unfinished(Withdraw(row, p), i, q) => Unfinished(row, i, q)
<1>1. /\ Withdraw(row, p).asg = [row.asg EXCEPT ![p] = "none"]
      /\ Withdraw(row, p).status \in {row.status, "done"}
      /\ row.asg \in [Person -> {"none", "pending", "accepted", "done"}]
  BY WithdrawType DEF ItemRow
<1> QED BY <1>1 DEF Assignees, Unfinished, Open

\* The strengthening of RemovedNotCounted.
IInv == TypeOK /\ LockDiscipline /\ RemovedNotCounted

LEMMA RemovalFacts ==
    ASSUME IInv, NEW t \in Tx, op[t].kind = "remove"
    PROVE  \E p \in Person :
            /\ op[t].who = {p}
            /\ pc[t] = "people" => Lock(<<"person", p>>, "update") \in Asked(t)
            /\ pc[t] \in {"items", "refs"} => Lock(<<"person", p>>, "update") \in held[t]
            /\ pc[t] = "items" =>
                 \A i \in Item : Unfinished(item[i], i, p) =>
                                    Lock(<<"item", i>>, "no_key_update") \in Asked(t)
            /\ pc[t] = "refs" =>
                 /\ \A i \in Item : Unfinished(item[i], i, p) => i \in DOMAIN write[t]
                 /\ \A i \in DOMAIN write[t] : write[t][i] = Withdraw(item[i], p)
BY DEF IInv, LockDiscipline, RemovalSeesAll

LEMMA CommitFacts ==
    ASSUME IInv, NEW t \in Tx, Commit(t)
    PROVE  /\ \A u \in Tx \ {t} : \A i \in DOMAIN write[u] : item'[i] = item[i]
           /\ \A i \in Item : item[i].status # "absent" =>
                /\ item'[i].status # "absent"
                /\ Assignees(item'[i]) \subseteq Assignees(item[i])
           /\ \A u \in Tx \ {t}, p \in Person, i \in Item :
                Lock(<<"person", p>>, "update") \in held[u] /\ Unfinished(item'[i], i, p)
                    => Unfinished(item[i], i, p)
           /\ \A u \in Tx \ {t}, p \in Person :
                Share(p) \in held[u] /\ p \notin archived => p \notin archived'
<1>0. /\ TypeOK /\ LocksExclude /\ WritersHoldItem /\ WritesAreSafe /\ RemovedNotCounted
      /\ pc[t] = "refs"
  BY DEF IInv, LockDiscipline, Commit
<1>1. /\ \A i \in Item : item'[i] = IF i \in DOMAIN write[t] THEN write[t][i] ELSE item[i]
      /\ \A u \in Tx : DOMAIN write[u] \subseteq Item
      /\ \A i \in Item : item[i] \in ItemRow
  BY <1>0, CommitItemType DEF TypeOK
<1>2. ASSUME NEW u \in Tx \ {t}, NEW i \in DOMAIN write[u] PROVE item'[i] = item[i]
  <2>1. i \in Item /\ HoldsItem(u, i)
    BY <1>0, <1>1 DEF WritersHoldItem
  <2>2. i \notin DOMAIN write[t]
    BY <1>0, <2>1, OneHolder DEF WritersHoldItem
  <2> QED BY <1>1, <2>1, <2>2
<1>3. ASSUME NEW i \in Item, item[i].status # "absent"
      PROVE  item'[i].status # "absent" /\ Assignees(item'[i]) \subseteq Assignees(item[i])
  BY <1>0, <1>1, <1>3 DEF WritesAreSafe
<1>4. ASSUME NEW u \in Tx \ {t}, NEW p \in Person, NEW i \in Item,
             Lock(<<"person", p>>, "update") \in held[u], Unfinished(item'[i], i, p)
      PROVE  Unfinished(item[i], i, p)
  <2>1. CASE i \notin DOMAIN write[t]
    BY <1>1, <1>4, <2>1
  <2>2. CASE i \in DOMAIN write[t] /\ op[t].kind # "remove"
    <3>1. Share(p) \in held[t]
      BY <1>0, <1>1, <1>4, <2>2 DEF WritesAreSafe
    <3> QED BY <1>0, <1>4, <3>1, ShareExcludesRemoval
  <2>3. CASE i \in DOMAIN write[t] /\ op[t].kind = "remove"
    <3>1. PICK q \in Person : write[t][i] = Withdraw(item[i], q)
      BY <1>0, <2>3, RemovalFacts
    <3>2. item'[i] = Withdraw(item[i], q)
      BY <1>1, <2>3, <3>1
    <3> QED BY <1>1, <1>4, <3>2, WithdrawFacts
  <2> QED BY <2>1, <2>2, <2>3
<1>5. ASSUME NEW u \in Tx \ {t}, NEW p \in Person, Share(p) \in held[u], p \notin archived
      PROVE  p \notin archived'
  <2>1. CASE op[t].kind # "remove"
    BY <1>5, <2>1 DEF Commit
  <2>2. CASE op[t].kind = "remove"
    <3>1. PICK q \in Person : op[t].who = {q} /\ Lock(<<"person", q>>, "update") \in held[t]
      BY <1>0, <2>2, RemovalFacts
    <3>2. p # q
      BY <1>0, <1>5, <3>1, ShareExcludesRemoval
    <3> QED BY <1>5, <2>2, <3>1, <3>2 DEF Commit
  <2> QED BY <2>1, <2>2
<1> QED BY <1>2, <1>3, <1>4, <1>5

\* A removal that commits has taken its person out of every open item, and no
\* other commit gives unfinished work to a removed person.
LEMMA RemovedNotCountedStep ==
    ASSUME IInv, NEW t \in Tx, Start(t) \/ Work(t) \/ Abort(t)
    PROVE  RemovedNotCounted'
<1>1. CASE Commit(t)
  <2>0. /\ TypeOK /\ WritesAreSafe /\ RemovedNotCounted /\ pc[t] = "refs"
    BY <1>1 DEF IInv, LockDiscipline, Commit
  <2>1. /\ \A i \in Item : item'[i] = IF i \in DOMAIN write[t] THEN write[t][i] ELSE item[i]
        /\ \A i \in Item : item[i] \in ItemRow
        /\ archived \subseteq Person
    BY <1>1, <2>0, CommitItemType DEF TypeOK
  <2>2. CASE op[t].kind # "remove"
    <3>1. archived' = archived
      BY <1>1, <2>2 DEF Commit
    <3>2. \A i \in Item, p \in archived : ~Unfinished(item'[i], i, p)
      BY <2>0, <2>1, <2>2 DEF WritesAreSafe, RemovedNotCounted
    <3> QED BY <3>1, <3>2 DEF RemovedNotCounted
  <2>3. CASE op[t].kind = "remove"
    <3>1. PICK q \in Person :
            /\ op[t].who = {q}
            /\ \A i \in Item : Unfinished(item[i], i, q) => i \in DOMAIN write[t]
            /\ \A i \in DOMAIN write[t] : write[t][i] = Withdraw(item[i], q)
      BY <2>0, <2>3, RemovalFacts
    <3>2. archived' = archived \union {q}
      BY <1>1, <2>3, <3>1 DEF Commit
    <3>3. ASSUME NEW i \in Item, NEW p \in archived'
          PROVE  ~Unfinished(item'[i], i, p)
      <4>1. p \in Person
        BY <2>1, <3>2, <3>3
      <4>2. CASE i \in DOMAIN write[t]
        <5>1. item'[i] = Withdraw(item[i], q)
          BY <2>1, <3>1, <4>2
        <5>2. p = q \/ ~Unfinished(item[i], i, p)
          BY <2>0, <3>2, <3>3 DEF RemovedNotCounted
        <5> QED BY <2>1, <4>1, <5>1, <5>2, WithdrawFacts
      <4>3. CASE i \notin DOMAIN write[t]
        BY <2>0, <2>1, <3>1, <3>2, <4>3 DEF RemovedNotCounted
      <4> QED BY <4>2, <4>3
    <3> QED BY <3>3 DEF RemovedNotCounted
  <2> QED BY <2>2, <2>3
<1>2. CASE UNCHANGED dbVars
  BY <1>2 DEF IInv, RemovedNotCounted, dbVars
<1> QED
  BY <1>1, <1>2
  DEF Start, Work, BeginCreate, BeginChange, BeginEdit, BeginRemove, Begin, TakeLock,
      DropRecipient, LockItems, Decide, Refuse, Abort, dbVars

-----------------------------------------------------------------------------
(* The rest of the discipline, one lemma per conjunct.                     *)

\* Every step but a commit leaves the database as it is.
LEMMA OnlyCommitsWrite ==
    ASSUME NEW t \in Tx, Start(t) \/ Work(t) \/ Abort(t)
    PROVE  Commit(t) \/ (archived' = archived /\ item' = item)
BY DEF Start, Work, BeginCreate, BeginChange, BeginEdit, BeginRemove, Begin, TakeLock,
       DropRecipient, LockItems, Decide, Refuse, Abort, dbVars

\* What each beginning asks for.
LEMMA StartFacts ==
    ASSUME TypeOK, NEW t \in Tx, Start(t)
    PROVE  /\ pc[t] = "idle" /\ pc'[t] = "people"
           /\ UNCHANGED <<archived, item, held, write>>
           /\ \/ \E i \in Item : /\ op'[t].kind = "create" /\ op'[t].item = i /\ op'[t].by = Giver[i]
                                 /\ \A p \in op'[t].who \ {Giver[i]} : Share(p) \in want'[t]
              \/ \E i \in Item, a \in Person :
                    /\ op'[t].kind \in {"change", "edit"} /\ op'[t].item = i /\ op'[t].by = a
                    /\ item[i].status # "absent"
                    /\ want'[t] = PersonLocks(ItemPeople(a, i), "key_share")
              \/ \E p \in Person :
                    /\ op'[t].kind = "remove" /\ op'[t].who = {p}
                    /\ Lock(<<"person", p>>, "update") \in want'[t]
<1>0. \A o, locks : Begin(t, o, locks) => /\ pc[t] = "idle" /\ pc'[t] = "people"
                                          /\ UNCHANGED <<archived, item, held, write>>
                                          /\ op'[t] = o /\ want'[t] = locks
  BY DEF Begin, TypeOK
<1>1. CASE BeginCreate(t)
  <2>1. PICK i \in Item, who \in SUBSET Reach :
          Begin(t, [kind |-> "create", by |-> Giver[i], item |-> i, to |-> "none", who |-> who],
                IF who = {Giver[i]} THEN {} ELSE PersonLocks(who, "key_share"))
    BY <1>1 DEF BeginCreate, Recipients
  <2>2. /\ op'[t] = [kind |-> "create", by |-> Giver[i], item |-> i, to |-> "none", who |-> who]
        /\ want'[t] = IF who = {Giver[i]} THEN {} ELSE PersonLocks(who, "key_share")
    BY <1>0, <2>1
  <2>3. \A p \in who \ {Giver[i]} : Share(p) \in want'[t]
    BY <2>2 DEF PersonLocks, Share
  <2> QED BY <1>0, <2>1, <2>2, <2>3
<1>2. CASE BeginChange(t)
  <2>1. PICK i \in Item, a \in Person, to \in Status :
          /\ CanView(a, i)
          /\ Begin(t, [kind |-> "change", by |-> a, item |-> i, to |-> to, who |-> {}],
                   PersonLocks(ItemPeople(a, i), "key_share"))
    BY <1>2 DEF BeginChange
  <2>2. /\ op'[t] = [kind |-> "change", by |-> a, item |-> i, to |-> to, who |-> {}]
        /\ want'[t] = PersonLocks(ItemPeople(a, i), "key_share")
        /\ item[i].status # "absent"
    BY <1>0, <2>1 DEF CanView
  <2> QED BY <1>0, <2>1, <2>2
<1>3. CASE BeginEdit(t)
  <2>1. PICK i \in Item, a \in Person :
          /\ CanView(a, i)
          /\ Begin(t, [kind |-> "edit", by |-> a, item |-> i, to |-> "none", who |-> {}],
                   PersonLocks(ItemPeople(a, i), "key_share"))
    BY <1>3 DEF BeginEdit
  <2>2. /\ op'[t] = [kind |-> "edit", by |-> a, item |-> i, to |-> "none", who |-> {}]
        /\ want'[t] = PersonLocks(ItemPeople(a, i), "key_share")
        /\ item[i].status # "absent"
    BY <1>0, <2>1 DEF CanView
  <2> QED BY <1>0, <2>1, <2>2
<1>4. CASE BeginRemove(t)
  <2>1. PICK a \in Remover, p \in Removable :
          Begin(t, [kind |-> "remove", by |-> a, item |-> 0, to |-> "none", who |-> {p}], PersonLocks({p}, "update"))
    BY <1>4 DEF BeginRemove
  <2>2. /\ op'[t] = [kind |-> "remove", by |-> a, item |-> 0, to |-> "none", who |-> {p}]
        /\ want'[t] = PersonLocks({p}, "update")
    BY <1>0, <2>1
  <2>3. p \in Person /\ Lock(<<"person", p>>, "update") \in want'[t]
    BY <2>2, PeopleAssumption DEF PersonLocks
  <2> QED BY <1>0, <2>1, <2>2, <2>3
<1> QED BY <1>1, <1>2, <1>3, <1>4 DEF Start

\* Moving on to the items and to the decision.
LEMMA PhaseFacts ==
    ASSUME TypeOK, NEW t \in Tx
    PROVE  /\ LockItems(t) => /\ pc[t] = "people" /\ pc'[t] = "items" /\ want[t] = {}
                              /\ UNCHANGED <<archived, item, op, held, write>>
                              /\ want'[t] = ItemPhaseLocks(t)
           /\ Decide(t) => /\ pc[t] = "items" /\ pc'[t] = "refs" /\ want[t] = {} /\ Allowed(t)
                           /\ UNCHANGED <<archived, item, op, held>>
                           /\ write'[t] = Written(t)
                           /\ want'[t] = Refs(t, Written(t))
<1>1. LockItems(t) => /\ pc[t] = "people" /\ pc'[t] = "items" /\ want[t] = {}
                      /\ UNCHANGED <<archived, item, op, held, write>>
                      /\ want'[t] = ItemPhaseLocks(t)
  BY DEF TypeOK, LockItems
<1>2. Decide(t) => /\ pc[t] = "items" /\ pc'[t] = "refs" /\ want[t] = {} /\ Allowed(t)
                   /\ UNCHANGED <<archived, item, op, held>>
                   /\ write'[t] = Written(t)
                   /\ want'[t] = Refs(t, Written(t))
  BY DEF TypeOK, Decide
<1> QED BY <1>1, <1>2

\* A recipient who is gone leaves the new item's list.
LEMMA DropFacts ==
    ASSUME TypeOK, NEW t \in Tx, DropRecipient(t)
    PROVE  /\ op[t].kind = "create" /\ pc[t] = "people"
           /\ UNCHANGED <<archived, item, pc, held, write>>
           /\ \E w \in want[t] :
                /\ want'[t] = want[t] \ {w}
                /\ op'[t].kind = "create" /\ op'[t].by = op[t].by /\ op'[t].item = op[t].item
                /\ op'[t].who = op[t].who \ {w[1][2]}
<1>1. PICK w \in want[t] : /\ DropsOut(t, w)
                          /\ want'[t] = want[t] \ {w}
                          /\ op'[t] = [op[t] EXCEPT !.who = @ \ {w[1][2]}]
                          /\ UNCHANGED <<archived, item, pc, held, write>>
  BY DEF DropRecipient, TypeOK
<1>2. op[t].kind = "create" /\ pc[t] = "people"
  BY <1>1 DEF DropsOut
<1>3. op[t] \in [kind : {"create"}, by : Person, item : Item, to : {"none"}, who : SUBSET Person]
  BY <1>2 DEF TypeOK, Op, NoOp
<1> QED BY <1>1, <1>2, <1>3

LEMMA PeopleCoveredStep ==
    ASSUME IInv, NEW t \in Tx, Start(t) \/ Work(t) \/ Abort(t)
    PROVE  PeopleCovered'
<1> DEFINE People(u) == {op[u].by} \union Assignees(item[op[u].item])
                         \union (IF op[u].item \in Requests THEN {Giver[op[u].item]} ELSE {})
           Covered(u) == op[u].kind \in {"change", "edit"} =>
                           /\ item[op[u].item].status # "absent"
                           /\ pc[u] \in {"people", "items", "refs"}
                           /\ \A p \in People(u) : Share(p) \in (IF pc[u] = "people" THEN Asked(u) ELSE held[u])
<1>0. TypeOK /\ \A u \in Tx : Covered(u)
  BY DEF IInv, LockDiscipline, PeopleCovered
<1>1. ASSUME NEW u \in Tx, u # t PROVE Covered(u)'
  <2>1. /\ pc'[u] = pc[u] /\ op'[u] = op[u] /\ want'[u] = want[u] /\ held'[u] = held[u]
    BY <1>0, <1>1, OthersUnchanged
  <2>2. CASE op[u].kind \in {"change", "edit"}
    <3>1. pc[u] \in {"people", "items", "refs"} /\ op[u].item \in Item
      BY <1>0, <2>2, OpCases
    <3>2. /\ item'[op[u].item].status # "absent"
          /\ Assignees(item'[op[u].item]) \subseteq Assignees(item[op[u].item])
      BY <1>0, <2>2, <3>1, CommitFacts, OnlyCommitsWrite
    <3> QED BY <1>0, <2>1, <3>1, <3>2 DEF Asked
  <2> QED BY <2>1, <2>2
<1>2. Covered(t)'
  <2>1. CASE Start(t)
    <3>1. CASE \E i \in Item, a \in Person :
                 /\ op'[t].kind \in {"change", "edit"} /\ op'[t].item = i /\ op'[t].by = a
                 /\ item[i].status # "absent"
                 /\ want'[t] = PersonLocks(ItemPeople(a, i), "key_share")
      BY <1>0, <2>1, <3>1, StartFacts DEF ItemPeople, PersonLocks, Share, Asked
    <3> QED BY <1>0, <2>1, <3>1, StartFacts
  <2>2. CASE TakeLock(t)
    BY <1>0, <2>2, TakeLockFacts
  <2>3. CASE DropRecipient(t)
    BY <1>0, <2>3, DropFacts
  <2>4. CASE LockItems(t)
    BY <1>0, <2>4, PhaseFacts DEF Asked
  <2>5. CASE Decide(t)
    BY <1>0, <2>5, PhaseFacts DEF Asked
  <2>6. CASE End(t)
    BY <1>0, <2>6, EndFacts DEF NoOp
  <2> QED BY <2>1, <2>2, <2>3, <2>4, <2>5, <2>6 DEF Work, Refuse, Commit, Abort
<1> QED BY <1>1, <1>2 DEF PeopleCovered

LEMMA RecipientsCoveredStep ==
    ASSUME IInv, NEW t \in Tx, Start(t) \/ Work(t) \/ Abort(t)
    PROVE  RecipientsCovered'
<1> DEFINE Covered(u) == op[u].kind = "create" =>
                           /\ pc[u] \in {"people", "items", "refs"}
                           /\ op[u].by = Giver[op[u].item]
                           /\ \A p \in op[u].who \ {op[u].by} :
                                 \/ pc[u] = "people" /\ Share(p) \in want[u]
                                 \/ Share(p) \in held[u] /\ p \notin archived
<1>0. TypeOK /\ \A u \in Tx : Covered(u)
  BY DEF IInv, LockDiscipline, RecipientsCovered
<1>1. ASSUME NEW u \in Tx, u # t PROVE Covered(u)'
  <2>1. /\ pc'[u] = pc[u] /\ op'[u] = op[u] /\ want'[u] = want[u] /\ held'[u] = held[u]
    BY <1>0, <1>1, OthersUnchanged
  <2>2. CASE op[u].kind = "create"
    <3>1. op[u].who \in SUBSET Person
      BY <1>0, <2>2, OpCases
    <3>2. \A p \in op[u].who : Share(p) \in held[u] /\ p \notin archived => p \notin archived'
      BY <1>1, <3>1, CommitFacts, OnlyCommitsWrite
    <3> QED BY <1>0, <2>1, <2>2, <3>2
  <2> QED BY <2>1, <2>2
<1>2. Covered(t)'
  <2>1. CASE Start(t)
    BY <1>0, <2>1, StartFacts
  <2>2. CASE TakeLock(t)
    <3>1. PICK w \in want[t] : /\ ~DropsOut(t, w)
                              /\ want'[t] = want[t] \ {w} /\ held'[t] = held[t] \union {w}
                              /\ UNCHANGED <<archived, item, pc, op, write>>
      BY <1>0, <2>2 DEF TakeLock, TypeOK
    <3>2. ASSUME op[t].kind = "create", NEW p \in op[t].who \ {op[t].by}
          PROVE  \/ pc[t] = "people" /\ Share(p) \in want'[t]
                 \/ Share(p) \in held'[t] /\ p \notin archived
      <4>1. CASE w = Share(p) /\ pc[t] = "people"
        <5>1. w[1][2] = p
          BY <4>1 DEF Share, Lock
        <5> QED BY <3>1, <3>2, <4>1, <5>1 DEF DropsOut
      <4> QED BY <1>0, <3>1, <3>2, <4>1
    <3> QED BY <1>0, <3>1, <3>2
  <2>3. CASE DropRecipient(t)
    <3>1. PICK w \in want[t] : /\ want'[t] = want[t] \ {w}
                              /\ op'[t].kind = "create" /\ op'[t].by = op[t].by /\ op'[t].item = op[t].item
                              /\ op'[t].who = op[t].who \ {w[1][2]}
      BY <1>0, <2>3, DropFacts
    <3>2. op[t].kind = "create" /\ pc[t] = "people" /\ UNCHANGED <<archived, item, pc, held, write>>
      BY <1>0, <2>3, DropFacts
    <3>3. \A p : p # w[1][2] => Share(p) # w
      BY DEF Share, Lock
    <3> QED BY <1>0, <3>1, <3>2, <3>3
  <2>4. CASE LockItems(t)
    BY <1>0, <2>4, PhaseFacts
  <2>5. CASE Decide(t)
    BY <1>0, <2>5, PhaseFacts
  <2>6. CASE End(t)
    BY <1>0, <2>6, EndFacts DEF NoOp
  <2> QED BY <2>1, <2>2, <2>3, <2>4, <2>5, <2>6 DEF Work, Refuse, Commit, Abort
<1> QED BY <1>1, <1>2 DEF RecipientsCovered

LEMMA RemovalSeesAllStep ==
    ASSUME IInv, NEW t \in Tx, Start(t) \/ Work(t) \/ Abort(t)
    PROVE  RemovalSeesAll'
<1> DEFINE Sees(u, p) ==
             /\ op[u].who = {p}
             /\ pc[u] \in {"people", "items", "refs"}
             /\ Lock(<<"person", p>>, "update") \in (IF pc[u] = "people" THEN Asked(u) ELSE held[u])
             /\ pc[u] = "items" =>
                  \A i \in Item : Unfinished(item[i], i, p) =>
                                     Lock(<<"item", i>>, "no_key_update") \in Asked(u)
             /\ pc[u] = "refs" =>
                  /\ \A i \in Item : Unfinished(item[i], i, p) => i \in DOMAIN write[u]
                  /\ \A i \in DOMAIN write[u] : write[u][i] = Withdraw(item[i], p)
<1>0. /\ TypeOK
      /\ \A u \in Tx : op[u].kind = "remove" => \E p \in Person : Sees(u, p)
  BY DEF IInv, LockDiscipline, RemovalSeesAll
<1>1. ASSUME NEW u \in Tx, u # t, op'[u].kind = "remove"
      PROVE  \E p \in Person : Sees(u, p)'
  <2>1. /\ pc'[u] = pc[u] /\ op'[u] = op[u] /\ want'[u] = want[u]
        /\ held'[u] = held[u] /\ write'[u] = write[u]
    BY <1>0, <1>1, OthersUnchanged
  <2>2. PICK p \in Person : Sees(u, p)
    BY <1>0, <1>1, <2>1
  <2>3. CASE archived' = archived /\ item' = item
    BY <2>1, <2>2, <2>3 DEF Asked
  <2>4. CASE Commit(t)
    <3>1. \A i \in DOMAIN write[u] : item'[i] = item[i]
      BY <1>1, <2>4, CommitFacts
    <3>2. pc[u] \in {"items", "refs"} =>
            \A i \in Item : Unfinished(item'[i], i, p) => Unfinished(item[i], i, p)
      BY <1>1, <2>2, <2>4, CommitFacts
    <3> QED BY <2>1, <2>2, <3>1, <3>2 DEF Asked
  <2> QED BY <2>3, <2>4, OnlyCommitsWrite
<1>2. ASSUME op'[t].kind = "remove"
      PROVE  \E p \in Person : Sees(t, p)'
  <2>1. CASE Start(t)
    <3>1. PICK p \in Person : op'[t].who = {p} /\ Lock(<<"person", p>>, "update") \in want'[t]
      BY <1>0, <1>2, <2>1, StartFacts
    <3> QED BY <1>0, <2>1, <3>1, StartFacts DEF Asked
  <2>2. CASE TakeLock(t)
    <3>1. PICK p \in Person : Sees(t, p)
      BY <1>0, <1>2, <2>2, TakeLockFacts
    <3> QED BY <1>0, <2>2, <3>1, TakeLockFacts
  <2>3. CASE DropRecipient(t)
    BY <1>0, <1>2, <2>3, DropFacts
  <2>4. CASE LockItems(t)
    <3>1. PICK p \in Person : Sees(t, p)
      BY <1>0, <1>2, <2>4, PhaseFacts
    <3>2. \A i \in Item : Unfinished(item[i], i, p) =>
                           Lock(<<"item", i>>, "no_key_update") \in ItemPhaseLocks(t)
      <4> TAKE i \in Item
      <4> HAVE Unfinished(item[i], i, p)
      <4>1. i \in UNION {Candidates(q) : q \in op[t].who}
        BY <3>1 DEF Candidates
      <4>2. op[t].kind = "remove"
        BY <1>2, <1>0, <2>4, PhaseFacts
      <4> QED BY <4>1, <4>2 DEF ItemPhaseLocks, ItemLocks
    <3> QED BY <1>0, <2>4, <3>1, <3>2, PhaseFacts DEF Asked
  <2>5. CASE Decide(t)
    <3>1. PICK p \in Person : Sees(t, p)
      BY <1>0, <1>2, <2>5, PhaseFacts
    <3>2. /\ pc[t] = "items" /\ pc'[t] = "refs" /\ want[t] = {} /\ op'[t] = op[t]
          /\ item' = item /\ held' = held /\ write'[t] = Written(t)
      BY <1>0, <2>5, PhaseFacts
    <3>3. Written(t) = [i \in StillOpen(t) |-> Withdraw(item[i], p)]
      BY <1>2, <3>1, <3>2 DEF Written
    <3>4. \A i \in Item : Unfinished(item[i], i, p) => i \in StillOpen(t)
      BY <3>1, <3>2 DEF StillOpen, Asked
    <3> QED BY <3>1, <3>2, <3>3, <3>4
  <2>6. CASE End(t)
    BY <1>0, <1>2, <2>6, EndFacts DEF NoOp
  <2> QED BY <2>1, <2>2, <2>3, <2>4, <2>5, <2>6 DEF Work, Refuse, Commit, Abort
<1> QED BY <1>1, <1>2 DEF RemovalSeesAll

\* A change gives unfinished work to nobody who is gone: the assignees it starts
\* over or keeps are those its own locks keep here.
LEMMA ChangedItemFacts ==
    ASSUME IInv, NEW i \in Item, NEW a \in Person, NEW to \in Status,
           item[i].status # "absent", ChangeAllowed(a, i, to)
    PROVE  /\ ChangedItem(a, i, to).status # "absent"
           /\ Assignees(ChangedItem(a, i, to)) \subseteq Assignees(item[i])
           /\ \A p \in Person : Unfinished(ChangedItem(a, i, to), i, p) => p \notin archived
<1>0. item[i] \in ItemRow /\ item[i].asg \in [Person -> {"none", "pending", "accepted", "done"}]
  BY DEF IInv, TypeOK, ItemRow
<1>1. CASE Manages(a, i, item[i])
  <2> DEFINE row == ManagerChange(item[i], i, to)
  <2>1. /\ row.status = to
        /\ \A p \in Person : row.asg[p] =
             (IF item[i].asg[p] = "none" \/ p \in Gone(item[i], i, to) THEN "none"
              ELSE IF to = "done" THEN "done"
              ELSE IF to = "todo" THEN "pending"
              ELSE item[i].asg[p])
    BY <1>0, ManagerChangeType
  <2> HIDE DEF row
  <2>2. ASSUME NEW p \in Person, Unfinished(row, i, p) PROVE p \notin archived
    BY <2>1, <2>2 DEF Unfinished, Open, Gone
  <2>3. row.status # "absent" /\ Assignees(row) \subseteq Assignees(item[i])
    BY <2>1 DEF Assignees, Status
  <2> QED BY <1>1, <2>2, <2>3 DEF ChangedItem, row
<1>2. CASE ~Manages(a, i, item[i])
  <2> DEFINE row == AssigneeChange(item[i], i, a, to)
  <2>1. /\ to \in {"doing", "done"} /\ Open(item[i])
        /\ item[i].asg[a] \in {"pending", "accepted"}
    BY <1>2 DEF ChangeAllowed
  <2>2. /\ row.status \in {item[i].status, to}
        /\ \A q \in Person : row.asg[q] =
             (IF q # a THEN item[i].asg[q] ELSE IF to = "doing" THEN "accepted" ELSE "done")
    BY <1>0, <2>1, AssigneeChangeType
  <2> HIDE DEF row
  <2>3. ASSUME NEW p \in Person, Unfinished(row, i, p) PROVE p \notin archived
    <3>1. Unfinished(item[i], i, p)
      BY <1>0, <2>1, <2>2, <2>3 DEF Unfinished
    <3> QED BY <3>1 DEF IInv, RemovedNotCounted
  <2>4. row.status # "absent" /\ Assignees(row) \subseteq Assignees(item[i])
    BY <1>0, <2>1, <2>2 DEF Assignees
  <2> QED BY <1>2, <2>3, <2>4 DEF ChangedItem, row
<1> QED BY <1>1, <1>2

LEMMA WrittenSafe ==
    ASSUME IInv, NEW t \in Tx, Decide(t), NEW i \in DOMAIN Written(t)
    PROVE  /\ Written(t)[i].status # "absent"
           /\ op[t].kind # "remove" =>
                \A p \in Person : Unfinished(Written(t)[i], i, p) => Share(p) \in held[t] /\ p \notin archived
           /\ IF op[t].kind = "create" THEN item[i].status = "absent"
                                       ELSE Assignees(Written(t)[i]) \subseteq Assignees(item[i])
<1> DEFINE o == op[t]
<1>0. /\ TypeOK /\ PeopleCovered /\ RecipientsCovered /\ RemovedNotCounted /\ RemovalSeesAll
      /\ pc[t] = "items" /\ want[t] = {} /\ Allowed(t)
  BY PhaseFacts DEF IInv, LockDiscipline
<1>1. /\ o.kind \in {"create", "change", "edit", "remove"}
      /\ o.by \in Person
      /\ o.who \in SUBSET Person
      /\ o.kind \in {"create", "change", "edit"} => o.item \in Item
      /\ o.kind = "change" => o.to \in Status
      /\ \A j \in Item : item[j] \in ItemRow
  BY <1>0, OpCases DEF TypeOK
<1>2. o.kind \in {"change", "edit"} =>
        /\ item[o.item].status # "absent"
        /\ \A p \in Assignees(item[o.item]) : Share(p) \in held[t]
  BY <1>0 DEF PeopleCovered
<1>3. CASE o.kind = "create"
  <2>1. i = o.item /\ Written(t)[i] = NewItem(i, o.who) /\ item[i].status = "absent"
    BY <1>0, <1>3 DEF Written, Allowed
  <2>2. \A p \in Person : Unfinished(NewItem(i, o.who), i, p) => p \in o.who \ {Giver[i]}
    BY DEF Unfinished, NewItem
  <2>3. \A p \in o.who \ {Giver[i]} : Share(p) \in held[t] /\ p \notin archived
    BY <1>0, <1>3, <2>1 DEF RecipientsCovered
  <2>4. NewItem(i, o.who).status # "absent"
    BY DEF NewItem
  <2> QED BY <1>3, <2>1, <2>2, <2>3, <2>4
<1>4. CASE o.kind = "change"
  <2>1. i = o.item /\ Written(t)[i] = ChangedItem(o.by, i, o.to) /\ ChangeAllowed(o.by, i, o.to)
    BY <1>0, <1>4 DEF Written, Allowed
  <2>2. /\ ChangedItem(o.by, i, o.to).status # "absent"
        /\ Assignees(ChangedItem(o.by, i, o.to)) \subseteq Assignees(item[i])
        /\ \A p \in Person : Unfinished(ChangedItem(o.by, i, o.to), i, p) => p \notin archived
    BY <1>1, <1>2, <1>4, <2>1, ChangedItemFacts
  <2>3. \A p \in Person : Unfinished(ChangedItem(o.by, i, o.to), i, p)
                            => p \in Assignees(ChangedItem(o.by, i, o.to))
    BY DEF Unfinished, Assignees
  <2> QED BY <1>2, <1>4, <2>1, <2>2, <2>3
<1>5. CASE o.kind = "edit"
  <2>1. i = o.item /\ Written(t)[i] = [item[i] EXCEPT !.text = "edited"]
    BY <1>5 DEF Written
  <2>2. item[i] \in ItemRow
    BY <1>1, <1>5, <2>1
  <2>3. Written(t)[i].status = item[i].status /\ Written(t)[i].asg = item[i].asg
    BY <2>1, <2>2 DEF ItemRow
  <2>4. \A p \in Person : Unfinished(Written(t)[i], i, p) => Unfinished(item[i], i, p) /\ p \in Assignees(item[i])
    BY <2>3 DEF Unfinished, Open, Assignees
  <2>5. Assignees(Written(t)[i]) = Assignees(item[i])
    BY <2>3 DEF Assignees
  <2> QED BY <1>0, <1>1, <1>2, <1>5, <2>1, <2>3, <2>4, <2>5 DEF RemovedNotCounted
<1>6. CASE o.kind = "remove"
  <2>1. PICK p \in Person : o.who = {p}
    BY <1>6, RemovalFacts
  <2>2. i \in StillOpen(t) /\ Written(t)[i] = Withdraw(item[i], p)
    BY <1>6, <2>1 DEF Written
  <2>3. i \in Item /\ item[i].status # "absent"
    BY <2>2 DEF StillOpen, Unfinished, Open
  <2>4. Withdraw(item[i], p).status \in {item[i].status, "done"}
    BY <1>1, <2>3, WithdrawType
  <2> QED BY <1>1, <1>6, <2>2, <2>3, <2>4, WithdrawFacts
<1> QED BY <1>1, <1>3, <1>4, <1>5, <1>6

LEMMA WritesAreSafeStep ==
    ASSUME IInv, NEW t \in Tx, Start(t) \/ Work(t) \/ Abort(t)
    PROVE  WritesAreSafe'
<1> DEFINE Safe(u, i) ==
             /\ write[u][i].status # "absent"
             /\ op[u].kind # "remove" =>
                  \A p \in Person : Unfinished(write[u][i], i, p) => Share(p) \in held[u] /\ p \notin archived
             /\ IF op[u].kind = "create" THEN item[i].status = "absent"
                                         ELSE Assignees(write[u][i]) \subseteq Assignees(item[i])
<1>0. /\ TypeOK
      /\ \A u \in Tx : pc[u] = "refs" => \A i \in DOMAIN write[u] : Safe(u, i)
  BY DEF IInv, LockDiscipline, WritesAreSafe
<1>1. ASSUME NEW u \in Tx, u # t, pc'[u] = "refs", NEW i \in DOMAIN write'[u]
      PROVE  Safe(u, i)'
  <2>1. /\ pc'[u] = pc[u] /\ op'[u] = op[u] /\ held'[u] = held[u] /\ write'[u] = write[u]
    BY <1>0, <1>1, OthersUnchanged
  <2>2. item'[i] = item[i]
    BY <1>1, <2>1, CommitFacts, OnlyCommitsWrite
  <2>3. \A p \in Person : Share(p) \in held[u] /\ p \notin archived => p \notin archived'
    BY <1>1, CommitFacts, OnlyCommitsWrite
  <2>4. Safe(u, i)
    BY <1>0, <1>1, <2>1
  <2> QED BY <2>1, <2>2, <2>3, <2>4
<1>2. ASSUME pc'[t] = "refs", NEW i \in DOMAIN write'[t]
      PROVE  Safe(t, i)'
  <2>1. CASE Start(t)
    BY <1>0, <1>2, <2>1, StartFacts
  <2>2. CASE TakeLock(t)
    BY <1>0, <1>2, <2>2, TakeLockFacts
  <2>3. CASE DropRecipient(t)
    BY <1>0, <1>2, <2>3, DropFacts
  <2>4. CASE LockItems(t)
    BY <1>0, <1>2, <2>4, PhaseFacts
  <2>5. CASE Decide(t)
    <3>1. /\ write'[t] = Written(t) /\ op'[t] = op[t] /\ held'[t] = held[t]
          /\ item' = item /\ archived' = archived
      BY <1>0, <2>5, PhaseFacts
    <3> QED BY <1>2, <2>5, <3>1, WrittenSafe
  <2>6. CASE End(t)
    BY <1>0, <1>2, <2>6, EndFacts
  <2> QED BY <2>1, <2>2, <2>3, <2>4, <2>5, <2>6 DEF Work, Refuse, Commit, Abort
<1> QED BY <1>1, <1>2 DEF WritesAreSafe

LEMMA InitDiscipline == Init => IInv
<1> SUFFICES ASSUME Init PROVE IInv
  OBVIOUS
<1>1. TypeOK
  BY InitType
<1>2. archived = {} /\ \A t \in Tx : pc[t] = "idle" /\ op[t] = NoOp /\ held[t] = {} /\ DOMAIN write[t] = {}
  BY DEF Init, NoWrite
<1>3. LocksExclude /\ WritersHoldItem
  BY <1>2 DEF LocksExclude, WritersHoldItem
<1>4. PeopleCovered /\ RecipientsCovered /\ RemovalSeesAll /\ WritesAreSafe
  BY <1>2 DEF PeopleCovered, RecipientsCovered, RemovalSeesAll, WritesAreSafe, NoOp
<1>5. RemovedNotCounted
  BY <1>2 DEF RemovedNotCounted
<1> QED BY <1>1, <1>3, <1>4, <1>5 DEF IInv, LockDiscipline

LEMMA DisciplineStep == IInv /\ [Next]_vars => IInv'
<1> SUFFICES ASSUME IInv, [Next]_vars PROVE IInv'
  OBVIOUS
<1>1. TypeOK'
  BY TypeStep DEF IInv
<1>2. LocksExclude'
  BY LocksExcludeStep DEF IInv, LockDiscipline
<1>3. CASE UNCHANGED vars
  <2>1. /\ archived' = archived /\ item' = item /\ pc' = pc /\ op' = op
        /\ want' = want /\ held' = held /\ write' = write
    BY <1>3 DEF vars
  <2>2. WritersHoldItem'
    BY <2>1 DEF IInv, LockDiscipline, WritersHoldItem, HoldsItem, Asked
  <2>3. PeopleCovered'
    BY <2>1 DEF IInv, LockDiscipline, PeopleCovered, Asked
  <2>4. RecipientsCovered'
    BY <2>1 DEF IInv, LockDiscipline, RecipientsCovered
  <2>5. RemovalSeesAll'
    BY <2>1 DEF IInv, LockDiscipline, RemovalSeesAll, Asked
  <2>6. WritesAreSafe'
    BY <2>1 DEF IInv, LockDiscipline, WritesAreSafe
  <2>7. RemovedNotCounted'
    BY <2>1 DEF IInv, RemovedNotCounted
  <2> QED BY <1>1, <1>2, <2>2, <2>3, <2>4, <2>5, <2>6, <2>7 DEF IInv, LockDiscipline
<1>4. ASSUME NEW t \in Tx, Start(t) \/ Work(t) \/ Abort(t) PROVE IInv'
  <2>1. WritersHoldItem'
    BY <1>4, WritersHoldItemStep DEF IInv, LockDiscipline
  <2>2. PeopleCovered' /\ RecipientsCovered' /\ RemovalSeesAll' /\ WritesAreSafe' /\ RemovedNotCounted'
    BY <1>4, PeopleCoveredStep, RecipientsCoveredStep, RemovalSeesAllStep, WritesAreSafeStep, RemovedNotCountedStep
  <2> QED BY <1>1, <1>2, <2>1, <2>2 DEF IInv, LockDiscipline
<1> QED BY <1>3, <1>4 DEF Next

\* The lock discipline holds for any number of connections, persons and items.
THEOREM DisciplineHolds == Spec => []LockDiscipline
<1>1. IInv => LockDiscipline
  BY DEF IInv
<1> QED BY <1>1, InitDiscipline, DisciplineStep, PTL DEF Spec

\* A removed person is never counted on an open item: whatever the removal
\* races with - a new item, an answer, a reopening, another removal.
THEOREM RemovedNeverCounted == Spec => []RemovedNotCounted
<1>1. IInv => RemovedNotCounted
  BY DEF IInv
<1> QED BY <1>1, InitDiscipline, DisciplineStep, PTL DEF Spec

-----------------------------------------------------------------------------
(* The columns of one row.  Their agreement is a fact about every row that *)
(* is written, so the invariant speaks of the committed rows and of those  *)
(* a decided transaction is about to commit.                               *)

ClockFollows(i, row) ==
    i \in Requests =>
        /\ row.status = "todo" => row.clock \in {"running", "closed"}
        /\ row.status = "doing" => row.clock \in {"paused", "closed"}
        /\ row.status = "absent" => row.clock = "none"
        /\ row.status \in {"done", "cancelled"} => row.clock = "closed"

StatusFollows(i, row) ==
    i \notin Requests =>
        /\ row.status = "done" => AllDone(row.asg)
        /\ row.status = "todo" =>
              /\ \A p \in Person : row.asg[p] # "accepted"
              /\ Assignees(row) # {} => ~AllDone(row.asg)

InboxFollows(i, row) ==
    \A p \in Person : p # Giver[i] => (row.inbox[p] = "live" <=> row.asg[p] # "none")

RowFollows(i, row) == ClockFollows(i, row) /\ StatusFollows(i, row) /\ InboxFollows(i, row)

RowsFollow ==
    /\ \A i \in Item : RowFollows(i, item[i])
    /\ \A t \in Tx : pc[t] = "refs" => \A i \in DOMAIN write[t] : RowFollows(i, write[t][i])

-----------------------------------------------------------------------------
(* Every way of writing a row keeps its columns in agreement.              *)

\* A new status brings the clock along.
LEMMA SetStatusClock ==
    ASSUME NEW i \in Item, NEW row \in ItemRow, NEW to \in Status,
           row.status # "absent", ClockFollows(i, row)
    PROVE  ClockFollows(i, SetStatus(row, to))
<1>1. /\ SetStatus(row, to).status = to
      /\ SetStatus(row, to).clock = ClockAfter(row.clock, to)
  BY DEF SetStatus, ItemRow
<1>2. i \in Requests => row.clock \in {"running", "paused", "closed"}
  BY DEF ClockFollows, ItemRow, Status
<1> QED BY <1>1, <1>2 DEF ClockFollows, ClockAfter, Status

LEMMA NewItemFollows ==
    ASSUME NEW i \in Item, NEW who \in SUBSET Person
    PROVE  RowFollows(i, NewItem(i, who))
<1> DEFINE row == NewItem(i, who)
<1>1. /\ row.status = "todo" /\ row.clock = IF i \in Requests THEN "running" ELSE "none"
      /\ \A p \in Person : row.asg[p] = IF p \in who THEN "pending" ELSE "none"
      /\ \A p \in Person : row.inbox[p] = IF p \in who \union {Giver[i]} THEN "live" ELSE "none"
  BY DEF NewItem
<1> HIDE DEF row
<1>2. ClockFollows(i, row) BY <1>1 DEF ClockFollows
<1>3. StatusFollows(i, row) BY <1>1 DEF StatusFollows, Assignees, AllDone
<1>4. InboxFollows(i, row) BY <1>1 DEF InboxFollows
<1> QED BY <1>2, <1>3, <1>4 DEF RowFollows, row

LEMMA ManagerChangeFollows ==
    ASSUME NEW i \in Item, NEW row \in ItemRow, NEW to \in Status,
           row.status # "absent", RowFollows(i, row)
    PROVE  RowFollows(i, ManagerChange(row, i, to))
<1> DEFINE new == ManagerChange(row, i, to)
           gone == Gone(row, i, to)
<1>1. /\ new.status = to
      /\ \A p \in Person : new.asg[p] =
            (IF row.asg[p] = "none" \/ p \in gone THEN "none"
             ELSE IF to = "done" THEN "done"
             ELSE IF to = "todo" THEN "pending"
             ELSE row.asg[p])
  BY ManagerChangeType
<1>2. /\ new.clock = SetStatus(row, to).clock
      /\ \A p \in Person : new.inbox[p] = IF p \in gone THEN "archived" ELSE row.inbox[p]
  BY DEF ManagerChange, SetStatus, ItemRow
<1>3. \A p \in Person : row.asg[p] \in {"none", "pending", "accepted", "done"}
  BY DEF ItemRow
<1>4. ClockFollows(i, SetStatus(row, to)) /\ SetStatus(row, to).status = to
  BY SetStatusClock, SetStatusType DEF RowFollows
<1>5. Giver[i] \notin gone
  BY DEF Gone
<1> HIDE DEF new, gone
<1>6. ClockFollows(i, new)
  BY <1>1, <1>2, <1>4 DEF ClockFollows
<1>7. StatusFollows(i, new)
  BY <1>1, <1>3 DEF StatusFollows, Assignees, AllDone
<1>8. InboxFollows(i, new)
  BY <1>1, <1>2, <1>3 DEF InboxFollows, RowFollows
<1> QED BY <1>6, <1>7, <1>8 DEF RowFollows, new

LEMMA AssigneeChangeFollows ==
    ASSUME NEW i \in Item, NEW row \in ItemRow, NEW a \in Person, NEW to \in {"doing", "done"},
           Open(row), row.asg[a] \in {"pending", "accepted"}, RowFollows(i, row)
    PROVE  RowFollows(i, AssigneeChange(row, i, a, to))
<1> DEFINE asg == [row.asg EXCEPT ![a] = IF to = "doing" THEN "accepted" ELSE "done"]
           follows == IF to = "doing" THEN row.status = "todo" ELSE i \in Requests \/ AllDone(asg)
           base == IF follows THEN SetStatus(row, to) ELSE row
           new == AssigneeChange(row, i, a, to)
<1>1. /\ base \in ItemRow /\ base.inbox = row.inbox
      /\ base.status = IF follows THEN to ELSE row.status
      /\ ClockFollows(i, base)
  <2>1. to \in Status /\ row.status # "absent" BY DEF Status, Open
  <2> QED BY <2>1, SetStatusType, SetStatusClock DEF RowFollows
<1>2. new = [base EXCEPT !.asg = asg]
  BY DEF AssigneeChange
<1>3. \A p \in Person : asg[p] = IF p # a THEN row.asg[p] ELSE IF to = "doing" THEN "accepted" ELSE "done"
  BY DEF ItemRow
<1>4. \A p \in Person : row.asg[p] \in {"none", "pending", "accepted", "done"}
  BY DEF ItemRow
<1>5. follows = (IF to = "doing" THEN row.status = "todo" ELSE i \in Requests \/ AllDone(asg))
  OBVIOUS
<1> HIDE DEF asg, base, new, follows
<1>6. new.asg = asg /\ new.status = base.status /\ new.clock = base.clock /\ new.inbox = row.inbox
  BY <1>1, <1>2 DEF ItemRow
<1>7. ClockFollows(i, new)
  BY <1>1, <1>6 DEF ClockFollows
<1>8. StatusFollows(i, new)
  <2> SUFFICES ASSUME i \notin Requests PROVE StatusFollows(i, new)
    BY DEF StatusFollows
  <2>1. CASE to = "doing"
    <3>1. new.status = "doing" BY <1>1, <1>5, <1>6, <2>1 DEF Open
    <3> QED BY <3>1 DEF StatusFollows
  <2>2. CASE to = "done" /\ AllDone(asg)
    <3>1. new.status = "done" BY <1>1, <1>5, <1>6, <2>2
    <3> QED BY <1>6, <2>2, <3>1 DEF StatusFollows
  <2>3. CASE to = "done" /\ ~AllDone(asg)
    <3>1. new.status = row.status /\ row.status # "done" BY <1>1, <1>5, <1>6, <2>3 DEF Open
    <3>2. row.status = "todo" => \A p \in Person : asg[p] # "accepted"
      BY <1>3, <2>3 DEF RowFollows, StatusFollows
    <3> QED BY <1>6, <2>3, <3>1, <3>2 DEF StatusFollows
  <2> QED BY <2>1, <2>2, <2>3
<1>9. InboxFollows(i, new)
  BY <1>3, <1>6 DEF InboxFollows, RowFollows
<1> QED BY <1>7, <1>8, <1>9 DEF RowFollows, new

LEMMA WithdrawFollows ==
    ASSUME NEW i \in Item, NEW row \in ItemRow, NEW p \in Person,
           Open(row), RowFollows(i, row)
    PROVE  RowFollows(i, Withdraw(row, p))
<1> DEFINE asg == [row.asg EXCEPT ![p] = "none"]
           flips == AllDone(asg) /\ \E q \in Person : asg[q] = "done"
           base == IF flips THEN SetStatus(row, "done") ELSE row
           new == Withdraw(row, p)
<1>1. /\ base \in ItemRow /\ base.inbox = row.inbox
      /\ base.status = IF flips THEN "done" ELSE row.status
      /\ ClockFollows(i, base)
  <2>1. "done" \in Status /\ row.status # "absent" BY DEF Status, Open
  <2> QED BY <2>1, SetStatusType, SetStatusClock DEF RowFollows
<1>2. new = [base EXCEPT !.asg = asg, !.inbox[p] = "archived"]
  BY DEF Withdraw
<1>3. \A q \in Person : asg[q] = IF q # p THEN row.asg[q] ELSE "none"
  BY DEF ItemRow
<1>4. asg \in [Person -> {"none", "pending", "accepted", "done"}]
  BY DEF ItemRow
<1>5. flips = (AllDone(asg) /\ \E q \in Person : asg[q] = "done")
  OBVIOUS
<1> HIDE DEF asg, base, new, flips
<1>6. /\ new.asg = asg /\ new.status = base.status /\ new.clock = base.clock
      /\ \A q \in Person : new.inbox[q] = IF q = p THEN "archived" ELSE row.inbox[q]
  BY <1>1, <1>2 DEF ItemRow
<1>7. ClockFollows(i, new)
  BY <1>1, <1>6 DEF ClockFollows
<1>8. StatusFollows(i, new)
  <2> SUFFICES ASSUME i \notin Requests PROVE StatusFollows(i, new)
    BY DEF StatusFollows
  <2>1. CASE flips
    BY <1>1, <1>5, <1>6, <2>1 DEF StatusFollows
  <2>2. CASE ~flips
    <3>1. new.status = row.status /\ row.status # "done" BY <1>1, <1>6, <2>2 DEF Open
    <3>2. row.status = "todo" => \A q \in Person : asg[q] # "accepted"
      BY <1>3 DEF RowFollows, StatusFollows
    <3>3. Assignees(new) # {} => ~AllDone(asg)
      BY <1>4, <1>5, <1>6, <2>2 DEF Assignees, AllDone
    <3> QED BY <1>6, <3>1, <3>2, <3>3 DEF StatusFollows
  <2> QED BY <2>1, <2>2
<1>9. InboxFollows(i, new)
  BY <1>3, <1>6 DEF InboxFollows, RowFollows
<1> QED BY <1>7, <1>8, <1>9 DEF RowFollows, new

-----------------------------------------------------------------------------
\* What is decided under an item's lock is in agreement.
LEMMA WrittenFollows ==
    ASSUME TypeOK, \A j \in Item : RowFollows(j, item[j]), NEW t \in Tx, Decide(t),
           op[t].kind = "change" => item[op[t].item].status # "absent",
           NEW i \in DOMAIN Written(t)
    PROVE  RowFollows(i, Written(t)[i])
<1> DEFINE o == op[t]
<1>0. pc[t] = "items" /\ Allowed(t)
  BY PhaseFacts
<1>1. /\ o.kind \in {"create", "change", "edit", "remove"}
      /\ o.by \in Person /\ o.who \in SUBSET Person
      /\ o.kind \in {"create", "change", "edit"} => o.item \in Item
      /\ o.kind = "change" => o.to \in Status
      /\ \A j \in Item : item[j] \in ItemRow /\ RowFollows(j, item[j])
  BY <1>0, OpCases DEF TypeOK
<1>2. CASE o.kind = "create"
  BY <1>1, <1>2, NewItemFollows DEF Written
<1>3. CASE o.kind = "change"
  <2>1. /\ i = o.item /\ i \in Item
        /\ Written(t)[i] = ChangedItem(o.by, i, o.to) /\ ChangeAllowed(o.by, i, o.to)
    BY <1>0, <1>1, <1>3 DEF Written, Allowed
  <2>2. item[i].status # "absent"
    BY <1>3, <2>1
  <2>3. CASE Manages(o.by, i, item[i])
    BY <1>1, <1>3, <2>1, <2>2, <2>3, ManagerChangeFollows DEF ChangedItem
  <2>4. CASE ~Manages(o.by, i, item[i])
    <3>1. /\ o.to \in {"doing", "done"} /\ Open(item[i])
          /\ item[i].asg[o.by] \in {"pending", "accepted"}
      BY <2>1, <2>4 DEF ChangeAllowed
    <3> QED BY <1>1, <2>1, <2>4, <3>1, AssigneeChangeFollows DEF ChangedItem
  <2> QED BY <2>3, <2>4
<1>4. CASE o.kind = "edit"
  <2>1. i = o.item /\ i \in Item /\ Written(t)[i] = [item[i] EXCEPT !.text = "edited"]
    BY <1>1, <1>4 DEF Written
  <2>2. /\ Written(t)[i].status = item[i].status /\ Written(t)[i].asg = item[i].asg
        /\ Written(t)[i].inbox = item[i].inbox /\ Written(t)[i].clock = item[i].clock
    BY <1>1, <2>1 DEF ItemRow
  <2> QED BY <1>1, <2>1, <2>2
          DEF RowFollows, ClockFollows, StatusFollows, InboxFollows, Assignees
<1>5. CASE o.kind = "remove"
  <2>1. PICK p \in Person : o.who = {p}
    BY <1>0, <1>5, OpCases
  <2>2. i \in StillOpen(t) /\ Written(t)[i] = Withdraw(item[i], p)
    BY <1>5, <2>1 DEF Written
  <2>3. i \in Item /\ Open(item[i])
    BY <2>2 DEF StillOpen, Unfinished
  <2> QED BY <1>1, <2>2, <2>3, WithdrawFollows
<1> QED BY <1>1, <1>2, <1>3, <1>4, <1>5

LEMMA InitFollows == Init => RowsFollow
<1> SUFFICES ASSUME Init PROVE RowsFollow
  OBVIOUS
<1>1. ASSUME NEW i \in Item PROVE RowFollows(i, item[i])
  <2>1. CASE item[i] = AbsentItem
    <3>1. /\ item[i].status = "absent" /\ item[i].clock = "none"
          /\ \A p \in Person : item[i].asg[p] = "none" /\ item[i].inbox[p] = "none"
      BY <2>1 DEF AbsentItem
    <3> QED BY <3>1 DEF RowFollows, ClockFollows, StatusFollows, InboxFollows
  <2>2. CASE \E who \in Recipients(i) : item[i] = NewItem(i, who)
    <3>1. Recipients(i) \subseteq SUBSET Person
      BY PeopleAssumption DEF Recipients
    <3> QED BY <2>2, <3>1, NewItemFollows
  <2> QED BY <2>1, <2>2 DEF Init
<1>2. \A t \in Tx : pc[t] # "refs"
  BY DEF Init
<1> QED BY <1>1, <1>2 DEF RowsFollow

LEMMA FollowsStep == IInv /\ RowsFollow /\ [Next]_vars => RowsFollow'
<1> SUFFICES ASSUME IInv, RowsFollow, [Next]_vars PROVE RowsFollow'
  OBVIOUS
<1>0. TypeOK BY DEF IInv
<1>1. CASE UNCHANGED vars
  BY <1>1 DEF vars, RowsFollow
<1>2. ASSUME NEW t \in Tx, Start(t) \/ Work(t) \/ Abort(t) PROVE RowsFollow'
  <2>1. \A i \in Item : RowFollows(i, item'[i])
    <3>1. CASE Commit(t)
      <4>1. pc[t] = "refs" /\ \A i \in Item : item'[i] = IF i \in DOMAIN write[t] THEN write[t][i] ELSE item[i]
        BY <1>0, <3>1, CommitItemType DEF Commit
      <4> QED BY <4>1 DEF RowsFollow
    <3>2. CASE item' = item
      BY <3>2 DEF RowsFollow
    <3> QED BY <1>2, <3>1, <3>2, OnlyCommitsWrite
  <2>2. ASSUME NEW u \in Tx, pc'[u] = "refs", NEW i \in DOMAIN write'[u]
        PROVE  RowFollows(i, write'[u][i])
    <3>1. CASE u # t
      <4>1. pc'[u] = pc[u] /\ write'[u] = write[u]
        BY <1>0, <1>2, <3>1, OthersUnchanged
      <4> QED BY <2>2, <4>1 DEF RowsFollow
    <3>2. CASE u = t /\ Decide(t)
      <4>1. op[t].kind = "change" => item[op[t].item].status # "absent"
        BY DEF IInv, LockDiscipline, PeopleCovered
      <4> QED BY <1>0, <2>2, <3>2, <4>1, PhaseFacts, WrittenFollows DEF RowsFollow
    <3>3. CASE u = t /\ TakeLock(t)
      <4>1. pc' = pc /\ write' = write BY <3>3 DEF TakeLock
      <4> QED BY <2>2, <4>1 DEF RowsFollow
    <3>4. CASE u = t /\ (Start(t) \/ DropRecipient(t) \/ LockItems(t))
      BY <1>0, <2>2, <3>4, StartFacts, DropFacts, PhaseFacts
    <3>5. CASE u = t /\ End(t)
      BY <1>0, <2>2, <3>5, EndFacts
    <3> QED BY <1>2, <3>1, <3>2, <3>3, <3>4, <3>5 DEF Work, Refuse, Commit, Abort
  <2>3. RowsFollow' = (/\ \A i \in Item : RowFollows(i, item'[i])
                       /\ \A u \in Tx : pc'[u] = "refs" =>
                            \A i \in DOMAIN write'[u] : RowFollows(i, write'[u][i]))
    BY DEF RowsFollow, RowFollows, ClockFollows, StatusFollows, InboxFollows
  <2> QED BY <2>1, <2>2, <2>3
<1> QED BY <1>1, <1>2 DEF Next

LEMMA AlwaysFollow == Spec => []RowsFollow
<1>1. Init => IInv /\ RowsFollow
  BY InitDiscipline, InitFollows
<1>2. IInv /\ RowsFollow /\ [Next]_vars => (IInv /\ RowsFollow)'
  BY DisciplineStep, FollowsStep
<1> QED BY <1>1, <1>2, PTL DEF Spec

-----------------------------------------------------------------------------
\* The response clock of a request agrees with its status after every answer,
\* start, reopening and removal (request-clock.ts).
THEOREM ClockFollowsAlways == Spec => []ClockFollowsStatus
<1>1. IInv /\ RowsFollow => ClockFollowsStatus
  <2> SUFFICES ASSUME IInv, RowsFollow, NEW i \in Requests
               PROVE  CASE item[i].status = "todo"  -> item[i].clock \in {"running", "closed"}
                        [] item[i].status = "doing" -> item[i].clock \in {"paused", "closed"}
                        [] item[i].status = "absent" -> item[i].clock = "none"
                        [] OTHER -> item[i].clock = "closed"
    BY DEF ClockFollowsStatus
  <2>1. i \in Item /\ item[i] \in ItemRow
    BY PeopleAssumption DEF IInv, TypeOK
  <2>2. ClockFollows(i, item[i])
    BY <2>1 DEF RowsFollow, RowFollows
  <2> QED BY <2>1, <2>2 DEF ClockFollows, ItemRow, Status
<1>2. Spec => []IInv
  BY InitDiscipline, DisciplineStep, PTL DEF Spec
<1> QED BY <1>1, <1>2, AlwaysFollow, PTL

\* A task that is done has nobody left to finish; one not started has nobody who
\* started and, when it has assignees, somebody left - whoever of them finishes,
\* is removed or is started over at the same time.
THEOREM StatusFollowsAlways == Spec => []StatusFollowsAssignees
<1>1. RowsFollow => StatusFollowsAssignees
  BY DEF RowsFollow, RowFollows, StatusFollows, StatusFollowsAssignees
<1> QED BY <1>1, AlwaysFollow, PTL

\* The inbox row and the assignee row of a person come and go together.
THEOREM InboxFollowsAlways == Spec => []InboxFollowsWork
<1>1. RowsFollow => InboxFollowsWork
  BY DEF RowsFollow, RowFollows, InboxFollows, InboxFollowsWork
<1> QED BY <1>1, AlwaysFollow, PTL

-----------------------------------------------------------------------------
(* What a step may never do to an item.                                    *)

\* An item that is not written yet has nothing.
AbsentRows ==
    \A i \in Item : item[i].status = "absent" =>
        item[i].text = "first" /\ \A p \in Person : item[i].asg[p] = "none"

\* The last assignee to finish an open task closes it.
Closes(i, old, new) ==
    (/\ i \notin Requests /\ Open(old) /\ ~AllDone(old.asg)
     /\ AllDone(new.asg) /\ Assignees(new) # {}) => ~Open(new)

\* What a decided transaction is about to do, it decided on the row as it
\* still is.
WritesRespect ==
    \A t \in Tx : pc[t] = "refs" => \A i \in DOMAIN write[t] :
        /\ write[t][i].text # item[i].text => Open(item[i])
        /\ \A p \in Person :
              (item[i].asg[p] = "done" /\ write[t][i].asg[p] # "done") => write[t][i].status = "todo"
        /\ Closes(i, item[i], write[t][i])

\* An answer or a removal leaves the text, and a finished row but for a fresh start.
LEMMA ChangesRespect ==
    ASSUME NEW i \in Item, NEW row \in ItemRow
    PROVE  /\ \A to \in Status :
                /\ ManagerChange(row, i, to).text = row.text
                /\ \A p \in Person : (row.asg[p] = "done" /\ ManagerChange(row, i, to).asg[p] # "done")
                                        => ManagerChange(row, i, to).status = "todo"
           /\ \A a \in Person, to \in {"doing", "done"} : row.asg[a] \in {"pending", "accepted"} =>
                /\ AssigneeChange(row, i, a, to).text = row.text
                /\ \A p \in Person : row.asg[p] = "done" => AssigneeChange(row, i, a, to).asg[p] = "done"
           /\ \A q \in Person : row.asg[q] \in {"pending", "accepted"} =>
                /\ Withdraw(row, q).text = row.text
                /\ \A p \in Person : row.asg[p] = "done" => Withdraw(row, q).asg[p] = "done"
<1>1. ASSUME NEW to \in Status
      PROVE  /\ ManagerChange(row, i, to).text = row.text
             /\ \A p \in Person : (row.asg[p] = "done" /\ ManagerChange(row, i, to).asg[p] # "done")
                                     => ManagerChange(row, i, to).status = "todo"
  <2>1. ManagerChange(row, i, to).text = row.text
    BY DEF ManagerChange, SetStatus, ItemRow
  <2>2. /\ ManagerChange(row, i, to).status = to
        /\ \A p \in Person : ManagerChange(row, i, to).asg[p] =
             (IF row.asg[p] = "none" \/ p \in Gone(row, i, to) THEN "none"
              ELSE IF to = "done" THEN "done"
              ELSE IF to = "todo" THEN "pending"
              ELSE row.asg[p])
    BY ManagerChangeType
  <2>3. \A p \in Person : p \in Gone(row, i, to) /\ row.asg[p] = "done" => to = "todo"
    BY DEF Gone
  <2> QED BY <2>1, <2>2, <2>3
<1>2. ASSUME NEW a \in Person, NEW to \in {"doing", "done"}, row.asg[a] \in {"pending", "accepted"}
      PROVE  /\ AssigneeChange(row, i, a, to).text = row.text
             /\ \A p \in Person : row.asg[p] = "done" => AssigneeChange(row, i, a, to).asg[p] = "done"
  <2>1. AssigneeChange(row, i, a, to).text = row.text
    BY DEF AssigneeChange, SetStatus, ItemRow
  <2> QED BY <1>2, <2>1, AssigneeChangeType
<1>3. ASSUME NEW q \in Person, row.asg[q] \in {"pending", "accepted"}
      PROVE  /\ Withdraw(row, q).text = row.text
             /\ \A p \in Person : row.asg[p] = "done" => Withdraw(row, q).asg[p] = "done"
  <2>1. Withdraw(row, q).text = row.text
    BY DEF Withdraw, SetStatus, ItemRow
  <2>2. Withdraw(row, q).asg = [row.asg EXCEPT ![q] = "none"]
    BY WithdrawType
  <2> QED BY <1>3, <2>1, <2>2 DEF ItemRow
<1> QED BY <1>1, <1>2, <1>3

\* An answer, a removal, and a giver's change while nobody removed is left on
\* the item, close the task when they leave nobody to finish.
LEMMA ChangesClose ==
    ASSUME NEW i \in Item, NEW row \in ItemRow, \A p \in archived : ~Unfinished(row, i, p)
    PROVE  /\ \A to \in Status : Closes(i, row, ManagerChange(row, i, to))
           /\ \A a \in Person, to \in {"doing", "done"} : row.asg[a] \in {"pending", "accepted"} =>
                Closes(i, row, AssigneeChange(row, i, a, to))
           /\ \A q \in Person : row.asg[q] \in {"pending", "accepted"} => Closes(i, row, Withdraw(row, q))
<1>1. ASSUME NEW to \in Status PROVE Closes(i, row, ManagerChange(row, i, to))
  <2> DEFINE new == ManagerChange(row, i, to)
  <2> SUFFICES ASSUME Open(row), ~AllDone(row.asg), AllDone(new.asg), Assignees(new) # {}, Open(new)
               PROVE  FALSE
    BY DEF Closes
  <2>1. /\ new.status = to
        /\ \A p \in Person : new.asg[p] =
             (IF row.asg[p] = "none" \/ p \in Gone(row, i, to) THEN "none"
              ELSE IF to = "done" THEN "done"
              ELSE IF to = "todo" THEN "pending"
              ELSE row.asg[p])
    BY ManagerChangeType
  <2>2. to \in {"todo", "doing"}
    BY <2>1 DEF Open
  <2>3. CASE to = "todo"
    <3>1. PICK p \in Person : new.asg[p] # "none"
      BY DEF Assignees
    <3>2. new.asg[p] = "pending"
      BY <2>1, <2>3, <3>1
    <3> QED BY <3>2 DEF AllDone
  <2>4. CASE to = "doing"
    <3>1. PICK p \in Person : row.asg[p] \notin {"none", "done"}
      BY DEF AllDone
    <3>2. row.asg[p] \in {"pending", "accepted"}
      BY <3>1 DEF ItemRow
    <3>3. p \notin Gone(row, i, to)
      BY <3>2 DEF Gone, Unfinished
    <3>4. new.asg[p] = row.asg[p]
      BY <2>1, <2>4, <3>1, <3>3
    <3> QED BY <3>1, <3>4 DEF AllDone
  <2> QED BY <2>2, <2>3, <2>4
<1>2. ASSUME NEW a \in Person, NEW to \in {"doing", "done"}, row.asg[a] \in {"pending", "accepted"}
      PROVE  Closes(i, row, AssigneeChange(row, i, a, to))
  <2> DEFINE asg == [row.asg EXCEPT ![a] = IF to = "doing" THEN "accepted" ELSE "done"]
             new == AssigneeChange(row, i, a, to)
  <2> SUFFICES ASSUME i \notin Requests, AllDone(new.asg) PROVE ~Open(new)
    BY DEF Closes
  <2>1. new.asg = asg
    BY DEF AssigneeChange, SetStatus, ItemRow
  <2>2. to = "done"
    <3>1. to = "doing" => asg[a] = "accepted" BY DEF ItemRow
    <3> QED BY <2>1, <3>1 DEF AllDone
  <2>3. new.status = "done"
    BY <2>1, <2>2 DEF AssigneeChange, SetStatus, ItemRow
  <2> QED BY <2>3 DEF Open
<1>3. ASSUME NEW q \in Person, row.asg[q] \in {"pending", "accepted"}
      PROVE  Closes(i, row, Withdraw(row, q))
  <2> DEFINE asg == [row.asg EXCEPT ![q] = "none"]
             new == Withdraw(row, q)
  <2> SUFFICES ASSUME AllDone(new.asg), Assignees(new) # {} PROVE ~Open(new)
    BY DEF Closes
  <2>1. new.asg = asg
    BY WithdrawType
  <2>2. \E p \in Person : asg[p] = "done"
    BY <2>1 DEF Assignees, AllDone
  <2>3. new.status = "done"
    BY <2>1, <2>2 DEF Withdraw, SetStatus, ItemRow
  <2> QED BY <2>3 DEF Open
<1> QED BY <1>1, <1>2, <1>3

LEMMA WrittenRespects ==
    ASSUME IInv, AbsentRows, NEW t \in Tx, Decide(t), NEW i \in DOMAIN Written(t)
    PROVE  /\ Written(t)[i].text # item[i].text => Open(item[i])
           /\ \A p \in Person :
                (item[i].asg[p] = "done" /\ Written(t)[i].asg[p] # "done") => Written(t)[i].status = "todo"
           /\ Closes(i, item[i], Written(t)[i])
<1> DEFINE o == op[t]
<1>0. TypeOK /\ pc[t] = "items" /\ Allowed(t)
  BY PhaseFacts DEF IInv
<1>1. /\ o.kind \in {"create", "change", "edit", "remove"}
      /\ o.by \in Person
      /\ o.kind \in {"create", "change", "edit"} => o.item \in Item
      /\ o.kind = "change" => o.to \in Status
      /\ \A j \in Item : item[j] \in ItemRow
      /\ \A j \in Item : \A p \in archived : ~Unfinished(item[j], j, p)
  BY <1>0, OpCases DEF TypeOK, IInv, RemovedNotCounted
<1>2. CASE o.kind = "create"
  <2>1. i = o.item /\ i \in Item /\ Written(t)[i] = NewItem(i, o.who) /\ item[i].status = "absent"
    BY <1>0, <1>1, <1>2 DEF Written, Allowed
  <2>2. Written(t)[i].text = "first" /\ Written(t)[i].status = "todo"
    BY <2>1 DEF NewItem
  <2> QED BY <2>1, <2>2 DEF AbsentRows, Closes, Open
<1>3. CASE o.kind = "change"
  <2>1. /\ i = o.item /\ i \in Item
        /\ Written(t)[i] = ChangedItem(o.by, i, o.to) /\ ChangeAllowed(o.by, i, o.to)
    BY <1>0, <1>1, <1>3 DEF Written, Allowed
  <2>2. CASE Manages(o.by, i, item[i])
    BY <1>1, <1>3, <2>1, <2>2, ChangesRespect, ChangesClose DEF ChangedItem
  <2>3. CASE ~Manages(o.by, i, item[i])
    <3>1. o.to \in {"doing", "done"} /\ item[i].asg[o.by] \in {"pending", "accepted"}
      BY <2>1, <2>3 DEF ChangeAllowed
    <3> QED BY <1>1, <2>1, <2>3, <3>1, ChangesRespect, ChangesClose DEF ChangedItem
  <2> QED BY <2>2, <2>3
<1>4. CASE o.kind = "edit"
  <2>1. /\ i = o.item /\ i \in Item /\ Open(item[i])
        /\ Written(t)[i] = [item[i] EXCEPT !.text = "edited"]
    BY <1>0, <1>1, <1>4 DEF Written, Allowed
  <2>2. Written(t)[i].asg = item[i].asg
    BY <1>1, <2>1 DEF ItemRow
  <2> QED BY <2>1, <2>2 DEF Closes
<1>5. CASE o.kind = "remove"
  <2>1. PICK p \in Person : o.who = {p}
    BY <1>1, <1>5, RemovalFacts
  <2>2. i \in StillOpen(t) /\ Written(t)[i] = Withdraw(item[i], p)
    BY <1>5, <2>1 DEF Written
  <2>3. i \in Item /\ item[i].asg[p] \in {"pending", "accepted"}
    BY <2>1, <2>2 DEF StillOpen, Unfinished
  <2> QED BY <1>1, <2>2, <2>3, ChangesRespect, ChangesClose
<1> QED BY <1>1, <1>2, <1>3, <1>4, <1>5

RespectInv == IInv /\ AbsentRows /\ WritesRespect

LEMMA InitRespects == Init => RespectInv
<1> SUFFICES ASSUME Init PROVE RespectInv
  OBVIOUS
<1>1. AbsentRows
  BY DEF Init, AbsentRows, AbsentItem, NewItem
<1>2. WritesRespect
  BY DEF Init, WritesRespect
<1> QED BY <1>1, <1>2, InitDiscipline DEF RespectInv

LEMMA RespectStep == RespectInv /\ [Next]_vars => RespectInv'
<1> SUFFICES ASSUME RespectInv, [Next]_vars PROVE RespectInv'
  OBVIOUS
<1>0. IInv /\ TypeOK /\ AbsentRows /\ WritesRespect /\ WritesAreSafe
  BY DEF RespectInv, IInv, LockDiscipline
<1>1. CASE UNCHANGED vars
  BY <1>0, <1>1, DisciplineStep DEF vars, RespectInv, AbsentRows, WritesRespect
<1>2. ASSUME NEW t \in Tx, Start(t) \/ Work(t) \/ Abort(t) PROVE AbsentRows' /\ WritesRespect'
  <2>1. AbsentRows'
    <3>1. CASE Commit(t)
      <4>1. pc[t] = "refs" /\ \A i \in Item : item'[i] = IF i \in DOMAIN write[t] THEN write[t][i] ELSE item[i]
        BY <1>0, <3>1, CommitItemType DEF Commit
      <4> QED BY <1>0, <4>1 DEF AbsentRows, WritesAreSafe
    <3>2. CASE item' = item
      BY <1>0, <3>2 DEF AbsentRows
    <3> QED BY <1>2, <3>1, <3>2, OnlyCommitsWrite
  <2>2. ASSUME NEW u \in Tx, pc'[u] = "refs", NEW i \in DOMAIN write'[u]
        PROVE  /\ write'[u][i].text # item'[i].text => Open(item'[i])
               /\ \A p \in Person :
                     (item'[i].asg[p] = "done" /\ write'[u][i].asg[p] # "done") => write'[u][i].status = "todo"
               /\ Closes(i, item'[i], write'[u][i])
    <3>1. CASE u # t
      <4>1. pc'[u] = pc[u] /\ write'[u] = write[u]
        BY <1>0, <1>2, <3>1, OthersUnchanged
      <4>2. item'[i] = item[i]
        BY <1>0, <1>2, <2>2, <3>1, <4>1, CommitFacts, OnlyCommitsWrite
      <4> QED BY <1>0, <2>2, <4>1, <4>2 DEF WritesRespect
    <3>2. CASE u = t /\ Decide(t)
      BY <1>0, <2>2, <3>2, PhaseFacts, WrittenRespects
    <3>3. CASE u = t /\ TakeLock(t)
      <4>1. pc' = pc /\ write' = write /\ item' = item BY <3>3 DEF TakeLock
      <4> QED BY <1>0, <2>2, <3>3, <4>1 DEF WritesRespect
    <3>4. CASE u = t /\ (Start(t) \/ DropRecipient(t) \/ LockItems(t))
      BY <1>0, <2>2, <3>4, StartFacts, DropFacts, PhaseFacts
    <3>5. CASE u = t /\ End(t)
      BY <1>0, <2>2, <3>5, EndFacts
    <3> QED BY <1>2, <3>1, <3>2, <3>3, <3>4, <3>5 DEF Work, Refuse, Commit, Abort
  <2> QED BY <2>1, <2>2 DEF WritesRespect
<1> QED BY <1>0, <1>1, <1>2, DisciplineStep DEF Next, RespectInv

\* Every change of an item is a commit's.
LEMMA ChangeIsCommit ==
    ASSUME RespectInv, [Next]_vars, NEW i \in Item, item'[i] # item[i]
    PROVE  \E t \in Tx : pc[t] = "refs" /\ i \in DOMAIN write[t] /\ item'[i] = write[t][i]
<1>1. PICK t \in Tx : Start(t) \/ Work(t) \/ Abort(t)
  BY DEF Next, vars
<1>2. Commit(t)
  BY <1>1, OnlyCommitsWrite
<1>3. pc[t] = "refs" /\ item'[i] = IF i \in DOMAIN write[t] THEN write[t][i] ELSE item[i]
  BY <1>2, CommitItemType DEF Commit, RespectInv, IInv
<1> QED BY <1>3

\* An edit lands only on an item that is open when it commits, however long it
\* waited for the item (service.ts, lockWorkItem).
THEOREM EditsLandOpen == Spec => ClosedItemNotEdited
<1>1. RespectInv /\ [Next]_vars => [\A i \in Item : item'[i].text # item[i].text => Open(item[i])]_item
  <2> SUFFICES ASSUME RespectInv, [Next]_vars, NEW i \in Item, item'[i].text # item[i].text
               PROVE  Open(item[i])
    OBVIOUS
  <2> QED BY ChangeIsCommit DEF RespectInv, WritesRespect
<1> QED BY <1>1, InitRespects, RespectStep, PTL DEF Spec, ClosedItemNotEdited

\* What an assignee finished stays on record until the item is started over,
\* whatever removals, answers and changes come together.
THEOREM FinishedIsKept == Spec => FinishedStaysFinished
<1>1. RespectInv /\ [Next]_vars =>
        [\A i \in Item, p \in Person :
            (item[i].asg[p] = "done" /\ item'[i].asg[p] # "done") => item'[i].status = "todo"]_item
  <2> SUFFICES ASSUME RespectInv, [Next]_vars, NEW i \in Item, NEW p \in Person,
                      item[i].asg[p] = "done", item'[i].asg[p] # "done"
               PROVE  item'[i].status = "todo"
    OBVIOUS
  <2> QED BY ChangeIsCommit DEF RespectInv, WritesRespect
<1> QED BY <1>1, InitRespects, RespectStep, PTL DEF Spec, FinishedStaysFinished

\* Whoever of the last assignees finishes second, or is removed while the
\* others finish, closes the task by that write.
THEOREM LastFinishIsFollowed == Spec => LastFinishCloses
<1>1. RespectInv /\ [Next]_vars =>
        [\A i \in Item \ Requests :
            (/\ Open(item[i]) /\ ~AllDone(item[i].asg)
             /\ AllDone(item'[i].asg) /\ Assignees(item'[i]) # {}) => ~Open(item'[i])]_item
  <2> SUFFICES ASSUME RespectInv, [Next]_vars, NEW i \in Item \ Requests
               PROVE  Closes(i, item[i], item'[i])
    BY DEF Closes
  <2> QED BY ChangeIsCommit DEF RespectInv, WritesRespect, Closes
<1> QED BY <1>1, InitRespects, RespectStep, PTL DEF Spec, LastFinishCloses
-----------------------------------------------------------------------------
(***************************************************************************)
(* "Lock order - the same in every transaction, so none waits on another   *)
(* in a circle" (iam/removal.ts), for any number of persons, items and     *)
(* connections - as long as nobody who removes persons can be removed.     *)
(*                                                                         *)
(* The invariant says which rows a transaction asks for in each phase.     *)
(* From it every wait leads to a transaction of a higher WaitLevel, so the *)
(* highest of any group waits for nobody in the group.                     *)
(***************************************************************************)

Busy(t) == pc[t] \in {"people", "items", "refs"}
WantBusy == \A t \in Tx : want[t] # {} => Busy(t)
HoldsNoItem(t) == \A v \in held[t] : v[1][1] # "item"

\* What a held lock says of its transaction.
HeldShape ==
    \A t \in Tx : \A w \in held[t] :
        /\ Busy(t)
        /\ (w[1][1] = "person" /\ w[2] # "key_share") => op[t].kind = "remove" /\ w[1][2] \in op[t].who
        /\ w[1][1] = "item" => pc[t] # "people" /\ (op[t].kind # "remove" => w[1][2] = op[t].item)
        /\ w[1][1] = "clock" => pc[t] = "refs" /\ w[1][2] \in DOMAIN write[t]

\* The person rows of the first phase: shared, or the one a removal begins with.
WantPeople ==
    \A t \in Tx : pc[t] = "people" => \A w \in want[t] :
        /\ w[1][1] = "person"
        /\ op[t].kind # "remove" => w[2] = "key_share"
        /\ op[t].kind = "remove" =>
              w[1][2] \in op[t].who /\ held[t] = {} /\ \A v \in want[t] : v = w

\* The one item of a request.
WantOneItem ==
    \A t \in Tx : (pc[t] = "items" /\ op[t].kind # "remove") => \A w \in want[t] :
        /\ w[1][1] = "item" /\ w[1][2] = op[t].item
        /\ HoldsNoItem(t)
        /\ \A v \in want[t] : v = w

\* The items of a removal, in ascending order, after the actor's own row.
WantItems ==
    \A t \in Tx : (pc[t] = "items" /\ op[t].kind = "remove") => \A w \in want[t] :
        /\ \/ w = Share(op[t].by)
           \/ \E i \in Item : w = Lock(<<"item", i>>, "no_key_update") /\ item[i].status # "absent"
        /\ \A v \in held[t] : v[1][1] = "item" => w[1][1] = "item" /\ v[1][2] < w[1][2]

\* The rows the writes lock themselves: clocks of the written items, and - a
\* new item only - persons.
WantRefs ==
    \A t \in Tx : pc[t] = "refs" => \A w \in want[t] :
        \/ w[1][1] = "clock" /\ w[1][2] \in DOMAIN write[t]
        \/ op[t].kind = "create" /\ w[1][1] = "person" /\ w[2] = "key_share"

\* A new item that is decided is written.
CreateWrites ==
    \A t \in Tx : (pc[t] = "refs" /\ op[t].kind = "create") => op[t].item \in DOMAIN write[t]

\* Who removes whom, and that the actor is read with the first item.
Removals ==
    \A t \in Tx : op[t].kind = "remove" =>
        /\ op[t].by \in Remover /\ op[t].who \subseteq Removable
        /\ (pc[t] = "items" /\ \E w \in Asked(t) : w[1][1] = "item") =>
              Share(op[t].by) \in Asked(t)

WInv ==
    /\ WantBusy /\ HeldShape
    /\ WantPeople /\ WantOneItem /\ WantItems /\ WantRefs
    /\ CreateWrites /\ Removals

-----------------------------------------------------------------------------
\* The first lock requests of a transaction.
LEMMA FirstLocks ==
    ASSUME TypeOK, NEW t \in Tx, Start(t)
    PROVE  /\ op'[t].kind # "remove" =>
                \A w \in want'[t] : w[1][1] = "person" /\ w[2] = "key_share"
           /\ op'[t].kind = "remove" =>
                /\ op'[t].by \in Remover /\ op'[t].who \subseteq Removable
                /\ \E p \in Person : op'[t].who = {p} /\ want'[t] = {Lock(<<"person", p>>, "update")}
<1>0. \A o, locks : Begin(t, o, locks) => op'[t] = o /\ want'[t] = locks
  BY DEF Begin, TypeOK
<1>1. \A who : \A w \in PersonLocks(who, "key_share") : w[1][1] = "person" /\ w[2] = "key_share"
  BY DEF PersonLocks, Lock
<1>2. CASE BeginCreate(t)
  <2>1. PICK i \in Item, who \in SUBSET Reach :
          Begin(t, [kind |-> "create", by |-> Giver[i], item |-> i, to |-> "none", who |-> who],
                IF who = {Giver[i]} THEN {} ELSE PersonLocks(who, "key_share"))
    BY <1>2 DEF BeginCreate, Recipients
  <2>2. op'[t].kind = "create" /\ want'[t] \subseteq PersonLocks(who, "key_share")
    BY <1>0, <2>1
  <2> QED BY <1>1, <2>2
<1>3. CASE BeginChange(t)
  <2>1. PICK i \in Item, a \in Person, to \in Status :
          Begin(t, [kind |-> "change", by |-> a, item |-> i, to |-> to, who |-> {}],
                PersonLocks(ItemPeople(a, i), "key_share"))
    BY <1>3 DEF BeginChange
  <2>2. op'[t].kind = "change" /\ want'[t] = PersonLocks(ItemPeople(a, i), "key_share")
    BY <1>0, <2>1
  <2> QED BY <1>1, <2>2
<1>4. CASE BeginEdit(t)
  <2>1. PICK i \in Item, a \in Person :
          Begin(t, [kind |-> "edit", by |-> a, item |-> i, to |-> "none", who |-> {}],
                PersonLocks(ItemPeople(a, i), "key_share"))
    BY <1>4 DEF BeginEdit
  <2>2. op'[t].kind = "edit" /\ want'[t] = PersonLocks(ItemPeople(a, i), "key_share")
    BY <1>0, <2>1
  <2> QED BY <1>1, <2>2
<1>5. CASE BeginRemove(t)
  <2>1. PICK a \in Remover, p \in Removable :
          Begin(t, [kind |-> "remove", by |-> a, item |-> 0, to |-> "none", who |-> {p}], PersonLocks({p}, "update"))
    BY <1>5 DEF BeginRemove
  <2>2. /\ op'[t].kind = "remove" /\ op'[t].by = a /\ op'[t].who = {p}
        /\ want'[t] = PersonLocks({p}, "update")
    BY <1>0, <2>1
  <2>3. p \in Person /\ want'[t] = {Lock(<<"person", p>>, "update")}
    BY <2>2, PeopleAssumption DEF PersonLocks
  <2> QED BY <2>1, <2>2, <2>3
<1> QED BY <1>2, <1>3, <1>4, <1>5 DEF Start

LEMMA InitWaits == Init => WInv
BY DEF Init, WInv, WantBusy, HeldShape, WantPeople, WantOneItem, WantItems, WantRefs,
       CreateWrites, Removals, NoOp

\* An ended transaction asks for nothing.
LEMMA EndLocks ==
    ASSUME TypeOK, NEW t \in Tx, End(t)
    PROVE  want'[t] = {} /\ held'[t] = {} /\ op'[t] = NoOp /\ pc'[t] \in {"idle", "ended"}
BY DEF TypeOK, End

\* One lock moves from the wanted to the held.
LEMMA TakeLockMoves ==
    ASSUME TypeOK, NEW t \in Tx, TakeLock(t)
    PROVE  \E w \in want[t] :
             /\ InTurn(t, w) /\ w \in Locks
             /\ want'[t] = want[t] \ {w} /\ held'[t] = held[t] \union {w}
             /\ UNCHANGED <<archived, item, pc, op, write>>
<1>1. PICK w \in want[t] : /\ InTurn(t, w)
                          /\ want' = [want EXCEPT ![t] = @ \ {w}]
                          /\ held' = [held EXCEPT ![t] = @ \union {w}]
  BY DEF TakeLock
<1>2. want'[t] = want[t] \ {w} /\ held'[t] = held[t] \union {w} /\ w \in Locks
  BY <1>1 DEF TypeOK
<1> QED BY <1>1, <1>2 DEF TakeLock

LEMMA HeldShapeStep ==
    ASSUME IInv, WInv, NEW t \in Tx, Start(t) \/ Work(t) \/ Abort(t)
    PROVE  HeldShape'
<1> DEFINE Good(u) == \A w \in held[u] :
               /\ Busy(u)
               /\ (w[1][1] = "person" /\ w[2] # "key_share") => op[u].kind = "remove" /\ w[1][2] \in op[u].who
               /\ w[1][1] = "item" => pc[u] # "people" /\ (op[u].kind # "remove" => w[1][2] = op[u].item)
               /\ w[1][1] = "clock" => pc[u] = "refs" /\ w[1][2] \in DOMAIN write[u]
<1>0. TypeOK /\ \A u \in Tx : Good(u)
  BY DEF IInv, WInv, HeldShape
<1>1. ASSUME NEW u \in Tx, u # t PROVE Good(u)'
  BY <1>0, <1>1, OthersUnchanged DEF Busy
<1>2. Good(t)'
  <2>1. CASE Start(t)
    <3>1. pc[t] = "idle" /\ held'[t] = held[t]
      BY <1>0, <2>1, StartFacts
    <3>2. held[t] = {}
      BY <1>0, <3>1 DEF Busy
    <3> QED BY <3>1, <3>2
  <2>2. CASE TakeLock(t)
    <3>1. PICK w \in want[t] :
             /\ w \in Locks
             /\ held'[t] = held[t] \union {w}
             /\ UNCHANGED <<archived, item, pc, op, write>>
      BY <1>0, <2>2, TakeLockMoves
    <3>2. Busy(t)
      BY <3>1 DEF WInv, WantBusy
    <3> QED BY <1>0, <3>1, <3>2
          DEF Busy, WInv, WantPeople, WantOneItem, WantItems, WantRefs, Share, Lock
  <2>3. CASE DropRecipient(t)
    <3>1. /\ op[t].kind = "create" /\ op'[t].kind = "create" /\ op'[t].item = op[t].item
          /\ UNCHANGED <<pc, held, write>>
      BY <1>0, <2>3, DropFacts
    <3> QED BY <1>0, <3>1 DEF Busy
  <2>4. CASE LockItems(t)
    BY <1>0, <2>4, PhaseFacts DEF Busy
  <2>5. CASE Decide(t)
    BY <1>0, <2>5, PhaseFacts DEF Busy
  <2>6. CASE End(t)
    BY <1>0, <2>6, EndLocks
  <2> QED BY <2>1, <2>2, <2>3, <2>4, <2>5, <2>6 DEF Work, Refuse, Commit, Abort
<1> QED BY <1>1, <1>2 DEF HeldShape

\* Whoever starts, locks its items or decides is busy after it.
LEMMA WantBusyStep ==
    ASSUME IInv, WInv, NEW t \in Tx, Start(t) \/ Work(t) \/ Abort(t)
    PROVE  WantBusy'
<1>0. TypeOK /\ WantBusy
  BY DEF IInv, WInv
<1>1. ASSUME NEW u \in Tx, u # t, want'[u] # {} PROVE Busy(u)'
  BY <1>0, <1>1, OthersUnchanged DEF Busy, WantBusy
<1>2. ASSUME want'[t] # {} PROVE Busy(t)'
  <2>1. CASE Start(t)
    BY <1>0, <2>1, StartFacts DEF Busy
  <2>2. CASE TakeLock(t)
    BY <1>0, <1>2, <2>2, TakeLockMoves DEF Busy, WantBusy
  <2>3. CASE DropRecipient(t)
    BY <1>0, <2>3, DropFacts DEF Busy
  <2>4. CASE LockItems(t) \/ Decide(t)
    BY <1>0, <2>4, PhaseFacts DEF Busy
  <2>5. CASE End(t)
    BY <1>0, <1>2, <2>5, EndLocks
  <2> QED BY <2>1, <2>2, <2>3, <2>4, <2>5 DEF Work, Refuse, Commit, Abort
<1> QED BY <1>1, <1>2 DEF WantBusy

LEMMA WantPeopleStep ==
    ASSUME IInv, WInv, NEW t \in Tx, Start(t) \/ Work(t) \/ Abort(t)
    PROVE  WantPeople'
<1> DEFINE Good(u) == pc[u] = "people" => \A w \in want[u] :
               /\ w[1][1] = "person"
               /\ op[u].kind # "remove" => w[2] = "key_share"
               /\ op[u].kind = "remove" =>
                     w[1][2] \in op[u].who /\ held[u] = {} /\ \A v \in want[u] : v = w
<1>0. TypeOK /\ \A u \in Tx : Good(u)
  BY DEF IInv, WInv, WantPeople
<1>1. ASSUME NEW u \in Tx, u # t PROVE Good(u)'
  BY <1>0, <1>1, OthersUnchanged
<1>2. Good(t)'
  <2>1. CASE Start(t)
    <3>1. held'[t] = {}
      BY <1>0, <2>1, StartFacts DEF WInv, HeldShape, Busy
    <3>2. CASE op'[t].kind # "remove"
      BY <1>0, <2>1, <3>2, FirstLocks
    <3>3. CASE op'[t].kind = "remove"
      <4>1. PICK p \in Person : op'[t].who = {p} /\ want'[t] = {Lock(<<"person", p>>, "update")}
        BY <1>0, <2>1, <3>3, FirstLocks
      <4> QED BY <3>1, <3>3, <4>1 DEF Lock
    <3> QED BY <3>2, <3>3
  <2>2. CASE TakeLock(t)
    <3>1. PICK w \in want[t] :
             /\ want'[t] = want[t] \ {w}
             /\ UNCHANGED <<pc, op>>
      BY <1>0, <2>2, TakeLockMoves
    <3> QED BY <1>0, <3>1
  <2>3. CASE DropRecipient(t)
    BY <1>0, <2>3, DropFacts
  <2>4. CASE LockItems(t) \/ Decide(t)
    BY <1>0, <2>4, PhaseFacts
  <2>5. CASE End(t)
    BY <1>0, <2>5, EndLocks
  <2> QED BY <2>1, <2>2, <2>3, <2>4, <2>5 DEF Work, Refuse, Commit, Abort
<1> QED BY <1>1, <1>2 DEF WantPeople

LEMMA WantOneItemStep ==
    ASSUME IInv, WInv, NEW t \in Tx, Start(t) \/ Work(t) \/ Abort(t)
    PROVE  WantOneItem'
<1> DEFINE Good(u) == (pc[u] = "items" /\ op[u].kind # "remove") => \A w \in want[u] :
               /\ w[1][1] = "item" /\ w[1][2] = op[u].item
               /\ \A v \in held[u] : v[1][1] # "item"
               /\ \A v \in want[u] : v = w
<1>0. TypeOK /\ \A u \in Tx : Good(u)
  BY DEF IInv, WInv, WantOneItem, HoldsNoItem
<1>1. ASSUME NEW u \in Tx, u # t PROVE Good(u)'
  BY <1>0, <1>1, OthersUnchanged
<1>2. Good(t)'
  <2>1. CASE Start(t)
    BY <1>0, <2>1, StartFacts
  <2>2. CASE TakeLock(t)
    <3>1. PICK w \in want[t] :
             /\ want'[t] = want[t] \ {w}
             /\ UNCHANGED <<pc, op>>
      BY <1>0, <2>2, TakeLockMoves
    <3> QED BY <1>0, <3>1
  <2>3. CASE DropRecipient(t)
    BY <1>0, <2>3, DropFacts
  <2>4. CASE LockItems(t)
    <3>1. /\ pc[t] = "people" /\ op' = op /\ held' = held /\ want'[t] = ItemPhaseLocks(t)
      BY <1>0, <2>4, PhaseFacts
    <3>2. \A v \in held[t] : v[1][1] # "item"
      BY <3>1 DEF WInv, HeldShape
    <3>3. op[t].kind \in {"create", "change", "edit", "remove"}
      BY <1>0, <3>1, OpCases
    <3>4. op[t].kind # "remove" =>
             \E m \in Mode : ItemPhaseLocks(t) = {Lock(<<"item", op[t].item>>, m)}
      BY <3>3, ModeType DEF ItemPhaseLocks, ItemLocks
    <3> QED BY <3>1, <3>2, <3>4 DEF Lock
  <2>5. CASE Decide(t)
    BY <1>0, <2>5, PhaseFacts
  <2>6. CASE End(t)
    BY <1>0, <2>6, EndLocks
  <2> QED BY <2>1, <2>2, <2>3, <2>4, <2>5, <2>6 DEF Work, Refuse, Commit, Abort
<1> QED BY <1>1, <1>2 DEF WantOneItem, HoldsNoItem

\* The items of a removal are taken in ascending order.
LEMMA WantItemsStep ==
    ASSUME IInv, WInv, NEW t \in Tx, Start(t) \/ Work(t) \/ Abort(t)
    PROVE  WantItems'
<1> DEFINE Good(u) == (pc[u] = "items" /\ op[u].kind = "remove") => \A w \in want[u] :
               /\ \/ w = Share(op[u].by)
                  \/ \E i \in Item : w = Lock(<<"item", i>>, "no_key_update") /\ item[i].status # "absent"
               /\ \A v \in held[u] : v[1][1] = "item" => w[1][1] = "item" /\ v[1][2] < w[1][2]
<1>0. TypeOK /\ \A u \in Tx : Good(u)
  BY DEF IInv, WInv, WantItems
<1>1. ASSUME NEW u \in Tx, u # t PROVE Good(u)'
  <2>1. \A i \in Item : item[i].status # "absent" => item'[i].status # "absent"
    BY CommitFacts, OnlyCommitsWrite
  <2> QED BY <1>0, <1>1, <2>1, OthersUnchanged
<1>2. Good(t)'
  <2>1. CASE Start(t)
    BY <1>0, <2>1, StartFacts
  <2>2. CASE TakeLock(t)
    <3>1. PICK w \in want[t] :
             /\ InTurn(t, w)
             /\ want'[t] = want[t] \ {w} /\ held'[t] = held[t] \union {w}
             /\ UNCHANGED <<archived, item, pc, op, write>>
      BY <1>0, <2>2, TakeLockMoves
    <3> SUFFICES ASSUME pc[t] = "items", op[t].kind = "remove", NEW v \in want[t] \ {w},
                        w[1][1] = "item"
                 PROVE  v[1][1] = "item" /\ w[1][2] < v[1][2]
      BY <1>0, <3>1
    <3>2. Rank(w[1]) <= Rank(v[1])
      BY <3>1 DEF InTurn
    <3>3. PICK i \in Item : w = Lock(<<"item", i>>, "no_key_update")
      BY <1>0 DEF Share, Lock
    <3>4. op[t].by \in Person /\ op[t].by <= NPerson
      BY <1>0, OpCases DEF Person, TypeOK
    <3>5. CASE v = Share(op[t].by)
      BY <3>2, <3>3, <3>4, <3>5, SizesAssumption DEF Rank, Lock, Share, Item, Person
    <3>6. CASE \E j \in Item : v = Lock(<<"item", j>>, "no_key_update")
      <4>1. PICK j \in Item : v = Lock(<<"item", j>>, "no_key_update")
        BY <3>6
      <4>2. i # j
        BY <3>3, <4>1
      <4> QED BY <3>2, <3>3, <4>1, <4>2, SizesAssumption DEF Rank, Lock, Item
    <3> QED BY <1>0, <3>5, <3>6
  <2>3. CASE DropRecipient(t)
    BY <1>0, <2>3, DropFacts
  <2>4. CASE LockItems(t)
    <3>1. /\ pc[t] = "people" /\ op' = op /\ held' = held /\ item' = item
          /\ want'[t] = ItemPhaseLocks(t)
      BY <1>0, <2>4, PhaseFacts
    <3>2. \A v \in held[t] : v[1][1] # "item"
      BY <3>1 DEF WInv, HeldShape
    <3>3. ASSUME op[t].kind = "remove", NEW w \in ItemPhaseLocks(t)
          PROVE  \/ w = Share(op[t].by)
                 \/ \E i \in Item : w = Lock(<<"item", i>>, "no_key_update") /\ item[i].status # "absent"
      <4>1. \/ w \in PersonLocks({op[t].by}, "key_share")
            \/ w \in ItemLocks(UNION {Candidates(p) : p \in op[t].who}, "no_key_update")
        BY <3>3 DEF ItemPhaseLocks
      <4>2. \A p : \A i \in Candidates(p) : i \in Item /\ item[i].status # "absent"
        BY DEF Candidates, Unfinished, Open
      <4> QED BY <4>1, <4>2 DEF PersonLocks, ItemLocks, Share
    <3> QED BY <3>1, <3>2, <3>3
  <2>5. CASE Decide(t)
    BY <1>0, <2>5, PhaseFacts
  <2>6. CASE End(t)
    BY <1>0, <2>6, EndLocks
  <2> QED BY <2>1, <2>2, <2>3, <2>4, <2>5, <2>6 DEF Work, Refuse, Commit, Abort
<1> QED BY <1>1, <1>2 DEF WantItems

\* Everybody a decided change references was locked before its item, and a
\* removal that writes an item has its actor.
LEMMA RefsAreClocks ==
    ASSUME IInv, WInv, NEW t \in Tx, Decide(t), NEW w \in Refs(t, Written(t))
    PROVE  \/ w[1][1] = "clock" /\ w[1][2] \in DOMAIN Written(t)
           \/ op[t].kind = "create" /\ w[1][1] = "person" /\ w[2] = "key_share"
<1>0. /\ TypeOK /\ PeopleCovered
      /\ pc[t] = "items" /\ want[t] = {} /\ Allowed(t)
  BY PhaseFacts DEF IInv, LockDiscipline
<1>1. CASE w \in Clocks(Written(t))
  BY <1>1 DEF Clocks, Lock
<1>2. CASE w \in PersonLocks(Referenced(t, Written(t)), "key_share") /\ w \notin Clocks(Written(t))
  <2>1. PICK p \in Referenced(t, Written(t)) : w = Lock(<<"person", p>>, "key_share")
    BY <1>2 DEF PersonLocks
  <2>2. w = Share(p) /\ Share(p) \notin held[t]
    <3>1. \A m \in Mode : <<w[1], m>> \notin held[t]
      BY <1>2 DEF Refs
    <3> QED BY <2>1, <3>1, ModeType DEF Share, Lock
  <2>3. op[t].kind \in {"create", "change", "edit", "remove"}
    BY <1>0, OpCases
  <2>4. CASE op[t].kind = "create"
    BY <2>1, <2>4 DEF Lock
  <2>5. CASE op[t].kind \in {"change", "edit"}
    <3>1. /\ \A q \in {op[t].by} \union Assignees(item[op[t].item]) : Share(q) \in held[t]
          /\ op[t].item \in Requests => Share(Giver[op[t].item]) \in held[t]
      BY <1>0, <2>5 DEF PeopleCovered
    <3>2. op[t].item \in DOMAIN Written(t)
      BY <2>5 DEF Written
    <3>3. Assignees(Written(t)[op[t].item]) \subseteq Assignees(item[op[t].item])
      BY <2>5, <3>2, WrittenSafe
    <3>4. p \in {op[t].by} \union Assignees(item[op[t].item])
             \union (IF op[t].item \in Requests THEN {Giver[op[t].item]} ELSE {})
      BY <2>1, <2>5, <3>3 DEF Referenced
    <3> QED BY <2>2, <3>1, <3>4
  <2>6. CASE op[t].kind = "remove"
    <3>1. p = op[t].by /\ DOMAIN Written(t) # {}
      BY <2>1, <2>6 DEF Referenced
    <3>2. PICK i \in StillOpen(t) : TRUE
      BY <2>6, <3>1 DEF Written
    <3>3. Lock(<<"item", i>>, "no_key_update") \in Asked(t)
      BY <3>2 DEF StillOpen, Asked
    <3>4. Lock(<<"item", i>>, "no_key_update")[1][1] = "item"
      BY DEF Lock
    <3>5. Share(op[t].by) \in Asked(t)
      BY <1>0, <2>6, <3>3, <3>4 DEF WInv, Removals
    <3> QED BY <1>0, <2>2, <3>1, <3>5 DEF Asked
  <2> QED BY <2>3, <2>4, <2>5, <2>6
<1> QED BY <1>1, <1>2 DEF Refs

LEMMA WantRefsStep ==
    ASSUME IInv, WInv, NEW t \in Tx, Start(t) \/ Work(t) \/ Abort(t)
    PROVE  WantRefs'
<1> DEFINE Good(u) == pc[u] = "refs" => \A w \in want[u] :
               \/ w[1][1] = "clock" /\ w[1][2] \in DOMAIN write[u]
               \/ op[u].kind = "create" /\ w[1][1] = "person" /\ w[2] = "key_share"
<1>0. TypeOK /\ \A u \in Tx : Good(u)
  BY DEF IInv, WInv, WantRefs
<1>1. ASSUME NEW u \in Tx, u # t PROVE Good(u)'
  BY <1>0, <1>1, OthersUnchanged
<1>2. Good(t)'
  <2>1. CASE Start(t)
    BY <1>0, <2>1, StartFacts
  <2>2. CASE TakeLock(t)
    <3>1. PICK w \in want[t] :
             /\ want'[t] = want[t] \ {w}
             /\ UNCHANGED <<pc, op, write>>
      BY <1>0, <2>2, TakeLockMoves
    <3> QED BY <1>0, <3>1
  <2>3. CASE DropRecipient(t) \/ LockItems(t)
    BY <1>0, <2>3, DropFacts, PhaseFacts
  <2>4. CASE Decide(t)
    <3>1. op' = op /\ write'[t] = Written(t) /\ want'[t] = Refs(t, Written(t))
      BY <1>0, <2>4, PhaseFacts
    <3> QED BY <2>4, <3>1, RefsAreClocks
  <2>5. CASE End(t)
    BY <1>0, <2>5, EndLocks
  <2> QED BY <2>1, <2>2, <2>3, <2>4, <2>5 DEF Work, Refuse, Commit, Abort
<1> QED BY <1>1, <1>2 DEF WantRefs

LEMMA CreateWritesStep ==
    ASSUME IInv, WInv, NEW t \in Tx, Start(t) \/ Work(t) \/ Abort(t)
    PROVE  CreateWrites'
<1> DEFINE Good(u) == (pc[u] = "refs" /\ op[u].kind = "create") => op[u].item \in DOMAIN write[u]
<1>0. TypeOK /\ \A u \in Tx : Good(u)
  BY DEF IInv, WInv, CreateWrites
<1>1. ASSUME NEW u \in Tx, u # t PROVE Good(u)'
  BY <1>0, <1>1, OthersUnchanged
<1>2. Good(t)'
  <2>1. CASE Start(t) \/ DropRecipient(t) \/ LockItems(t)
    BY <1>0, <2>1, StartFacts, DropFacts, PhaseFacts
  <2>2. CASE TakeLock(t)
    BY <1>0, <2>2, TakeLockMoves
  <2>3. CASE Decide(t)
    BY <1>0, <2>3, PhaseFacts DEF Written
  <2>4. CASE End(t)
    BY <1>0, <2>4, EndLocks
  <2> QED BY <2>1, <2>2, <2>3, <2>4 DEF Work, Refuse, Commit, Abort
<1> QED BY <1>1, <1>2 DEF CreateWrites

LEMMA RemovalsStep ==
    ASSUME IInv, WInv, NEW t \in Tx, Start(t) \/ Work(t) \/ Abort(t)
    PROVE  Removals'
<1> DEFINE Good(u) == op[u].kind = "remove" =>
               /\ op[u].by \in Remover /\ op[u].who \subseteq Removable
               /\ (pc[u] = "items" /\ \E w \in Asked(u) : w[1][1] = "item") =>
                     Share(op[u].by) \in Asked(u)
<1>0. TypeOK /\ \A u \in Tx : Good(u)
  BY DEF IInv, WInv, Removals
<1>1. ASSUME NEW u \in Tx, u # t PROVE Good(u)'
  BY <1>0, <1>1, OthersUnchanged DEF Asked
<1>2. Good(t)'
  <2>1. CASE Start(t)
    BY <1>0, <2>1, StartFacts, FirstLocks
  <2>2. CASE TakeLock(t)
    BY <1>0, <2>2, TakeLockFacts
  <2>3. CASE DropRecipient(t)
    BY <1>0, <2>3, DropFacts
  <2>4. CASE LockItems(t)
    <3>1. /\ pc[t] = "people" /\ op' = op /\ held' = held /\ want'[t] = ItemPhaseLocks(t)
      BY <1>0, <2>4, PhaseFacts
    <3>2. \A v \in held[t] : v[1][1] # "item"
      BY <3>1 DEF WInv, HeldShape
    <3>3. op[t].kind = "remove" =>
             (ItemPhaseLocks(t) # {} => Share(op[t].by) \in ItemPhaseLocks(t))
      BY DEF ItemPhaseLocks, PersonLocks, Share
    <3> QED BY <1>0, <3>1, <3>2, <3>3 DEF Asked
  <2>5. CASE Decide(t)
    BY <1>0, <2>5, PhaseFacts
  <2>6. CASE End(t)
    BY <1>0, <2>6, EndLocks DEF NoOp
  <2> QED BY <2>1, <2>2, <2>3, <2>4, <2>5, <2>6 DEF Work, Refuse, Commit, Abort
<1> QED BY <1>1, <1>2 DEF Removals

LEMMA WaitsStep == IInv /\ WInv /\ [Next]_vars => WInv'
<1> SUFFICES ASSUME IInv, WInv, [Next]_vars PROVE WInv'
  OBVIOUS
<1>1. CASE UNCHANGED vars
  BY <1>1 DEF vars, WInv, WantBusy, HeldShape, WantPeople, WantOneItem, WantItems, WantRefs,
              CreateWrites, Removals, Busy, HoldsNoItem, Asked
<1>2. ASSUME NEW t \in Tx, Start(t) \/ Work(t) \/ Abort(t) PROVE WInv'
  BY <1>2, WantBusyStep, HeldShapeStep, WantPeopleStep, WantOneItemStep, WantItemsStep,
     WantRefsStep, CreateWritesStep, RemovalsStep DEF WInv
<1> QED BY <1>1, <1>2 DEF Next

\* Nothing locks a work item and then a person, but for the foreign keys of a
\* new item (iam/removal.ts, lockItemPeople).
THEOREM PeopleBeforeItems == Spec => []RecipientsLockedFirst
<1>1. Init => IInv /\ WInv
  BY InitDiscipline, InitWaits
<1>2. IInv /\ WInv /\ [Next]_vars => (IInv /\ WInv)'
  BY DisciplineStep, WaitsStep
<1>3. WInv => RecipientsLockedFirst
  BY DEF WInv, WantRefs, RecipientsLockedFirst
<1> QED BY <1>1, <1>2, <1>3, PTL DEF Spec
-----------------------------------------------------------------------------
(* Every wait leads upwards.                                               *)

Apart == Remover \intersect Removable = {}

Top == NPerson + NItem + 4
Ranks(t) == {Rank(w[1]) : w \in want[t]}
NextRank(t) == CHOOSE n \in Ranks(t) : \A m \in Ranks(t) : n <= m

\* How far a transaction is; a removal in its items also by the next item.
WaitLevel(t) ==
    IF want[t] = {} \/ (pc[t] = "refs" /\ op[t].kind # "create") THEN Top
    ELSE IF pc[t] = "refs" THEN 2
    ELSE IF op[t].kind # "remove" THEN 1
    ELSE IF pc[t] = "people" THEN 0
    ELSE NextRank(t) + 3

\* A set of naturals has a least one.
LEMMA LeastNatural ==
    ASSUME NEW T \in SUBSET Nat, T # {}
    PROVE  \E x \in T : \A y \in T : x <= y
<1> DEFINE R == {ss \in Nat \X Nat : ss[1] < ss[2]}
<1>1. IsWellFoundedOn(R, Nat)
  BY NatLessThanWellFounded DEF OpToRel
<1>2. PICK x \in T : \A y \in T : ~(<<y, x>> \in R)
  <2> HIDE DEF R
  <2> QED BY <1>1, WFMin
<1>3. ASSUME NEW y \in T PROVE x <= y
  <2>1. ~(<<y, x>> \in R) /\ x \in Nat /\ y \in Nat
    BY <1>2
  <2> QED BY <2>1
<1> QED BY <1>3

LEMMA RankType ==
    ASSUME TypeOK, NEW t \in Tx, NEW w \in want[t]
    PROVE  Rank(w[1]) \in Nat /\ Rank(w[1]) <= NPerson + NItem
<1>1. w[1] \in ({"person"} \X Person) \union ({"item", "clock"} \X Item)
  BY DEF TypeOK, Locks, Row
<1>2. CASE w[1] \in {"person"} \X Person
  BY <1>2, SizesAssumption DEF Rank, Person
<1>3. CASE w[1] \in {"item", "clock"} \X Item
  BY <1>3, SizesAssumption DEF Rank, Item
<1> QED BY <1>1, <1>2, <1>3

LEMMA NextRankFacts ==
    ASSUME TypeOK, NEW t \in Tx, want[t] # {}
    PROVE  /\ NextRank(t) \in Nat /\ NextRank(t) <= NPerson + NItem
           /\ \A w \in want[t] : NextRank(t) <= Rank(w[1])
           /\ \E w \in want[t] : NextRank(t) = Rank(w[1])
<1>1. Ranks(t) \in SUBSET Nat /\ Ranks(t) # {}
  BY RankType DEF Ranks
<1>2. \E n \in Ranks(t) : \A m \in Ranks(t) : n <= m
  BY <1>1, LeastNatural
<1>3. NextRank(t) \in Ranks(t) /\ \A m \in Ranks(t) : NextRank(t) <= m
  BY <1>2 DEF NextRank
<1> QED BY <1>3, RankType DEF Ranks

LEMMA LevelType ==
    ASSUME TypeOK, NEW t \in Tx
    PROVE  WaitLevel(t) \in Nat /\ WaitLevel(t) <= Top
BY NextRankFacts, SizesAssumption DEF WaitLevel, Top

\* A clock row is asked for by the one transaction that holds its item.
LEMMA ClocksAreFree ==
    ASSUME IInv, WInv, NEW t \in Tx, NEW u \in Tx, t # u, NEW w \in want[t],
           pc[t] = "refs", w[1][1] = "clock", Collides(held[u], w)
    PROVE  FALSE
<1>1. /\ w[1][2] \in DOMAIN write[t] /\ DOMAIN write[t] \subseteq Item
  BY DEF WInv, WantRefs, IInv, TypeOK
<1>2. PICK n \in Mode : <<w[1], n>> \in held[u]
  <2>1. w[2] \in Mode
    BY DEF IInv, TypeOK, Locks
  <2> QED BY <2>1, ConflictsSymmetric DEF Collides
<1>3. w[1][2] \in DOMAIN write[u]
  BY <1>2 DEF WInv, HeldShape
<1>4. HoldsItem(t, w[1][2]) /\ HoldsItem(u, w[1][2])
  BY <1>1, <1>3 DEF IInv, LockDiscipline, WritersHoldItem
<1> QED BY <1>1, <1>4, OneHolder DEF IInv, LockDiscipline

\* Who makes a reader of a person wait is a removal of that person, beyond its
\* first lock.
LEMMA ShareWaitsForRemoval ==
    ASSUME IInv, WInv, NEW u \in Tx, NEW w, w[1][1] = "person", w[2] = "key_share",
           Collides(held[u], w)
    PROVE  /\ op[u].kind = "remove" /\ w[1][2] \in op[u].who
           /\ Busy(u)
           /\ pc[u] = "people" => want[u] = {}
<1>1. <<w[1], "update">> \in held[u]
  BY DEF Collides, ConflictsWith
<1>2. /\ Busy(u) /\ op[u].kind = "remove" /\ w[1][2] \in op[u].who
  BY <1>1 DEF WInv, HeldShape
<1>3. pc[u] = "people" => want[u] = {}
  BY <1>1, <1>2 DEF WInv, WantPeople
<1> QED BY <1>2, <1>3

\* Who holds an item is past it, but for a removal that goes on to later items
\* and a new item's foreign keys.
LEMMA ItemHolders ==
    ASSUME IInv, WInv, NEW u \in Tx, NEW i \in Item, NEW n, <<<<"item", i>>, n>> \in held[u]
    PROVE  /\ Busy(u) /\ pc[u] # "people"
           /\ (pc[u] = "items" /\ op[u].kind # "remove") => want[u] = {}
           /\ (pc[u] = "items" /\ op[u].kind = "remove" /\ want[u] # {}) => NextRank(u) > NPerson + i
           /\ (pc[u] = "refs" /\ op[u].kind = "create") => item[i].status = "absent"
<1>0. TypeOK BY DEF IInv
<1>1. Busy(u) /\ pc[u] # "people" /\ (op[u].kind # "remove" => op[u].item = i)
  BY DEF WInv, HeldShape
<1>2. (pc[u] = "items" /\ op[u].kind # "remove") => want[u] = {}
  BY DEF WInv, WantOneItem, HoldsNoItem
<1>3. ASSUME pc[u] = "items", op[u].kind = "remove", want[u] # {}
      PROVE  NextRank(u) > NPerson + i
  <2>1. PICK w \in want[u] : NextRank(u) = Rank(w[1])
    BY <1>0, <1>3, NextRankFacts
  <2>2. w[1][1] = "item" /\ i < w[1][2]
    BY <1>3 DEF WInv, WantItems
  <2>3. PICK j \in Item : w = Lock(<<"item", j>>, "no_key_update")
    BY <1>3, <2>2 DEF WInv, WantItems, Share, Lock
  <2> QED BY <2>1, <2>2, <2>3, SizesAssumption DEF Rank, Lock, Item
<1>4. ASSUME pc[u] = "refs", op[u].kind = "create"
      PROVE  item[i].status = "absent"
  <2>1. i \in DOMAIN write[u]
    BY <1>1, <1>4 DEF WInv, CreateWrites
  <2> QED BY <1>4, <2>1 DEF IInv, LockDiscipline, WritesAreSafe
<1> QED BY <1>1, <1>2, <1>3, <1>4

LEMMA WaitsUpwards ==
    ASSUME IInv, WInv, Apart, NEW t \in Tx, NEW u \in Tx, Waits(t, u)
    PROVE  WaitLevel(u) > WaitLevel(t)
<1>0. TypeOK BY DEF IInv
<1>1. PICK w \in want[t] : InTurn(t, w) /\ Collides(held[u], w)
  BY DEF Waits
<1>2. t # u /\ Busy(t) /\ want[t] # {}
  BY <1>1 DEF Waits, WInv, WantBusy
<1>3. w \in Locks /\ w[2] \in Mode
  BY <1>0 DEF TypeOK, Locks
<1>4. PICK n \in Mode : <<w[1], n>> \in held[u]
  BY <1>1, <1>3, ConflictsSymmetric DEF Collides
<1>5. Busy(u)
  BY <1>4 DEF WInv, HeldShape
<1>6. /\ WaitLevel(u) \in Nat
      /\ want[u] # {} => NextRank(u) \in Nat
  BY <1>0, LevelType, NextRankFacts
<1>7. Top \in Nat /\ Top > 3
  BY SizesAssumption DEF Top
<1>8. CASE pc[t] = "people" /\ op[t].kind = "remove"
  <2>1. WaitLevel(t) = 0
    BY <1>2, <1>8 DEF WaitLevel
  <2>2. ~(pc[u] = "people" /\ op[u].kind = "remove" /\ want[u] # {})
    BY <1>4 DEF WInv, WantPeople
  <2> QED BY <1>5, <1>6, <1>7, <2>1, <2>2 DEF WaitLevel, Busy
<1>9. CASE pc[t] = "people" /\ op[t].kind # "remove"
  <2>1. WaitLevel(t) = 1
    BY <1>2, <1>9 DEF WaitLevel
  <2>2. op[u].kind = "remove" /\ (pc[u] = "people" => want[u] = {})
    BY <1>1, <1>9, ShareWaitsForRemoval DEF WInv, WantPeople
  <2> QED BY <1>5, <1>6, <1>7, <2>1, <2>2 DEF WaitLevel, Busy
<1>10. CASE pc[t] = "items" /\ op[t].kind # "remove"
  <2>1. WaitLevel(t) = 1
    BY <1>2, <1>10 DEF WaitLevel
  <2>2. w[1] = <<"item", w[1][2]>> /\ w[1][2] \in Item
    BY <1>3, <1>10 DEF WInv, WantOneItem, Locks, Row
  <2>3. /\ pc[u] # "people"
        /\ (pc[u] = "items" /\ op[u].kind # "remove") => want[u] = {}
    BY <1>4, <2>2, ItemHolders
  <2> QED BY <1>5, <1>6, <1>7, <2>1, <2>3 DEF WaitLevel, Busy
<1>11. CASE pc[t] = "items" /\ op[t].kind = "remove"
  <2>1. WaitLevel(t) = NextRank(t) + 3 /\ NextRank(t) \in Nat /\ NextRank(t) <= NPerson + NItem
    BY <1>0, <1>2, <1>11, NextRankFacts DEF WaitLevel
  <2>2. CASE w = Share(op[t].by)
    <3>1. op[u].kind = "remove" /\ op[t].by \in op[u].who
      BY <1>1, <2>2, ShareWaitsForRemoval DEF Share, Lock
    <3> QED BY <1>11, <3>1 DEF Apart, WInv, Removals
  <2>3. CASE w # Share(op[t].by)
    <3>1. PICK i \in Item : w = Lock(<<"item", i>>, "no_key_update") /\ item[i].status # "absent"
      BY <1>11, <2>3 DEF WInv, WantItems
    <3>2. w[1] = <<"item", i>>
      BY <3>1 DEF Lock
    <3>3. NextRank(t) <= NPerson + i
      BY <1>0, <1>2, <3>2, NextRankFacts DEF Rank
    <3>4. /\ Busy(u) /\ pc[u] # "people"
          /\ (pc[u] = "items" /\ op[u].kind # "remove") => want[u] = {}
          /\ (pc[u] = "items" /\ op[u].kind = "remove" /\ want[u] # {}) => NextRank(u) > NPerson + i
          /\ ~(pc[u] = "refs" /\ op[u].kind = "create")
      BY <1>4, <3>1, <3>2, ItemHolders
    <3>5. CASE want[u] = {} \/ pc[u] = "refs"
      <4>1. WaitLevel(u) = Top BY <3>4, <3>5 DEF WaitLevel
      <4> QED BY <2>1, <4>1, SizesAssumption DEF Top
    <3>6. CASE want[u] # {} /\ pc[u] = "items"
      <4>1. WaitLevel(u) = NextRank(u) + 3 /\ NextRank(u) > NPerson + i
        BY <3>4, <3>6 DEF WaitLevel
      <4> QED BY <1>6, <2>1, <3>3, <3>6, <4>1, SizesAssumption DEF Item
    <3> QED BY <3>4, <3>5, <3>6 DEF Busy
  <2> QED BY <2>2, <2>3
<1>12. CASE pc[t] = "refs"
  <2>1. w[1][1] # "clock"
    BY <1>1, <1>2, <1>12, ClocksAreFree
  <2>2. op[t].kind = "create" /\ w[1][1] = "person" /\ w[2] = "key_share"
    BY <1>12, <2>1 DEF WInv, WantRefs
  <2>3. WaitLevel(t) = 2
    BY <1>2, <1>12, <2>2 DEF WaitLevel
  <2>4. op[u].kind = "remove" /\ (pc[u] = "people" => want[u] = {})
    BY <1>1, <2>2, ShareWaitsForRemoval
  <2> QED BY <1>5, <1>6, <1>7, <2>3, <2>4 DEF WaitLevel, Busy
<1> QED BY <1>2, <1>8, <1>9, <1>10, <1>11, <1>12 DEF Busy

LEMMA HighestWaitsForNobody == IInv /\ WInv /\ Apart => NoCircularWait
<1> SUFFICES ASSUME IInv, WInv, Apart, NEW S \in (SUBSET Tx) \ {{}}
             PROVE  \E t \in S : \A u \in S : ~Waits(t, u)
  BY DEF NoCircularWait
<1>0. TypeOK BY DEF IInv
<1>1. Top \in Nat
  BY SizesAssumption DEF Top
<1> DEFINE Below == {Top - WaitLevel(t) : t \in S}
<1>2. Below \in SUBSET Nat /\ Below # {}
  BY <1>0, <1>1, LevelType
<1>3. PICK t \in S : \A u \in S : Top - WaitLevel(t) <= Top - WaitLevel(u)
  <2>1. PICK n \in Below : \A m \in Below : n <= m
    <3> HIDE DEF Below
    <3> QED BY <1>2, LeastNatural
  <2> QED BY <2>1
<1>4. ASSUME NEW u \in S PROVE ~Waits(t, u)
  <2>1. /\ WaitLevel(t) \in Nat /\ WaitLevel(u) \in Nat
        /\ Top - WaitLevel(t) <= Top - WaitLevel(u)
    BY <1>0, <1>3, LevelType
  <2> QED BY <1>1, <2>1, WaitsUpwards
<1> QED BY <1>4

\* No requests wait on one another in a circle, however many there are, when
\* nobody who removes persons can be removed (iam/removal.ts "Lock order"); with
\* two such persons removing each other they do.
THEOREM NoCircle == Apart /\ Spec => []NoCircularWait
<1> DEFINE Inv == IInv /\ WInv /\ Apart
<1>1. Apart /\ Init => Inv
  BY InitDiscipline, InitWaits
<1>2. Inv /\ [Next]_vars => Inv'
  <2>1. Apart' = Apart
    BY DEF Apart
  <2> QED BY <2>1, DisciplineStep, WaitsStep
<1>3. Inv => NoCircularWait
  BY HighestWaitsForNobody
<1> QED BY <1>1, <1>2, <1>3, PTL DEF Spec
=============================================================================
