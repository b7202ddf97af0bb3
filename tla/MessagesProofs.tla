--------------------------- MODULE MessagesProofs ---------------------------
(***************************************************************************)
(* Theorems about Messages, for any colleagues, messages, forms and        *)
(* connections: nobody removed is addressed, a message is handed on when   *)
(* its last addressee leaves, the first answer stands, the rate limit and  *)
(* the forms hold.                                                         *)
(*                                                                         *)
(* The argument: what a transaction is about to write was right when it    *)
(* was computed (`Writer`) and stays so until it commits, because another  *)
(* commit that would change what it rests on holds a row in conflict       *)
(* (`LocksExclude`): the message, the link, or a colleague's row.  That no *)
(* circle of waits closes is shown by a level (`WaitLevel`) that every     *)
(* wait raises.                                                            *)
(***************************************************************************)
EXTENDS Messages, FiniteSetTheorems, WellFoundedInduction, TLAPS

Locks == Row \X Mode
Busy == Phase \ {"idle", "ended"}

\* What a request names, by its kind.
Fits(o) ==
    /\ o.kind = "send" => o.form \in Form
    /\ o.kind = "answer" => o.p \in Staff /\ o.m \in Message
    /\ o.kind \in {"remove", "revoke", "replace", "appoint"} => o.p \in Staff
    /\ o.kind = "replace" => o.next \in Staff

TInv == TypeOK /\ \A t \in Tx : Fits(op[t])

\* Locks of two transactions never collide.
LocksExclude == \A t, u \in Tx : t # u => \A w \in held[t] : ~Collides(held[u], w)

Asked(t) == held[t] \union want[t]
Written(t) == {m \in Message : write[t].msg[m].status # "none"}

\* A send holds its recipients and then the link; what it counted and looked up
\* under the link stays so.
Sender(t) ==
    op[t].kind = "send" =>
        /\ pc[t] \in {"persons", "link"} => RecipientLocks(op[t].to) \subseteq Asked(t)
        /\ pc[t] = "link" => LinkLocks \subseteq Asked(t)
        /\ pc[t] = "write" =>
              /\ LinkLocks \subseteq held[t]
              /\ op[t].form \notin UsedForms /\ Cardinality(Recent) < RateLimit
              /\ \A m, n \in Written(t) : m = n

Answerer(t) ==
    op[t].kind = "answer" /\ pc[t] = "items" => AnswerLocks(op[t].m) \subseteq Asked(t)

\* A removal holds the person FOR UPDATE: no message reaches them any more that
\* it has not planned, and locked, and withdrawn them from.
Remover(t) ==
    LET p == op[t].p
        lock == Lock(StaffRow(p), "update")
    IN  op[t].kind = "remove" =>
          /\ pc[t] = "persons" => lock \in Asked(t)
          /\ pc[t] \in {"offices", "plan", "candidates", "items", "write"} => lock \in held[t]
          /\ pc[t] \in {"plan", "candidates", "items"} => Routes(p) \subseteq Planned(t)
          /\ pc[t] = "items" => ItemLocks(Routes(p)) \subseteq Asked(t)
          /\ pc[t] = "write" =>
                Routes(p) \subseteq Written(t) /\ \A m \in Written(t) : p \notin write[t].msg[m].assignees

\* The candidates a re-route has are there and locked, and never the colleague
\* whose capacity ends.
Taker(t) ==
    /\ pc[t] = "plan" => \A m \in Planned(t) : op[t].p \notin InPlan(t, m)
    /\ pc[t] \in {"candidates", "items"} /\ op[t].kind # "answer" =>
          /\ plan[t].took \subseteq Active \ {op[t].p}
          /\ PersonLocks(plan[t].took, "key_share") \subseteq held[t]

\* One message of a write: a new one, under the link, or an open one, under its
\* own lock.
NewOne(t, m) ==
    LET n == write[t].msg[m] IN
    /\ op[t].kind = "send" /\ msg[m].status = "none" /\ LinkLocks \subseteq held[t]
    /\ n.status = "open" /\ n.form = op[t].form
OldOne(t, m) ==
    LET n == write[t].msg[m] IN
    /\ op[t].kind # "send" /\ Open(m) /\ ItemLocks({m}) \subseteq held[t] /\ n.form = msg[m].form

\* What is said of a message that loses its last addressee by this write.
HandedOn(t, m) == m \in Planned(t) /\ InPlan(t, m) \intersect plan[t].took = {}

Writer(t) ==
    pc[t] = "write" =>
        /\ write[t].gone \subseteq {op[t].p}
        /\ op[t].kind # "remove" => write[t].gone = {}
        /\ \A m \in Written(t) :
              LET n == write[t].msg[m] IN
              /\ NewOne(t, m) \/ OldOne(t, m)
              /\ n.status = "open" =>
                    /\ n.assignees \subseteq Active
                    /\ PersonLocks(n.assignees \ msg[m].assignees, "key_share") \subseteq held[t]
              /\ (n.status = "open" /\ Open(m) /\ n.assignees = {})
                    => msg[m].assignees = {} \/ HandedOn(t, m)

Knows(t) ==
    /\ pc[t] \in {"plan", "candidates", "write"} => want[t] = {}
    /\ Sender(t) /\ Answerer(t) /\ Remover(t) /\ Taker(t) /\ Writer(t)

Blank == \A m \in Message : msg[m].status = "none" => msg[m].assignees = {}

IInv == TInv /\ LocksExclude /\ AddresseesThere /\ RateKept /\ Blank /\ \A t \in Tx : Knows(t)

-----------------------------------------------------------------------------
(* Types.                                                                  *)

LEMMA RowTypes ==
    /\ LinkRow \in Row
    /\ \A p \in Staff : StaffRow(p) \in Row
    /\ \A pair \in Staff \X Office : OfficeRow(pair) \in Row
    /\ \A m \in Message : ItemRow(m) \in Row
BY DEF Row

LEMMA LockType ==
    ASSUME NEW row \in Row, NEW mode \in Mode
    PROVE  Lock(row, mode) \in Locks
BY DEF Lock, Locks

LEMMA LocksTypes ==
    /\ \A S \in SUBSET Staff, mode \in Mode : PersonLocks(S, mode) \in SUBSET Locks
    /\ \A S \in SUBSET Staff : RecipientLocks(S) \in SUBSET Locks
    /\ \A S \in SUBSET (Staff \X Office) : OfficeLocks(S) \in SUBSET Locks
    /\ \A S \in SUBSET Message : ItemLocks(S) \in SUBSET Locks
    /\ LinkLocks \in SUBSET Locks
<1>1. \A S \in SUBSET Staff, mode \in Mode : PersonLocks(S, mode) \in SUBSET Locks
  BY RowTypes, LockType DEF PersonLocks
<1>2. \A S \in SUBSET Staff : RecipientLocks(S) \in SUBSET Locks
  BY <1>1 DEF RecipientLocks, Mode
<1>3. \A S \in SUBSET (Staff \X Office) : OfficeLocks(S) \in SUBSET Locks
  BY RowTypes, LockType DEF OfficeLocks, Mode
<1>4. \A S \in SUBSET Message : ItemLocks(S) \in SUBSET Locks
  BY RowTypes, LockType DEF ItemLocks, Mode
<1>5. LinkLocks \in SUBSET Locks
  BY RowTypes, LockType DEF LinkLocks, Mode
<1> QED BY <1>1, <1>2, <1>3, <1>4, <1>5

LEMMA NothingType == NoPlan \in Plan /\ NoWrite \in Writes /\ NoOp \in Op /\ Fits(NoOp)
<1>1. NoChain \in Chain
  BY DEF NoChain, Chain
<1>2. NoPlan \in Plan
  BY <1>1 DEF NoPlan, Plan
<1>3. NoMessage \in MessageRow
  BY DEF NoMessage, MessageRow, Office
<1>4. NoWrite \in Writes
  BY <1>3 DEF NoWrite, Writes
<1>5. NoOp \in Op
  BY DEF NoOp, Op, Kind, Office
<1>6. Fits(NoOp)
  BY DEF NoOp, Fits
<1> QED BY <1>2, <1>4, <1>5, <1>6

LEMMA BeginType ==
    ASSUME TInv, NEW t \in Tx, NEW o \in Op, NEW phase \in Busy, NEW locks \in SUBSET Locks,
           Begin(t, o, phase, locks), Fits(o)
    PROVE  TInv'
<1>1. TypeOK'
  BY DEF TInv, TypeOK, Begin, dbVars, Busy, Locks
<1>2. ASSUME NEW u \in Tx PROVE Fits(op[u])'
  BY DEF TInv, TypeOK, Begin, dbVars, Fits
<1> QED BY <1>1, <1>2 DEF TInv

LEMMA ThenType ==
    ASSUME TInv, NEW t \in Tx, NEW phase \in Busy, NEW locks \in SUBSET Locks, Then(t, phase, locks)
    PROVE  TInv'
<1>1. TypeOK'
  BY DEF TInv, TypeOK, Then, dbVars, Busy, Locks
<1>2. ASSUME NEW u \in Tx PROVE Fits(op[u])'
  BY DEF TInv, TypeOK, Then, dbVars, Fits
<1> QED BY <1>1, <1>2 DEF TInv

LEMMA WriteType ==
    ASSUME TInv, NEW t \in Tx, NEW w \in Writes, Write(t, w)
    PROVE  TInv'
<1>1. TypeOK'
  BY DEF TInv, TypeOK, Write, dbVars, Phase
<1>2. ASSUME NEW u \in Tx PROVE Fits(op[u])'
  BY DEF TInv, TypeOK, Write, dbVars, Fits
<1> QED BY <1>1, <1>2 DEF TInv

\* One message, written.
LEMMA OneWriteType ==
    ASSUME NEW m \in Message, NEW n \in MessageRow
    PROVE  [NoWrite EXCEPT !.msg[m] = n] \in Writes
<1>1. [NoWrite.msg EXCEPT ![m] = n] \in [Message -> MessageRow]
  BY NothingType DEF Writes
<1>2. [NoWrite EXCEPT !.msg[m] = n] = [NoWrite EXCEPT !.msg = [NoWrite.msg EXCEPT ![m] = n]]
  BY DEF NoWrite
<1> QED BY <1>1, <1>2, NothingType DEF Writes

LEMMA EndType ==
    ASSUME TInv, NEW t \in Tx, End(t)
    PROVE  /\ pc' \in [Tx -> Phase] /\ op' \in [Tx -> Op] /\ \A u \in Tx : Fits(op'[u])
           /\ want' \in [Tx -> SUBSET Locks] /\ held' \in [Tx -> SUBSET Locks]
           /\ plan' \in [Tx -> Plan] /\ write' \in [Tx -> Writes]
<1>1. \A u \in Tx : op'[u] = op[u] \/ op'[u] = NoOp
  BY DEF End, TInv, TypeOK
<1> QED BY <1>1, NothingType DEF End, TInv, TypeOK, Phase, Locks

LEMMA CommitType ==
    ASSUME TInv, NEW t \in Tx, Commit(t)
    PROVE  TInv'
<1> DEFINE w == write[t]
<1>0. w \in Writes
  BY DEF TInv, TypeOK
<1>1. removed' \subseteq Staff /\ holds' \subseteq Staff \X Office /\ linked' \in BOOLEAN
  BY <1>0 DEF Commit, TInv, TypeOK, Writes
<1>2. ASSUME NEW m \in Message PROVE Stored(w, m) \in MessageRow
  <2>1. w.msg[m] \in MessageRow /\ msg[m] \in MessageRow
    BY <1>0 DEF TInv, TypeOK, Writes
  <2> QED BY <2>1 DEF Stored, MessageRow
<1>3. msg' \in [Message -> MessageRow]
  BY <1>2 DEF Commit, TInv, TypeOK
<1>4. End(t)
  BY DEF Commit
<1> QED BY <1>1, <1>3, <1>4, EndType DEF TInv, TypeOK, Locks

LEMMA TakeLockType ==
    ASSUME TInv, NEW t \in Tx, TakeLock(t)
    PROVE  TInv'
<1>1. PICK w \in want[t] : /\ want' = [want EXCEPT ![t] = @ \ {w}]
                           /\ held' = [held EXCEPT ![t] = @ \union {w}]
                           /\ UNCHANGED <<pc, op, plan, write>> /\ UNCHANGED dbVars
  BY DEF TakeLock
<1>2. TypeOK'
  BY <1>1 DEF TInv, TypeOK, dbVars
<1> QED BY <1>1, <1>2 DEF TInv, Fits, dbVars

LEMMA SendsType ==
    ASSUME TInv, NEW t \in Tx, Sends(t)
    PROVE  TInv'
<1> USE DEF TInv
<1>0. \A k, ph : At(t, k, ph) => op[t].kind \in k /\ pc[t] = ph
  BY DEF At
<1>1. CASE BeginSend(t)
  <2>0. PICK office \in Office, form \in Form :
          \E wanted \in Wanted(office) :
             Begin(t, [NoOp EXCEPT !.kind = "send", !.office = office, !.form = form, !.to = wanted],
                   "persons", RecipientLocks(wanted))
    BY <1>1 DEF BeginSend
  <2>1. PICK wanted \in Wanted(office) :
          Begin(t, [NoOp EXCEPT !.kind = "send", !.office = office, !.form = form, !.to = wanted],
                "persons", RecipientLocks(wanted))
    BY <2>0
  <2>2. wanted \in SUBSET Staff
    BY <2>1 DEF Wanted, Holders, Active
  <2> DEFINE o == [NoOp EXCEPT !.kind = "send", !.office = office, !.form = form, !.to = wanted]
  <2>3. o \in Op /\ Fits(o)
    BY <2>2 DEF NoOp, Op, Kind, Fits
  <2> HIDE DEF o
  <2> QED BY <2>1, <2>2, <2>3, LocksTypes, BeginType DEF Busy, Phase, o
<1>2. CASE SendLocksLink(t)
  BY <1>2, LocksTypes, ThenType DEF SendLocksLink, Busy, Phase
<1>3. CASE SendReplays(t)
  BY <1>3, EndType DEF SendReplays, dbVars, TypeOK, Locks
<1>4. CASE SendWrites(t)
  <2>1. PICK m \in Message : Write(t, [NoWrite EXCEPT !.msg[m] = NewMessage(t)])
    BY <1>4 DEF SendWrites
  <2>2. NewMessage(t) \in MessageRow
    <3>1. op[t] \in Op /\ op[t].form \in Form
      BY <1>0, <1>4 DEF SendWrites, TypeOK, Fits
    <3> QED BY <3>1 DEF NewMessage, NoMessage, MessageRow, Recipients, Op
  <2> QED BY <2>1, <2>2, OneWriteType, WriteType
<1>5. CASE UnlinkGuardian(t)
  <2> DEFINE o == [NoOp EXCEPT !.kind = "unlink"]
  <2>1. o \in Op /\ Fits(o)
    BY DEF NoOp, Op, Kind, Office, Fits
  <2>2. {Lock(LinkRow, "no_key_update")} \in SUBSET Locks
    BY RowTypes, LockType DEF Mode
  <2>3. Begin(t, o, "link", {Lock(LinkRow, "no_key_update")})
    BY <1>5 DEF UnlinkGuardian
  <2> HIDE DEF o
  <2> QED BY <2>1, <2>2, <2>3, BeginType DEF Busy, Phase
<1>6. CASE UnlinkWrites(t)
  <2>1. [NoWrite EXCEPT !.unlink = TRUE] \in Writes
    BY NothingType DEF Writes
  <2> QED BY <1>6, <2>1, WriteType DEF UnlinkWrites
<1> QED BY <1>1, <1>2, <1>3, <1>4, <1>5, <1>6 DEF Sends

LEMMA AnswersType ==
    ASSUME TInv, NEW t \in Tx, Answers(t)
    PROVE  TInv'
<1> USE DEF TInv
<1>0. \A k, ph : At(t, k, ph) => op[t].kind \in k /\ pc[t] = ph
  BY DEF At
<1>1. CASE BeginAnswer(t)
  <2>0. PICK m \in Message :
          \E p \in msg[m].assignees :
             Begin(t, [NoOp EXCEPT !.kind = "answer", !.p = p, !.m = m],
                   "persons", PersonLocks(msg[m].assignees, "key_share"))
    BY <1>1 DEF BeginAnswer
  <2>1. PICK p \in msg[m].assignees :
          Begin(t, [NoOp EXCEPT !.kind = "answer", !.p = p, !.m = m],
                "persons", PersonLocks(msg[m].assignees, "key_share"))
    BY <2>0
  <2>2. msg[m].assignees \in SUBSET Staff
    BY DEF TypeOK, MessageRow
  <2> DEFINE o == [NoOp EXCEPT !.kind = "answer", !.p = p, !.m = m]
  <2>3. o \in Op /\ Fits(o)
    BY <2>1, <2>2 DEF NoOp, Op, Kind, Office, Fits
  <2>4. PersonLocks(msg[m].assignees, "key_share") \in SUBSET Locks
    BY <2>2, LocksTypes DEF Mode
  <2> HIDE DEF o
  <2> QED BY <2>1, <2>3, <2>4, BeginType DEF Busy, Phase, o
<1>2. CASE AnswerLocksItem(t)
  <2>1. {op[t].m} \in SUBSET Message
    BY <1>0, <1>2 DEF AnswerLocksItem, Fits
  <2>2. AnswerLocks(op[t].m) \in SUBSET Locks
    BY <2>1, LocksTypes DEF AnswerLocks
  <2> QED BY <1>2, <2>2, ThenType DEF AnswerLocksItem, Busy, Phase
<1>3. CASE AnswerWrites(t)
  <2> DEFINE m == op[t].m
             n == [msg[m] EXCEPT !.status = "answered", !.by = op[t].p]
  <2>1. m \in Message /\ op[t].p \in Staff
    BY <1>0, <1>3 DEF AnswerWrites, Fits
  <2>2. n \in MessageRow
    <3>1. msg[m] \in MessageRow
      BY <2>1 DEF TypeOK
    <3> HIDE DEF m
    <3> QED BY <2>1, <3>1 DEF MessageRow
  <2>3. Write(t, [NoWrite EXCEPT !.msg[m] = n])
    BY <1>3 DEF AnswerWrites
  <2> HIDE DEF n
  <2> QED BY <2>1, <2>2, <2>3, OneWriteType, WriteType
<1> QED BY <1>1, <1>2, <1>3 DEF Answers

LEMMA LossKinds ==
    ASSUME TInv, NEW t \in Tx, op[t].kind \in {"remove", "revoke", "replace", "appoint"}
    PROVE  /\ op[t] \in Op /\ op[t].p \in Staff /\ (op[t].kind = "replace" => op[t].next \in Staff)
           /\ Ends(t) \subseteq Staff \X Office /\ Starts(t) \subseteq Staff \X Office
<1>1. /\ op[t] \in Op /\ op[t].p \in Staff /\ op[t].office \in Office
      /\ (op[t].kind = "replace" => op[t].next \in Staff)
  BY DEF TInv, TypeOK, Fits, Op
<1>2. Ends(t) \subseteq Staff \X Office
  BY <1>1 DEF Ends
<1>3. Starts(t) \subseteq Staff \X Office
  BY <1>1 DEF Starts
<1> QED BY <1>1, <1>2, <1>3

LEMMA ChainType ==
    ASSUME NEW t \in Tx, NEW m \in Message
    PROVE  ChainOf(t, m) \in Chain /\ NoChain \in Chain
BY DEF ChainOf, Chain, NoChain, Holders, Active

LEMMA InPlanType ==
    ASSUME TInv, NEW t \in Tx, NEW m \in Planned(t)
    PROVE  m \in Message /\ InPlan(t, m) \in SUBSET Staff
<1>1. plan[t] \in Plan
  BY DEF TInv, TypeOK
<1>2. m \in Message
  BY <1>1 DEF Plan, Planned
<1>3. plan[t].chain[m] \in Chain
  BY <1>1, <1>2 DEF Plan
<1> QED BY <1>2, <1>3 DEF Chain, InPlan

\* What a re-route takes is a lock on a candidate's row.
LEMMA CandidateFacts ==
    ASSUME TInv, NEW t \in Tx, NEW w \in Candidates(t)
    PROVE  /\ w \in Locks /\ w[1][2] \in Staff \ removed
           /\ w = Lock(StaffRow(w[1][2]), "key_share")
           /\ \E m \in Planned(t) : w[1][2] \in InPlan(t, m)
<1>1. PICK p \in (UNION {InPlan(t, m) : m \in Planned(t)}) \ removed : w = Lock(StaffRow(p), "key_share")
  BY DEF Candidates, PersonLocks
<1>2. PICK m \in Planned(t) : p \in InPlan(t, m)
  BY <1>1
<1>3. p \in Staff
  BY <1>2, InPlanType
<1>4. w[1][2] = p
  BY <1>1 DEF Lock, StaffRow
<1>5. w \in Locks
  BY <1>1, <1>3, RowTypes, LockType DEF Mode
<1>6. p \notin removed
  BY <1>1
<1>7. w = Lock(StaffRow(w[1][2]), "key_share")
  BY <1>1, <1>4
<1>8. \E i \in Planned(t) : w[1][2] \in InPlan(t, i)
  BY <1>2, <1>4
<1> HIDE DEF Lock, StaffRow
<1> QED BY <1>3, <1>4, <1>5, <1>6, <1>7, <1>8

LEMMA TakenType ==
    ASSUME TInv, NEW t \in Tx, TakesCandidates(t)
    PROVE  TInv'
<1> DEFINE got == {w \in Candidates(t) \ Awaited(t) : Free(t, w)}
           who == {w[1][2] : w \in got}
<1>1. got \in SUBSET Locks /\ who \in SUBSET Staff
  BY CandidateFacts
<1>2. /\ pc' = [pc EXCEPT ![t] = "candidates"]
      /\ held' = [held EXCEPT ![t] = @ \union got]
      /\ want' = [want EXCEPT ![t] = {}]
      /\ plan' = [plan EXCEPT ![t].took = who]
      /\ UNCHANGED <<op, write>> /\ UNCHANGED dbVars
  BY DEF TakesCandidates, Awaited
<1> HIDE DEF got, who
<1>3. plan' \in [Tx -> Plan]
  BY <1>1, <1>2 DEF TInv, TypeOK, Plan
<1>4. held' \in [Tx -> SUBSET Locks] /\ want' \in [Tx -> SUBSET Locks] /\ pc' \in [Tx -> Phase]
  BY <1>1, <1>2 DEF TInv, TypeOK, Locks, Phase
<1> QED BY <1>2, <1>3, <1>4 DEF TInv, TypeOK, Fits, dbVars, Locks

LEMMA ReroutedType ==
    ASSUME TInv, NEW t \in Tx
    PROVE  Rerouted(t) \in [Message -> MessageRow]
<1>1. NoMessage \in MessageRow
  BY DEF NoMessage, MessageRow, Office
<1>2. ASSUME NEW m \in Decided(t)
      PROVE  [msg[m] EXCEPT !.assignees = Left(t, m) \union Added(t, m)] \in MessageRow
  <2>1. m \in Message /\ msg[m] \in MessageRow
    BY DEF TInv, TypeOK, Decided
  <2>2. Left(t, m) \in SUBSET Staff
    BY <2>1 DEF Left, MessageRow
  <2>3. plan[t].took \in SUBSET Staff
    BY DEF TInv, TypeOK, Plan
  <2>4. Added(t, m) \in SUBSET Staff
    BY <2>3 DEF Added
  <2> QED BY <2>1, <2>2, <2>4 DEF MessageRow
<1> QED BY <1>1, <1>2 DEF Rerouted

LEMMA LossesType ==
    ASSUME TInv, NEW t \in Tx, Losses(t)
    PROVE  TInv'
<1> USE DEF TInv
<1>0. \A k, ph : At(t, k, ph) => op[t].kind \in k /\ pc[t] = ph
  BY DEF At
<1>1. CASE BeginRemove(t)
  <2>1. PICK p \in Removable :
          Begin(t, [NoOp EXCEPT !.kind = "remove", !.p = p], "persons", {Lock(StaffRow(p), "update")})
    BY <1>1 DEF BeginRemove
  <2>2. p \in Staff
    BY MessagesAssumption
  <2> DEFINE o == [NoOp EXCEPT !.kind = "remove", !.p = p]
  <2>3. o \in Op /\ Fits(o)
    BY <2>2 DEF NoOp, Op, Kind, Office, Fits
  <2>4. {Lock(StaffRow(p), "update")} \in SUBSET Locks
    BY <2>2, RowTypes, LockType DEF Mode
  <2> HIDE DEF o
  <2> QED BY <2>1, <2>3, <2>4, BeginType DEF Busy, Phase, o
<1>2. CASE RemoveEndsOffices(t)
  <2>1. Ends(t) \intersect holds \in SUBSET (Staff \X Office)
    BY DEF TypeOK
  <2> QED BY <1>2, <2>1, LocksTypes, ThenType DEF RemoveEndsOffices, Busy, Phase
<1>3. CASE BeginRevoke(t)
  <2>1. PICK pair \in Revocable \intersect holds :
          Begin(t, [NoOp EXCEPT !.kind = "revoke", !.p = pair[1], !.office = pair[2]],
                "offices", OfficeLocks({pair}))
    BY <1>3 DEF BeginRevoke
  <2>2. pair \in Staff \X Office
    BY DEF TypeOK
  <2> DEFINE o == [NoOp EXCEPT !.kind = "revoke", !.p = pair[1], !.office = pair[2]]
  <2>3. o \in Op /\ Fits(o)
    BY <2>2 DEF NoOp, Op, Kind, Fits
  <2>4. OfficeLocks({pair}) \in SUBSET Locks
    BY <2>2, LocksTypes
  <2> HIDE DEF o
  <2> QED BY <2>1, <2>3, <2>4, BeginType DEF Busy, Phase, o
<1>4. CASE BeginReplace(t)
  <2>1. PICK p \in Staff, next \in Staff :
          Begin(t, [NoOp EXCEPT !.kind = "replace", !.p = p, !.next = next, !.office = "teacher"],
                "offices", OfficeLocks({<<p, "teacher">>}))
    BY <1>4 DEF BeginReplace
  <2> DEFINE o == [NoOp EXCEPT !.kind = "replace", !.p = p, !.next = next, !.office = "teacher"]
  <2>2. o \in Op /\ Fits(o)
    BY DEF NoOp, Op, Kind, Office, Fits
  <2>3. {<<p, "teacher">>} \in SUBSET (Staff \X Office)
    BY DEF Office
  <2>4. OfficeLocks({<<p, "teacher">>}) \in SUBSET Locks
    BY <2>3, LocksTypes
  <2> HIDE DEF o
  <2> QED BY <2>1, <2>2, <2>4, BeginType DEF Busy, Phase, o
<1>5. CASE ReplaceLocksNext(t)
  <2>1. {op[t].next} \in SUBSET Staff
    BY <1>0, <1>5 DEF ReplaceLocksNext, Fits
  <2>2. PersonLocks({op[t].next}, "share") \in SUBSET Locks
    BY <2>1, LocksTypes DEF Mode
  <2> QED BY <1>5, <2>2, ThenType DEF ReplaceLocksNext, Busy, Phase
<1>6. CASE PlansMessages(t)
  <2> DEFINE new == [m \in Message |-> IF m \in Rerouteable(t) THEN ChainOf(t, m) ELSE NoChain]
  <2>1. new \in [Message -> Chain]
    BY ChainType
  <2>2. Rerouteable(t) \in SUBSET Message
    BY DEF Rerouteable, Routes
  <2>3. /\ plan' = [plan EXCEPT ![t].msgs = Rerouteable(t), ![t].chain = new]
        /\ pc' = [pc EXCEPT ![t] = "plan"]
        /\ UNCHANGED <<op, want, held, write>> /\ UNCHANGED dbVars
    BY <1>6 DEF PlansMessages
  <2> HIDE DEF new
  <2>4. plan' \in [Tx -> Plan] /\ pc' \in [Tx -> Phase]
    BY <2>1, <2>2, <2>3 DEF TypeOK, Plan, Phase
  <2> QED BY <2>3, <2>4 DEF TypeOK, Fits, dbVars
<1>7. CASE TakesCandidates(t)
  BY <1>7, TakenType
<1>8. CASE LocksItems(t)
  <2>1. Planned(t) \in SUBSET Message /\ Routes(op[t].p) \in SUBSET Message
    BY InPlanType DEF Routes
  <2> QED BY <1>8, <2>1, LocksTypes, ThenType DEF LocksItems, Busy, Phase
<1>9. CASE LossWrites(t)
  <2> DEFINE w == [NoWrite EXCEPT
                      !.gone = IF op[t].kind = "remove" THEN {op[t].p} ELSE {},
                      !.ends = Ends(t), !.starts = Starts(t), !.msg = Rerouted(t)]
  <2>1. /\ op[t].p \in Staff /\ Ends(t) \subseteq Staff \X Office /\ Starts(t) \subseteq Staff \X Office
    BY <1>0, <1>9, LossKinds DEF LossWrites
  <2>2. w \in Writes
    BY <2>1, NothingType, ReroutedType DEF Writes
  <2>3. Write(t, w)
    BY <1>9 DEF LossWrites
  <2> HIDE DEF w
  <2> QED BY <2>2, <2>3, WriteType
<1> QED BY <1>1, <1>2, <1>3, <1>4, <1>5, <1>6, <1>7, <1>8, <1>9 DEF Losses

LEMMA AppointsType ==
    ASSUME TInv, NEW t \in Tx, Appoints(t)
    PROVE  TInv'
<1> USE DEF TInv
<1>1. CASE BeginAppoint(t)
  <2>1. PICK pair \in Appointable \ holds :
          Begin(t, [NoOp EXCEPT !.kind = "appoint", !.p = pair[1], !.office = pair[2]], "persons",
                PersonLocks({pair[1]}, IF pair[2] = "teacher" THEN "share" ELSE "no_key_update"))
    BY <1>1 DEF BeginAppoint
  <2>2. pair \in Staff \X Office
    BY MessagesAssumption
  <2> DEFINE o == [NoOp EXCEPT !.kind = "appoint", !.p = pair[1], !.office = pair[2]]
             mode == IF pair[2] = "teacher" THEN "share" ELSE "no_key_update"
  <2>3. o \in Op /\ Fits(o)
    BY <2>2 DEF NoOp, Op, Kind, Fits
  <2>4. PersonLocks({pair[1]}, mode) \in SUBSET Locks
    <3>1. mode \in Mode /\ {pair[1]} \in SUBSET Staff
      BY <2>2 DEF Mode
    <3> HIDE DEF mode
    <3> QED BY <3>1, LocksTypes
  <2>5. Begin(t, o, "persons", PersonLocks({pair[1]}, mode))
    BY <2>1
  <2> HIDE DEF o, mode
  <2> QED BY <2>3, <2>4, <2>5, BeginType DEF Busy, Phase
<1>2. CASE AppointWrites(t)
  <2>1. op[t].kind = "appoint"
    BY <1>2 DEF AppointWrites, At
  <2>2. Starts(t) \subseteq Staff \X Office
    BY <2>1, LossKinds
  <2>3. [NoWrite EXCEPT !.starts = Starts(t)] \in Writes
    BY <2>2, NothingType DEF Writes
  <2> QED BY <1>2, <2>3, WriteType DEF AppointWrites
<1> QED BY <1>1, <1>2 DEF Appoints

LEMMA AgesType ==
    ASSUME TInv, NEW m \in Message, Ages(m)
    PROVE  TInv'
<1>1. msg[m] \in MessageRow
  BY DEF TInv, TypeOK
<1>2. [msg[m] EXCEPT !.age = "recent"] \in MessageRow /\ [msg[m] EXCEPT !.age = "old"] \in MessageRow
  BY <1>1 DEF MessageRow
<1>3. \A i \in Message : msg'[i] \in {msg[i], [msg[i] EXCEPT !.age = "recent"], [msg[i] EXCEPT !.age = "old"]}
  BY DEF Ages, TInv, TypeOK
<1>4. msg' \in [Message -> MessageRow]
  <2>1. ASSUME NEW i \in Message PROVE msg'[i] \in MessageRow
    <3>1. msg[i] \in MessageRow
      BY DEF TInv, TypeOK
    <3>2. [msg[i] EXCEPT !.age = "recent"] \in MessageRow /\ [msg[i] EXCEPT !.age = "old"] \in MessageRow
      BY <3>1 DEF MessageRow
    <3> QED BY <1>3, <3>1, <3>2
  <2> QED BY <2>1 DEF Ages, TInv, TypeOK
<1> QED BY <1>4 DEF Ages, TInv, TypeOK, Fits

LEMMA InitType == Init => TInv
<1> SUFFICES ASSUME Init PROVE TInv
  OBVIOUS
<1>1. NoMessage \in MessageRow
  BY DEF NoMessage, MessageRow, Office
<1>2. TypeOK
  BY <1>1, NothingType, MessagesAssumption DEF Init, TypeOK, Phase
<1> QED BY <1>2, NothingType DEF Init, TInv

LEMMA TypeStep == TInv /\ [Next]_vars => TInv'
<1> SUFFICES ASSUME TInv, [Next]_vars PROVE TInv'
  OBVIOUS
<1>1. CASE UNCHANGED vars
  BY <1>1 DEF vars, TInv, TypeOK, Fits
<1>2. ASSUME NEW t \in Tx, Abort(t) PROVE TInv'
  BY <1>2, EndType DEF Abort, dbVars, TInv, TypeOK, Locks
<1>3. CASE Next
  BY <1>2, <1>3, SendsType, AnswersType, LossesType, AppointsType, TakeLockType, CommitType, AgesType
     DEF Next
<1> QED BY <1>1, <1>3

\* Every variable has its shape, for any colleagues, messages and connections.
THEOREM TypeCorrect == Spec => []TypeOK
<1>1. TInv => TypeOK
  BY DEF TInv
<1> QED BY <1>1, InitType, TypeStep, PTL DEF Spec

-----------------------------------------------------------------------------
(* Locks.                                                                  *)

LEMMA LocksGrow ==
    ASSUME TInv, LocksExclude, NEW t \in Tx, NEW L \in SUBSET Locks,
           \A w \in L : Free(t, w),
           held' = [held EXCEPT ![t] = @ \union L]
    PROVE  LocksExclude'
<1> USE DEF TInv
<1>1. ASSUME NEW u \in Tx, NEW v \in Tx, u # v, NEW x \in held'[u]
      PROVE  ~Collides(held'[v], x)
  <2>1. CASE u = t /\ x \in L
    <3>1. held'[v] = held[v]
      BY <1>1, <2>1 DEF TypeOK
    <3> QED BY <1>1, <2>1, <3>1 DEF Free
  <2>2. CASE x \in held[u] /\ v # t
    <3>1. held'[v] = held[v]
      BY <2>2 DEF TypeOK
    <3> QED BY <1>1, <2>2, <3>1 DEF LocksExclude
  <2>3. CASE x \in held[u] /\ v = t
    <3>1. ~Collides(held[t], x)
      BY <1>1, <2>3 DEF LocksExclude
    <3>2. ASSUME NEW w \in L PROVE ~Collides({w}, x)
      <4>1. ~Collides(held[u], w)
        BY <1>1, <2>3 DEF Free
      <4>2. x \in Row \X Mode /\ w \in Row \X Mode
        BY <2>3 DEF TypeOK, Locks
      <4> QED BY <2>3, <4>1, <4>2 DEF Collides, ConflictsWith, Mode
    <3>3. held'[v] = held[t] \union L
      BY <2>3 DEF TypeOK
    <3> QED BY <3>1, <3>2, <3>3 DEF Collides
  <2>4. x \in held[u] \/ (u = t /\ x \in L)
    BY <1>1 DEF TypeOK
  <2> QED BY <2>1, <2>2, <2>3, <2>4
<1> QED BY <1>1 DEF LocksExclude

LEMMA LocksExcludeStep == TInv /\ LocksExclude /\ [Next]_vars => LocksExclude'
<1> SUFFICES ASSUME TInv, LocksExclude, [Next]_vars PROVE LocksExclude'
  OBVIOUS
<1> USE DEF TInv
<1>1. ASSUME NEW t \in Tx, TakeLock(t) PROVE LocksExclude'
  <2>1. PICK w \in want[t] : Free(t, w) /\ held' = [held EXCEPT ![t] = @ \union {w}]
    BY <1>1 DEF TakeLock
  <2>2. {w} \in SUBSET Locks
    BY DEF TypeOK, Locks
  <2> QED BY <2>1, <2>2, LocksGrow
<1>2. ASSUME NEW t \in Tx, TakesCandidates(t) PROVE LocksExclude'
  <2> DEFINE got == {w \in Candidates(t) \ Awaited(t) : Free(t, w)}
  <2>1. got \in SUBSET Locks /\ held' = [held EXCEPT ![t] = @ \union got]
    BY <1>2, CandidateFacts DEF TakesCandidates
  <2> QED BY <2>1, LocksGrow
<1>3. ASSUME NEW t \in Tx, End(t) PROVE LocksExclude'
  BY <1>3 DEF End, LocksExclude, TypeOK, Collides
<1>4. CASE UNCHANGED held
  BY <1>4 DEF LocksExclude
<1>5. ASSUME NEW t \in Tx, Sends(t) PROVE LocksExclude'
  BY <1>3, <1>4, <1>5 DEF Sends, BeginSend, SendLocksLink, SendReplays, SendWrites, UnlinkGuardian,
       UnlinkWrites, Begin, Then, Write
<1>6. ASSUME NEW t \in Tx, Answers(t) \/ Appoints(t) PROVE UNCHANGED held
  BY <1>6 DEF Answers, BeginAnswer, AnswerLocksItem, AnswerWrites, Appoints, BeginAppoint,
       AppointWrites, Begin, Then, Write
<1>7. ASSUME NEW t \in Tx, Losses(t) PROVE LocksExclude'
  BY <1>2, <1>4, <1>7 DEF Losses, BeginRemove, RemoveEndsOffices, BeginRevoke, BeginReplace,
       ReplaceLocksNext, PlansMessages, LocksItems, LossWrites, Begin, Then, Write
<1>8. ASSUME NEW m \in Message, Ages(m) PROVE UNCHANGED held
  BY <1>8 DEF Ages
<1>9. CASE UNCHANGED vars
  BY <1>4, <1>9 DEF vars
<1> QED BY <1>1, <1>3, <1>4, <1>5, <1>6, <1>7, <1>8, <1>9 DEF Next, Commit, Abort

\* Two transactions never hold conflicting locks of one row.
LEMMA HeldAlone ==
    ASSUME LocksExclude, NEW t \in Tx, NEW u \in Tx, t # u, NEW row
    PROVE  /\ Lock(row, "no_key_update") \in held[t] => Lock(row, "no_key_update") \notin held[u]
           /\ Lock(row, "update") \in held[t] => Lock(row, "key_share") \notin held[u]
<1>1. ASSUME Lock(row, "no_key_update") \in held[t], Lock(row, "no_key_update") \in held[u] PROVE FALSE
  <2>1. ~Collides(held[u], Lock(row, "no_key_update"))
    BY <1>1 DEF LocksExclude
  <2> QED BY <1>1, <2>1 DEF Collides, Lock, ConflictsWith, Mode
<1>2. ASSUME Lock(row, "update") \in held[t], Lock(row, "key_share") \in held[u] PROVE FALSE
  <2>1. ~Collides(held[u], Lock(row, "update"))
    BY <1>2 DEF LocksExclude
  <2> QED BY <1>2, <2>1 DEF Collides, Lock, ConflictsWith, Mode
<1> QED BY <1>1, <1>2

-----------------------------------------------------------------------------
(* A step of one transaction that commits nothing leaves what the others   *)
(* know.                                                                   *)

LocalStep(t) ==
    /\ UNCHANGED dbVars
    /\ \A u \in Tx \ {t} :
          /\ pc'[u] = pc[u] /\ op'[u] = op[u] /\ want'[u] = want[u] /\ held'[u] = held[u]
          /\ plan'[u] = plan[u] /\ write'[u] = write[u]

LEMMA ActsLocally ==
    ASSUME TInv, NEW t \in Tx,
           Sends(t) \/ Answers(t) \/ Losses(t) \/ Appoints(t) \/ TakeLock(t) \/ Abort(t)
    PROVE  LocalStep(t)
<1> USE DEF TInv
<1>1. ASSUME UNCHANGED dbVars, End(t) PROVE LocalStep(t)
  BY <1>1 DEF End, LocalStep, TypeOK
<1>2. CASE Sends(t)
  BY <1>1, <1>2 DEF Sends, BeginSend, SendLocksLink, SendReplays, SendWrites, UnlinkGuardian,
       UnlinkWrites, Begin, Then, Write, LocalStep, TypeOK
<1>3. CASE Answers(t) \/ Appoints(t)
  BY <1>3 DEF Answers, BeginAnswer, AnswerLocksItem, AnswerWrites, Appoints, BeginAppoint,
       AppointWrites, Begin, Then, Write, LocalStep, TypeOK
<1>4. CASE Losses(t)
  BY <1>4 DEF Losses, BeginRemove, RemoveEndsOffices, BeginRevoke, BeginReplace, ReplaceLocksNext,
       PlansMessages, TakesCandidates, LocksItems, LossWrites, Begin, Then, Write, LocalStep, TypeOK
<1>5. CASE TakeLock(t)
  BY <1>5 DEF TakeLock, LocalStep, TypeOK
<1>6. CASE Abort(t)
  BY <1>1, <1>6 DEF Abort
<1> QED BY <1>2, <1>3, <1>4, <1>5, <1>6

LEMMA OthersKnow ==
    ASSUME NEW t \in Tx, LocalStep(t), NEW u \in Tx \ {t}, Knows(u)
    PROVE  Knows(u)'
<1>1. /\ UNCHANGED <<removed, holds, linked, msg>>
      /\ pc'[u] = pc[u] /\ op'[u] = op[u] /\ want'[u] = want[u] /\ held'[u] = held[u]
      /\ plan'[u] = plan[u] /\ write'[u] = write[u]
  BY DEF LocalStep, dbVars
<1>2. /\ UsedForms' = UsedForms /\ Recent' = Recent /\ Active' = Active
      /\ \A p : Routes(p)' = Routes(p)
      /\ \A m : Open(m)' = Open(m)
  BY <1>1 DEF UsedForms, Recent, Active, Routes, Open, Sent
<1>3. /\ Asked(u)' = Asked(u) /\ Written(u)' = Written(u) /\ Planned(u)' = Planned(u)
      /\ \A m : InPlan(u, m)' = InPlan(u, m)
  BY <1>1 DEF Asked, Written, Planned, InPlan
<1>4. Sender(u)'
  BY <1>1, <1>2, <1>3 DEF Knows, Sender
<1>5. Answerer(u)'
  BY <1>1, <1>2, <1>3 DEF Knows, Answerer
<1>6. Remover(u)'
  BY <1>1, <1>2, <1>3 DEF Knows, Remover
<1>7. Taker(u)'
  BY <1>1, <1>2, <1>3 DEF Knows, Taker
<1>8. Writer(u)'
  <2>1. ASSUME NEW m
        PROVE  /\ NewOne(u, m) => NewOne(u, m)'
               /\ OldOne(u, m) => OldOne(u, m)'
               /\ HandedOn(u, m) => HandedOn(u, m)'
    <3>1. NewOne(u, m) => NewOne(u, m)'
      BY <1>1 DEF NewOne
    <3>2. OldOne(u, m) => OldOne(u, m)'
      BY <1>1, <1>2 DEF OldOne
    <3>3. HandedOn(u, m) => HandedOn(u, m)'
      BY <1>1, <1>3 DEF HandedOn
    <3> QED BY <3>1, <3>2, <3>3
  <2>2. Writer(u)
    BY DEF Knows
  <2> QED BY <1>1, <1>2, <1>3, <2>1, <2>2 DEF Writer
<1> QED BY <1>1, <1>4, <1>5, <1>6, <1>7, <1>8 DEF Knows

-----------------------------------------------------------------------------
(* What a transaction knows after a step of its own.                       *)

LEMMA EndKnows ==
    ASSUME TInv, NEW t \in Tx, End(t)
    PROVE  Knows(t)'
<1>1. pc'[t] \in {"idle", "ended"} /\ op'[t] = NoOp
  BY DEF End, TInv, TypeOK
<1>2. op'[t].kind = "none"
  BY <1>1 DEF NoOp
<1> QED BY <1>1, <1>2 DEF Knows, Sender, Answerer, Remover, Taker, Writer

LEMMA StandsStill ==
    ASSUME NEW t \in Tx, UNCHANGED vars, Knows(t)
    PROVE  Knows(t)'
BY DEF vars, Knows, Sender, Answerer, Remover, Taker, Writer, Asked, Written, Planned, InPlan,
       UsedForms, Recent, Sent, Active, Routes, Open, NewOne, OldOne, HandedOn, RecipientLocks,
       PersonLocks, ItemLocks, AnswerLocks, LinkLocks

LEMMA BeginKnows ==
    ASSUME TInv, NEW t \in Tx, NEW o \in Op, NEW phase \in {"persons", "offices", "link"}, NEW locks,
           Begin(t, o, phase, locks),
           o.kind = "send" => phase = "persons" /\ RecipientLocks(o.to) \subseteq locks,
           o.kind = "remove" => phase = "persons" /\ Lock(StaffRow(o.p), "update") \in locks
    PROVE  Knows(t)'
<1>1. pc'[t] = phase /\ op'[t] = o /\ want'[t] = locks
  BY DEF Begin, TInv, TypeOK
<1>2. Sender(t)'
  BY <1>1 DEF Sender, Asked
<1>3. Remover(t)'
  BY <1>1 DEF Remover, Asked
<1> QED BY <1>1, <1>2, <1>3 DEF Knows, Answerer, Taker, Writer

\* The next phase: what was asked for is held.
LEMMA ThenFacts ==
    ASSUME TInv, NEW t \in Tx, NEW phase, NEW locks, Then(t, phase, locks), want[t] = {}
    PROVE  /\ pc'[t] = phase /\ want'[t] = locks /\ held'[t] = held[t] /\ op'[t] = op[t]
           /\ plan'[t] = plan[t] /\ write'[t] = write[t]
           /\ Asked(t) = held[t] /\ Asked(t)' = held[t] \union locks
           /\ \A p : Routes(p)' = Routes(p)
           /\ Active' = Active /\ Planned(t)' = Planned(t)
BY DEF Then, TInv, TypeOK, Asked, dbVars, Routes, Open, Active, Planned

\* A write that begins: it holds everything it asked for.
LEMMA WriteFacts ==
    ASSUME TInv, NEW t \in Tx, NEW w \in Writes, Write(t, w), want[t] = {}
    PROVE  /\ pc'[t] = "write" /\ want'[t] = {} /\ held'[t] = held[t] /\ op'[t] = op[t]
           /\ plan'[t] = plan[t] /\ write'[t] = w
           /\ Asked(t) = held[t]
           /\ UNCHANGED <<removed, msg>>
BY DEF Write, TInv, TypeOK, Asked, dbVars

LEMMA TakeLockKnows ==
    ASSUME TInv, NEW t \in Tx, TakeLock(t), Knows(t)
    PROVE  Knows(t)'
<1>1. PICK w \in want[t] : /\ want' = [want EXCEPT ![t] = @ \ {w}]
                           /\ held' = [held EXCEPT ![t] = @ \union {w}]
                           /\ UNCHANGED <<pc, op, plan, write>> /\ UNCHANGED dbVars
  BY DEF TakeLock
<1>2. held'[t] = held[t] \union {w} /\ want'[t] = want[t] \ {w}
  BY <1>1 DEF TInv, TypeOK
<1>3. Asked(t)' = Asked(t) /\ pc'[t] = pc[t] /\ op'[t] = op[t] /\ plan'[t] = plan[t]
  BY <1>1, <1>2 DEF Asked
<1>4. pc[t] \notin {"plan", "candidates", "write"}
  BY <1>1 DEF Knows
<1>5. /\ \A p : Routes(p)' = Routes(p)
      /\ Active' = Active /\ Planned(t)' = Planned(t)
  BY <1>1 DEF dbVars, Routes, Open, Active, Planned
<1>6. Sender(t)'
  BY <1>3, <1>4 DEF Knows, Sender
<1>7. Answerer(t)'
  BY <1>3 DEF Knows, Answerer
<1>8. Remover(t)'
  BY <1>2, <1>3, <1>4, <1>5 DEF Knows, Remover
<1>9. Taker(t)'
  BY <1>2, <1>3, <1>4, <1>5 DEF Knows, Taker
<1> QED BY <1>3, <1>4, <1>6, <1>7, <1>8, <1>9 DEF Knows, Writer

\* A write that leaves the messages alone, and nobody out.
LEMMA BlankWriteKnows ==
    ASSUME TInv, NEW t \in Tx, NEW w \in Writes, Write(t, w), want[t] = {},
           op[t].kind \in {"unlink", "appoint"},
           w.gone = {}, \A m \in Message : w.msg[m].status = "none"
    PROVE  Knows(t)'
<1>1. pc'[t] = "write" /\ want'[t] = {} /\ op'[t] = op[t] /\ write'[t] = w
  BY WriteFacts
<1>2. Written(t)' = {}
  BY <1>1 DEF Written
<1> QED BY <1>1, <1>2 DEF Knows, Sender, Answerer, Remover, Taker, Writer

LEMMA SendWritesKnows ==
    ASSUME TInv, NEW t \in Tx, Knows(t), SendWrites(t)
    PROVE  Knows(t)'
<1>1. /\ op[t].kind = "send" /\ pc[t] = "link" /\ want[t] = {}
      /\ Cardinality(Recent) < RateLimit /\ op[t].form \notin UsedForms
  BY DEF SendWrites, At
<1>2. PICK m \in Message \ Sent : Write(t, [NoWrite EXCEPT !.msg[m] = NewMessage(t)])
  BY DEF SendWrites, Inserted
<1> DEFINE w == [NoWrite EXCEPT !.msg[m] = NewMessage(t)]
<1>3. NewMessage(t) \in MessageRow
  BY <1>1 DEF NewMessage, NoMessage, MessageRow, Recipients, Op, TInv, TypeOK, Fits
<1>4. w \in Writes
  BY <1>3, OneWriteType
<1>5. /\ w.gone = {} /\ w.msg[m] = NewMessage(t)
      /\ \A i \in Message \ {m} : w.msg[i].status = "none"
  BY DEF NoWrite, NoMessage
<1>6. Write(t, w)
  BY <1>2
<1> HIDE DEF w
<1>7. /\ pc'[t] = "write" /\ want'[t] = {} /\ held'[t] = held[t] /\ op'[t] = op[t] /\ write'[t] = w
      /\ Asked(t) = held[t] /\ UNCHANGED <<removed, msg>>
  BY <1>1, <1>4, <1>6, WriteFacts
<1>8. /\ RecipientLocks(op[t].to) \subseteq held[t] /\ LinkLocks \subseteq held[t]
  BY <1>1, <1>7 DEF Knows, Sender
<1>9. \A i \in Written(t)' : i = m
  BY <1>5, <1>7 DEF Written
<1>10. Sender(t)'
  <2>1. UsedForms' = UsedForms /\ Recent' = Recent
    BY <1>7 DEF UsedForms, Recent, Sent
  <2> QED BY <1>1, <1>7, <1>8, <1>9, <2>1 DEF Sender
<1>11. NewMessage(t).assignees = op[t].to \ removed /\ NewMessage(t).status = "open"
       /\ NewMessage(t).form = op[t].form
  BY DEF NewMessage, NoMessage, Recipients
<1>12. msg[m].status = "none"
  BY DEF Sent
<1>13. NewOne(t, m)'
  BY <1>1, <1>5, <1>7, <1>8, <1>11, <1>12 DEF NewOne
<1>14. NewMessage(t).assignees \subseteq Active
  BY <1>11 DEF Active, TInv, TypeOK, Op
<1>15. PersonLocks(NewMessage(t).assignees \ msg[m].assignees, "key_share") \subseteq held[t]
  BY <1>8, <1>11 DEF PersonLocks, RecipientLocks
<1>16. Writer(t)'
  BY <1>1, <1>5, <1>7, <1>9, <1>12, <1>13, <1>14, <1>15 DEF Writer, Active, Open
<1>17. Answerer(t)' /\ Remover(t)' /\ Taker(t)'
  BY <1>1, <1>7 DEF Answerer, Remover, Taker
<1> QED BY <1>7, <1>10, <1>16, <1>17 DEF Knows

LEMMA AnswerWritesKnows ==
    ASSUME TInv, NEW t \in Tx, Knows(t), AnswerWrites(t)
    PROVE  Knows(t)'
<1> DEFINE m == op[t].m
           n == [msg[m] EXCEPT !.status = "answered", !.by = op[t].p]
           w == [NoWrite EXCEPT !.msg[m] = n]
<1>1. /\ op[t].kind = "answer" /\ pc[t] = "items" /\ want[t] = {} /\ Open(m)
  BY DEF AnswerWrites, At, MayAnswer
<1>2. m \in Message /\ op[t].p \in Staff /\ msg[m] \in MessageRow
  BY <1>1 DEF TInv, TypeOK, Fits
<1>3. n \in MessageRow /\ n.status = "answered" /\ n.form = msg[m].form
  <2> HIDE DEF m
  <2> QED BY <1>2 DEF MessageRow
<1>4. Write(t, w)
  BY DEF AnswerWrites
<1> HIDE DEF n
<1>5. w \in Writes
  BY <1>2, <1>3, OneWriteType
<1>6. w.gone = {} /\ w.msg[m] = n /\ \A i \in Message \ {m} : w.msg[i].status = "none"
  BY <1>2 DEF NoWrite, NoMessage
<1> HIDE DEF w
<1>7. /\ pc'[t] = "write" /\ want'[t] = {} /\ held'[t] = held[t] /\ op'[t] = op[t] /\ write'[t] = w
      /\ Asked(t) = held[t] /\ UNCHANGED <<removed, msg>>
  BY <1>1, <1>4, <1>5, WriteFacts
<1>8. ItemLocks({m}) \subseteq held[t]
  BY <1>1, <1>7 DEF Knows, Answerer, AnswerLocks
<1>9. \A i \in Written(t)' : i = m
  BY <1>6, <1>7 DEF Written
<1>10. OldOne(t, m)'
  BY <1>1, <1>3, <1>6, <1>7, <1>8 DEF OldOne, Open
<1>11. Writer(t)'
  BY <1>1, <1>3, <1>6, <1>7, <1>9, <1>10 DEF Writer
<1>12. Sender(t)' /\ Answerer(t)' /\ Remover(t)' /\ Taker(t)'
  BY <1>1, <1>7 DEF Sender, Answerer, Remover, Taker
<1> QED BY <1>7, <1>11, <1>12 DEF Knows

\* Whom a re-route adds is one of its candidates; it adds nobody to a message
\* it has planned and that has nobody left only when it has no candidate of it.
LEMMA AddedFacts ==
    ASSUME TInv, NEW t \in Tx, NEW m \in Message
    PROVE  /\ Added(t, m) \subseteq plan[t].took
           /\ (m \in Planned(t) /\ Left(t, m) = {} /\ Added(t, m) = {}) => HandedOn(t, m)
<1> DEFINE new(s) == (plan[t].chain[m][s] \intersect plan[t].took) \ Left(t, m)
           steps == {s \in Step : m \in Planned(t) /\ new(s) # {}}
           first == CHOOSE s \in steps : \A r \in steps : s <= r
<1>1. Added(t, m) = IF Live(t, m, Left(t, m)) # {} \/ steps = {} THEN {} ELSE new(first)
  BY DEF Added
<1>2. Added(t, m) \subseteq plan[t].took
  BY <1>1
<1>3. ASSUME steps # {} PROVE first \in steps
  <2>1. steps \subseteq 1 .. 3
    BY DEF Step
  <2> HIDE DEF steps
  <2>2. \E s \in steps : \A r \in steps : s <= r
    <3>1. CASE 1 \in steps
      BY <2>1, <3>1
    <3>2. CASE 1 \notin steps /\ 2 \in steps
      BY <2>1, <3>2
    <3>3. CASE 1 \notin steps /\ 2 \notin steps
      <4>1. \A s \in steps : s = 3
        BY <2>1, <3>3
      <4> QED BY <1>3, <4>1
    <3> QED BY <3>1, <3>2, <3>3
  <2> QED BY <2>2
<1>4. ASSUME m \in Planned(t), Left(t, m) = {}, Added(t, m) = {} PROVE HandedOn(t, m)
  <2>1. Live(t, m, Left(t, m)) = {}
    BY <1>4 DEF Live
  <2>2. steps = {}
    <3>1. CASE steps # {}
      <4>1. new(first) # {}
        BY <1>3, <3>1
      <4> QED BY <1>1, <1>4, <2>1, <3>1, <4>1
    <3> QED BY <3>1
  <2>3. \A s \in Step : plan[t].chain[m][s] \intersect plan[t].took = {}
    BY <1>4, <2>2
  <2> QED BY <1>4, <2>3 DEF HandedOn, InPlan
<1> QED BY <1>2, <1>4

LEMMA LossWritesKnows ==
    ASSUME TInv, AddresseesThere, NEW t \in Tx, Knows(t), LossWrites(t)
    PROVE  Knows(t)'
<1> DEFINE p == op[t].p
           w == [NoWrite EXCEPT
                    !.gone = IF op[t].kind = "remove" THEN {op[t].p} ELSE {},
                    !.ends = Ends(t), !.starts = Starts(t), !.msg = Rerouted(t)]
<1>1. op[t].kind \in {"remove", "revoke", "replace"} /\ pc[t] = "items" /\ want[t] = {}
  BY DEF LossWrites, At
<1>2. /\ p \in Staff /\ Ends(t) \subseteq Staff \X Office /\ Starts(t) \subseteq Staff \X Office
  BY <1>1, LossKinds
<1>3. w \in Writes
  BY <1>2, NothingType, ReroutedType DEF Writes
<1>4. Write(t, w)
  BY DEF LossWrites
<1>5. w.gone = (IF op[t].kind = "remove" THEN {p} ELSE {}) /\ w.msg = Rerouted(t)
  BY DEF NoWrite
<1> HIDE DEF w
<1>6. /\ pc'[t] = "write" /\ want'[t] = {} /\ held'[t] = held[t] /\ op'[t] = op[t]
      /\ plan'[t] = plan[t] /\ write'[t] = w
      /\ Asked(t) = held[t] /\ UNCHANGED <<removed, msg>>
  BY <1>1, <1>3, <1>4, WriteFacts
<1>7. \A m \in Message : m \in Decided(t) <=> (Open(m) /\ ItemLocks({m}) \subseteq held[t])
  BY DEF Decided, ItemLocks
<1>8. ASSUME NEW m \in Decided(t)
      PROVE  /\ w.msg[m].status = "open" /\ w.msg[m].form = msg[m].form
             /\ w.msg[m].assignees = Left(t, m) \union Added(t, m)
  <2>1. m \in Message /\ msg[m] \in MessageRow /\ msg[m].status = "open"
    BY DEF Decided, Open, TInv, TypeOK
  <2>2. w.msg[m] = [msg[m] EXCEPT !.assignees = Left(t, m) \union Added(t, m)]
    BY <1>5, <2>1 DEF Rerouted
  <2> QED BY <2>1, <2>2 DEF MessageRow
<1>9. Written(t)' = Decided(t)
  <2>1. \A m \in Message \ Decided(t) : w.msg[m].status = "none"
    BY <1>5 DEF Rerouted, NoMessage
  <2> QED BY <1>6, <1>8, <2>1 DEF Written, Decided
<1>10. /\ plan[t].took \subseteq Active \ {p} /\ PersonLocks(plan[t].took, "key_share") \subseteq held[t]
  BY <1>1 DEF Knows, Taker
<1>11. ASSUME NEW m \in Decided(t)
       PROVE  /\ Left(t, m) \subseteq msg[m].assignees
              /\ (op[t].kind = "remove" => p \notin Left(t, m))
              /\ (op[t].kind # "remove" => Left(t, m) = msg[m].assignees)
              /\ msg[m].assignees \subseteq Active
              /\ Added(t, m) \subseteq plan[t].took
  <2>1. m \in Message /\ Open(m)
    BY DEF Decided
  <2> QED BY <2>1, AddedFacts DEF Left, AddresseesThere
<1>12. ASSUME NEW m \in Decided(t), w.msg[m].assignees = {}, msg[m].assignees # {}
       PROVE  HandedOn(t, m)
  <2>1. Left(t, m) = {} /\ Added(t, m) = {}
    BY <1>8, <1>12
  <2>2. op[t].kind = "remove" /\ p \in msg[m].assignees
    BY <1>11, <1>12, <2>1 DEF Left
  <2>3. m \in Message /\ Open(m)
    BY DEF Decided
  <2>4. m \in Planned(t)
    BY <1>1, <2>2, <2>3 DEF Knows, Remover, Routes
  <2> QED BY <2>1, <2>3, <2>4, AddedFacts
<1>13. ASSUME NEW m \in Written(t)'
       PROVE  /\ OldOne(t, m)'
              /\ w.msg[m].assignees \subseteq Active
              /\ PersonLocks(w.msg[m].assignees \ msg[m].assignees, "key_share") \subseteq held[t]
              /\ w.msg[m].assignees = {} => msg[m].assignees = {} \/ HandedOn(t, m)
  <2>1. m \in Decided(t) /\ m \in Message
    BY <1>9 DEF Decided
  <2>2. OldOne(t, m)'
    BY <1>1, <1>6, <1>7, <1>8, <2>1 DEF OldOne, Open
  <2>3. w.msg[m].assignees \subseteq Active
    BY <1>8, <1>10, <1>11, <2>1
  <2>4. w.msg[m].assignees \ msg[m].assignees \subseteq plan[t].took
    BY <1>8, <1>11, <2>1
  <2>5. PersonLocks(w.msg[m].assignees \ msg[m].assignees, "key_share") \subseteq held[t]
    BY <1>10, <2>4 DEF PersonLocks
  <2> QED BY <1>12, <2>1, <2>2, <2>3, <2>5
<1>14. \A m : HandedOn(t, m) => HandedOn(t, m)'
  BY <1>6 DEF HandedOn, Planned, InPlan
<1>15. Writer(t)'
  <2>1. w.gone \subseteq {p} /\ (op[t].kind # "remove" => w.gone = {})
    BY <1>5
  <2>2. Active' = Active /\ \A m : Open(m)' = Open(m)
    BY <1>6 DEF Active, Open
  <2> QED BY <1>6, <1>13, <1>14, <2>1, <2>2 DEF Writer
<1>16. Remover(t)'
  <2>1. ASSUME op[t].kind = "remove"
        PROVE  /\ Lock(StaffRow(p), "update") \in held[t]
               /\ Routes(p) \subseteq Decided(t)
               /\ \A m \in Decided(t) : p \notin w.msg[m].assignees
    <3>1. Lock(StaffRow(p), "update") \in held[t] /\ ItemLocks(Routes(p)) \subseteq held[t]
      BY <1>1, <1>6, <2>1 DEF Knows, Remover
    <3>2. ASSUME NEW m \in Routes(p) PROVE m \in Decided(t)
      <4>1. m \in Message /\ Open(m)
        BY DEF Routes
      <4>2. ItemLocks({m}) \subseteq held[t]
        BY <3>1 DEF ItemLocks
      <4> QED BY <1>7, <4>1, <4>2
    <3>3. ASSUME NEW m \in Decided(t) PROVE p \notin w.msg[m].assignees
      BY <1>8, <1>10, <1>11, <2>1
    <3> QED BY <3>1, <3>2, <3>3
  <2>2. Routes(p)' = Routes(p)
    BY <1>6 DEF Routes, Open
  <2> QED BY <1>6, <1>9, <2>1, <2>2 DEF Remover
<1>17. Sender(t)' /\ Answerer(t)' /\ Taker(t)'
  BY <1>1, <1>6 DEF Sender, Answerer, Taker
<1> QED BY <1>6, <1>15, <1>16, <1>17 DEF Knows

LEMMA SendsKnow ==
    ASSUME TInv, NEW t \in Tx, Knows(t), Sends(t)
    PROVE  Knows(t)'
<1>1. CASE BeginSend(t)
  <2>0. PICK office \in Office, form \in Form :
          \E wanted \in Wanted(office) :
             Begin(t, [NoOp EXCEPT !.kind = "send", !.office = office, !.form = form, !.to = wanted],
                   "persons", RecipientLocks(wanted))
    BY <1>1 DEF BeginSend
  <2>1. PICK wanted \in Wanted(office) :
          Begin(t, [NoOp EXCEPT !.kind = "send", !.office = office, !.form = form, !.to = wanted],
                "persons", RecipientLocks(wanted))
    BY <2>0
  <2>2. wanted \in SUBSET Staff
    BY <2>1 DEF Wanted, Holders, Active
  <2> DEFINE o == [NoOp EXCEPT !.kind = "send", !.office = office, !.form = form, !.to = wanted]
  <2>3. o \in Op /\ o.kind = "send" /\ o.to = wanted
    BY <2>2 DEF NoOp, Op, Kind
  <2>4. Begin(t, o, "persons", RecipientLocks(wanted))
    BY <2>1
  <2> HIDE DEF o
  <2> QED BY <2>3, <2>4, BeginKnows
<1>2. CASE SendLocksLink(t)
  <2>1. op[t].kind = "send" /\ pc[t] = "persons" /\ want[t] = {} /\ Then(t, "link", LinkLocks)
    BY <1>2 DEF SendLocksLink, At
  <2>2. /\ pc'[t] = "link" /\ op'[t] = op[t]
        /\ Asked(t) = held[t] /\ Asked(t)' = held[t] \union LinkLocks
    BY <2>1, ThenFacts
  <2>3. Sender(t)'
    BY <2>1, <2>2 DEF Knows, Sender
  <2> QED BY <2>1, <2>2, <2>3 DEF Knows, Answerer, Remover, Taker, Writer
<1>3. CASE SendReplays(t)
  BY <1>3, EndKnows DEF SendReplays
<1>4. CASE SendWrites(t)
  BY <1>4, SendWritesKnows
<1>5. CASE UnlinkGuardian(t)
  <2> DEFINE o == [NoOp EXCEPT !.kind = "unlink"]
  <2>1. o \in Op /\ o.kind = "unlink"
    BY DEF NoOp, Op, Kind, Office
  <2>2. Begin(t, o, "link", {Lock(LinkRow, "no_key_update")})
    BY <1>5 DEF UnlinkGuardian
  <2> HIDE DEF o
  <2> QED BY <2>1, <2>2, BeginKnows
<1>6. CASE UnlinkWrites(t)
  <2>1. op[t].kind = "unlink" /\ want[t] = {} /\ Write(t, [NoWrite EXCEPT !.unlink = TRUE])
    BY <1>6 DEF UnlinkWrites, At
  <2>2. [NoWrite EXCEPT !.unlink = TRUE] \in Writes
    BY NothingType DEF Writes
  <2> QED BY <2>1, <2>2, BlankWriteKnows DEF NoWrite, NoMessage
<1> QED BY <1>1, <1>2, <1>3, <1>4, <1>5, <1>6 DEF Sends

LEMMA AnswersKnow ==
    ASSUME TInv, NEW t \in Tx, Knows(t), Answers(t)
    PROVE  Knows(t)'
<1>1. CASE BeginAnswer(t)
  <2>0. PICK m \in Message :
          \E p \in msg[m].assignees :
             Begin(t, [NoOp EXCEPT !.kind = "answer", !.p = p, !.m = m],
                   "persons", PersonLocks(msg[m].assignees, "key_share"))
    BY <1>1 DEF BeginAnswer
  <2>1. PICK p \in msg[m].assignees :
          Begin(t, [NoOp EXCEPT !.kind = "answer", !.p = p, !.m = m],
                "persons", PersonLocks(msg[m].assignees, "key_share"))
    BY <2>0
  <2>2. p \in Staff
    BY <2>1 DEF TInv, TypeOK, MessageRow
  <2> DEFINE o == [NoOp EXCEPT !.kind = "answer", !.p = p, !.m = m]
  <2>3. o \in Op /\ o.kind = "answer"
    BY <2>2 DEF NoOp, Op, Kind, Office
  <2>4. Begin(t, o, "persons", PersonLocks(msg[m].assignees, "key_share"))
    BY <2>1
  <2> HIDE DEF o
  <2> QED BY <2>3, <2>4, BeginKnows
<1>2. CASE AnswerLocksItem(t)
  <2>1. op[t].kind = "answer" /\ want[t] = {} /\ Then(t, "items", AnswerLocks(op[t].m))
    BY <1>2 DEF AnswerLocksItem, At
  <2>2. pc'[t] = "items" /\ op'[t] = op[t] /\ Asked(t)' = held[t] \union AnswerLocks(op[t].m)
    BY <2>1, ThenFacts
  <2> QED BY <2>1, <2>2 DEF Knows, Sender, Answerer, Remover, Taker, Writer
<1>3. CASE AnswerWrites(t)
  BY <1>3, AnswerWritesKnows
<1> QED BY <1>1, <1>2, <1>3 DEF Answers

LEMMA AppointsKnow ==
    ASSUME TInv, NEW t \in Tx, Knows(t), Appoints(t)
    PROVE  Knows(t)'
<1>1. CASE BeginAppoint(t)
  <2>1. PICK pair \in Appointable \ holds :
          Begin(t, [NoOp EXCEPT !.kind = "appoint", !.p = pair[1], !.office = pair[2]], "persons",
                PersonLocks({pair[1]}, IF pair[2] = "teacher" THEN "share" ELSE "no_key_update"))
    BY <1>1 DEF BeginAppoint
  <2>2. pair \in Staff \X Office
    BY MessagesAssumption
  <2> DEFINE o == [NoOp EXCEPT !.kind = "appoint", !.p = pair[1], !.office = pair[2]]
             locks == PersonLocks({pair[1]}, IF pair[2] = "teacher" THEN "share" ELSE "no_key_update")
  <2>3. o \in Op /\ o.kind = "appoint"
    BY <2>2 DEF NoOp, Op, Kind
  <2>4. Begin(t, o, "persons", locks)
    BY <2>1
  <2> HIDE DEF o, locks
  <2> QED BY <2>3, <2>4, BeginKnows
<1>2. CASE AppointWrites(t)
  <2>1. op[t].kind = "appoint" /\ want[t] = {} /\ Write(t, [NoWrite EXCEPT !.starts = Starts(t)])
    BY <1>2 DEF AppointWrites, At
  <2>2. Starts(t) \subseteq Staff \X Office
    BY <2>1, LossKinds
  <2>3. [NoWrite EXCEPT !.starts = Starts(t)] \in Writes
    BY <2>2, NothingType DEF Writes
  <2> QED BY <2>1, <2>3, BlankWriteKnows DEF NoWrite, NoMessage
<1> QED BY <1>1, <1>2 DEF Appoints

LEMMA PlansMessagesKnows ==
    ASSUME TInv, NEW t \in Tx, Knows(t), PlansMessages(t)
    PROVE  Knows(t)'
<1> DEFINE msgs == Rerouteable(t)
           chain == [m \in Message |-> IF m \in Rerouteable(t) THEN ChainOf(t, m) ELSE NoChain]
<1>1. /\ want[t] = {} /\ op[t].kind \in {"remove", "revoke", "replace"}
      /\ op[t].kind = "remove" => pc[t] = "offices"
  BY DEF PlansMessages, At
<1>2. /\ pc' = [pc EXCEPT ![t] = "plan"]
      /\ plan' = [plan EXCEPT ![t].msgs = msgs, ![t].chain = chain]
      /\ UNCHANGED <<op, want, held, write>> /\ UNCHANGED dbVars
  BY DEF PlansMessages
<1>3. \A m \in msgs : m \in Message /\ chain[m] = ChainOf(t, m)
  BY DEF Rerouteable, Routes
<1>4. msgs = Routes(op[t].p)
  BY DEF Rerouteable
<1> HIDE DEF msgs, chain
<1>5. /\ pc'[t] = "plan" /\ op'[t] = op[t] /\ want'[t] = {} /\ held'[t] = held[t]
      /\ plan'[t].msgs = msgs /\ plan'[t].chain = chain
  BY <1>1, <1>2 DEF TInv, TypeOK, Plan
<1>6. Routes(op[t].p)' = Routes(op[t].p)
  BY <1>2, <1>5 DEF dbVars, Routes, Open
<1>7. Remover(t)'
  BY <1>1, <1>4, <1>5, <1>6 DEF Knows, Remover, Planned
<1>8. ASSUME NEW m \in msgs PROVE op[t].p \notin InPlan(t, m)'
  <2>1. \A s \in Step : op[t].p \notin ChainOf(t, m)[s]
    BY DEF ChainOf
  <2> QED BY <1>3, <1>5, <2>1 DEF InPlan
<1>9. Taker(t)'
  BY <1>5, <1>8 DEF Taker, Planned
<1> QED BY <1>1, <1>5, <1>7, <1>9 DEF Knows, Sender, Answerer, Writer

LEMMA TakesCandidatesKnows ==
    ASSUME TInv, NEW t \in Tx, Knows(t), TakesCandidates(t)
    PROVE  Knows(t)'
<1> DEFINE got == {w \in Candidates(t) \ Awaited(t) : Free(t, w)}
           who == {w[1][2] : w \in got}
<1>1. /\ pc[t] = "plan" /\ pc' = [pc EXCEPT ![t] = "candidates"]
      /\ held' = [held EXCEPT ![t] = @ \union got]
      /\ want' = [want EXCEPT ![t] = {}]
      /\ plan' = [plan EXCEPT ![t].took = who]
      /\ UNCHANGED <<op, write>> /\ UNCHANGED dbVars
  BY DEF TakesCandidates, Awaited
<1>2. ASSUME NEW w \in got
      PROVE  /\ w[1][2] \in Active /\ w = Lock(StaffRow(w[1][2]), "key_share")
             /\ w[1][2] # op[t].p
  <2>1. w \in Candidates(t)
    OBVIOUS
  <2>2. PICK m \in Planned(t) : w[1][2] \in InPlan(t, m)
    BY <2>1, CandidateFacts
  <2>3. w[1][2] # op[t].p
    BY <1>1, <2>2 DEF Knows, Taker
  <2> QED BY <2>1, <2>3, CandidateFacts DEF Active
<1>3. who \subseteq Active \ {op[t].p} /\ PersonLocks(who, "key_share") \subseteq got
  BY <1>2 DEF PersonLocks
<1> HIDE DEF got, who
<1>4. /\ pc'[t] = "candidates" /\ op'[t] = op[t] /\ want'[t] = {} /\ held'[t] = held[t] \union got
      /\ plan'[t].took = who /\ Planned(t)' = Planned(t)
  BY <1>1 DEF TInv, TypeOK, Plan, Planned
<1>5. Routes(op[t].p)' = Routes(op[t].p) /\ Active' = Active
  BY <1>1, <1>4 DEF dbVars, Routes, Open, Active
<1>6. Remover(t)'
  BY <1>1, <1>4, <1>5 DEF Knows, Remover
<1>7. Taker(t)'
  BY <1>3, <1>4, <1>5 DEF Taker
<1> QED BY <1>4, <1>6, <1>7 DEF Knows, Sender, Answerer, Writer

LEMMA LossesKnow ==
    ASSUME TInv, AddresseesThere, NEW t \in Tx, Knows(t), Losses(t)
    PROVE  Knows(t)'
<1>1. CASE BeginRemove(t)
  <2>1. PICK p \in Removable :
          Begin(t, [NoOp EXCEPT !.kind = "remove", !.p = p], "persons", {Lock(StaffRow(p), "update")})
    BY <1>1 DEF BeginRemove
  <2>2. p \in Staff
    BY MessagesAssumption
  <2> DEFINE o == [NoOp EXCEPT !.kind = "remove", !.p = p]
  <2>3. o \in Op /\ o.kind = "remove" /\ o.p = p
    BY <2>2 DEF NoOp, Op, Kind, Office
  <2>4. Begin(t, o, "persons", {Lock(StaffRow(p), "update")})
    BY <2>1
  <2> HIDE DEF o
  <2> QED BY <2>3, <2>4, BeginKnows
<1>2. CASE RemoveEndsOffices(t)
  <2>1. /\ op[t].kind = "remove" /\ pc[t] = "persons" /\ want[t] = {}
        /\ Then(t, "offices", OfficeLocks(Ends(t) \intersect holds))
    BY <1>2 DEF RemoveEndsOffices, At
  <2>2. pc'[t] = "offices" /\ op'[t] = op[t] /\ held'[t] = held[t] /\ Asked(t) = held[t]
    BY <2>1, ThenFacts
  <2> QED BY <2>1, <2>2 DEF Knows, Sender, Answerer, Remover, Taker, Writer
<1>3. CASE BeginRevoke(t)
  <2>1. PICK pair \in Revocable \intersect holds :
          Begin(t, [NoOp EXCEPT !.kind = "revoke", !.p = pair[1], !.office = pair[2]],
                "offices", OfficeLocks({pair}))
    BY <1>3 DEF BeginRevoke
  <2>2. pair \in Staff \X Office
    BY DEF TInv, TypeOK
  <2> DEFINE o == [NoOp EXCEPT !.kind = "revoke", !.p = pair[1], !.office = pair[2]]
  <2>3. o \in Op /\ o.kind = "revoke"
    BY <2>2 DEF NoOp, Op, Kind
  <2>4. Begin(t, o, "offices", OfficeLocks({pair}))
    BY <2>1
  <2> HIDE DEF o
  <2> QED BY <2>3, <2>4, BeginKnows
<1>4. CASE BeginReplace(t)
  <2>1. PICK p \in Staff, next \in Staff :
          Begin(t, [NoOp EXCEPT !.kind = "replace", !.p = p, !.next = next, !.office = "teacher"],
                "offices", OfficeLocks({<<p, "teacher">>}))
    BY <1>4 DEF BeginReplace
  <2> DEFINE o == [NoOp EXCEPT !.kind = "replace", !.p = p, !.next = next, !.office = "teacher"]
  <2>2. o \in Op /\ o.kind = "replace"
    BY DEF NoOp, Op, Kind, Office
  <2>3. Begin(t, o, "offices", OfficeLocks({<<p, "teacher">>}))
    BY <2>1
  <2> HIDE DEF o
  <2> QED BY <2>2, <2>3, BeginKnows
<1>5. CASE ReplaceLocksNext(t)
  <2>1. /\ op[t].kind = "replace" /\ want[t] = {}
        /\ Then(t, "persons", PersonLocks({op[t].next}, "share"))
    BY <1>5 DEF ReplaceLocksNext, At
  <2>2. pc'[t] = "persons" /\ op'[t] = op[t]
    BY <2>1, ThenFacts
  <2> QED BY <2>1, <2>2 DEF Knows, Sender, Answerer, Remover, Taker, Writer
<1>6. CASE PlansMessages(t)
  BY <1>6, PlansMessagesKnows
<1>7. CASE TakesCandidates(t)
  BY <1>7, TakesCandidatesKnows
<1>8. CASE LocksItems(t)
  <2> DEFINE locks == ItemLocks(IF op[t].kind = "remove" THEN Routes(op[t].p) ELSE Planned(t))
  <2>1. /\ op[t].kind \in {"remove", "revoke", "replace"} /\ pc[t] = "candidates" /\ want[t] = {}
        /\ Then(t, "items", locks)
    BY <1>8 DEF LocksItems, At
  <2>2. op[t].kind = "remove" => ItemLocks(Routes(op[t].p)) = locks
    OBVIOUS
  <2> HIDE DEF locks
  <2>3. /\ pc'[t] = "items" /\ op'[t] = op[t] /\ held'[t] = held[t] /\ plan'[t] = plan[t]
        /\ Asked(t)' = held[t] \union locks
        /\ \A p : Routes(p)' = Routes(p)
        /\ Active' = Active /\ Planned(t)' = Planned(t)
    BY <2>1, ThenFacts
  <2>4. Remover(t)'
    <3>1. ASSUME op[t].kind = "remove"
          PROVE  /\ Lock(StaffRow(op[t].p), "update") \in held[t]
                 /\ Routes(op[t].p) \subseteq Planned(t)
      BY <2>1, <3>1 DEF Knows, Remover
    <3>2. op[t].kind = "remove" => ItemLocks(Routes(op[t].p)') \subseteq Asked(t)'
      BY <2>2, <2>3
    <3> QED BY <2>3, <3>1, <3>2 DEF Remover, ItemLocks
  <2>5. Taker(t)'
    BY <2>1, <2>3 DEF Knows, Taker
  <2> QED BY <2>1, <2>3, <2>4, <2>5 DEF Knows, Sender, Answerer, Writer
<1>9. CASE LossWrites(t)
  BY <1>9, LossWritesKnows
<1> QED BY <1>1, <1>2, <1>3, <1>4, <1>5, <1>6, <1>7, <1>8, <1>9 DEF Losses

-----------------------------------------------------------------------------
(* An hour passes.                                                         *)

LEMMA SentFinite ==
    /\ IsFiniteSet(Message) /\ IsFiniteSet(Recent)
    /\ Cardinality(Recent) \in Nat
<1>1. IsFiniteSet(Message)
  BY MessagesAssumption, FS_Interval DEF Message
<1>2. IsFiniteSet(Recent)
  BY <1>1, FS_Subset DEF Recent, Sent
<1> QED BY <1>1, <1>2, FS_CardinalityType

\* What the rate is said of is what the code counts.
LEMMA RateRecent == TInv => (RateKept <=> Cardinality(Recent) <= RateLimit)
<1> SUFFICES ASSUME TInv PROVE RateKept <=> Cardinality(Recent) <= RateLimit
  OBVIOUS
<1>1. {m \in Sent : msg[m].age \in {"new", "recent"}} = Recent
  BY DEF TInv, TypeOK, MessageRow, Sent, Recent
<1> QED BY <1>1 DEF RateKept

LEMMA AgesFacts ==
    ASSUME TInv, NEW m \in Message, Ages(m)
    PROVE  /\ UNCHANGED <<removed, holds, linked, pc, op, want, held, plan, write>>
           /\ \A i \in Message : /\ msg'[i].status = msg[i].status /\ msg'[i].form = msg[i].form
                                 /\ msg'[i].assignees = msg[i].assignees /\ msg'[i].by = msg[i].by
                                 /\ msg'[i].age # "old" => msg[i].age # "old"
           /\ Recent' \subseteq Recent
           /\ Cardinality(Recent') \in Nat /\ Cardinality(Recent') <= Cardinality(Recent)
<1>1. /\ msg' = [msg EXCEPT ![m].age = IF @ = "new" THEN "recent" ELSE "old"] /\ m \in Recent
      /\ UNCHANGED <<removed, holds, linked, pc, op, want, held, plan, write>>
  BY DEF Ages
<1>2. msg \in [Message -> MessageRow] /\ msg[m].age # "old"
  BY <1>1 DEF TInv, TypeOK, Recent
<1>3. ASSUME NEW i \in Message
      PROVE  /\ msg'[i].status = msg[i].status /\ msg'[i].form = msg[i].form
             /\ msg'[i].assignees = msg[i].assignees /\ msg'[i].by = msg[i].by
             /\ msg'[i].age # "old" => msg[i].age # "old"
  <2>1. CASE i # m
    BY <1>1, <1>2, <2>1
  <2>2. CASE i = m
    <3>1. msg'[m] = [msg[m] EXCEPT !.age = IF @ = "new" THEN "recent" ELSE "old"] /\ msg[m] \in MessageRow
      BY <1>1, <1>2
    <3> QED BY <1>2, <2>2, <3>1 DEF MessageRow
  <2> QED BY <2>1, <2>2
<1>4. Recent' \subseteq Recent
  BY <1>3 DEF Recent, Sent
<1>5. Cardinality(Recent') \in Nat /\ Cardinality(Recent') <= Cardinality(Recent)
  BY <1>4, SentFinite, FS_Subset, FS_CardinalityType
<1> QED BY <1>1, <1>3, <1>4, <1>5

LEMMA AgesKnow ==
    ASSUME TInv, AddresseesThere, RateKept, Blank, NEW m \in Message, Ages(m)
    PROVE  AddresseesThere' /\ RateKept' /\ Blank' /\ \A t \in Tx : Knows(t) => Knows(t)'
<1>1. /\ UNCHANGED <<removed, holds, linked, pc, op, want, held, plan, write>>
      /\ \A i \in Message : /\ msg'[i].status = msg[i].status /\ msg'[i].form = msg[i].form
                            /\ msg'[i].assignees = msg[i].assignees
      /\ Cardinality(Recent') \in Nat /\ Cardinality(Recent') <= Cardinality(Recent)
  BY AgesFacts
<1>2. AddresseesThere' /\ Blank'
  BY <1>1 DEF AddresseesThere, Blank, Open, Active
<1>3. RateKept'
  <2>1. RateKept' <=> Cardinality(Recent') <= RateLimit
    <3>1. {i \in Sent' : msg'[i].age \in {"new", "recent"}} = Recent'
      BY AgesType DEF TInv, TypeOK, MessageRow, Sent, Recent
    <3> QED BY <3>1, Zenon DEF RateKept
  <2>2. Cardinality(Recent) <= RateLimit
    BY RateRecent
  <2> QED BY <1>1, <2>1, <2>2, SentFinite, MessagesAssumption
<1>4. ASSUME NEW t \in Tx, Knows(t) PROVE Knows(t)'
  <2>1. UsedForms' = UsedForms /\ Active' = Active
    BY <1>1 DEF UsedForms, Sent, Active
  <2>2. (\A p : Routes(p)' = Routes(p)) /\ (\A i \in Message : Open(i)' = Open(i))
    BY <1>1 DEF Routes, Open
  <2>3. /\ Asked(t)' = Asked(t) /\ Written(t)' = Written(t) /\ Planned(t)' = Planned(t)
        /\ \A i : InPlan(t, i)' = InPlan(t, i)
    BY <1>1 DEF Asked, Written, Planned, InPlan
  <2>4. Sender(t)'
    <3>1. pc[t] = "write" /\ op[t].kind = "send" => Cardinality(Recent') < RateLimit
      BY <1>1, <1>4, SentFinite, MessagesAssumption DEF Knows, Sender
    <3> QED BY <1>1, <1>4, <2>1, <2>3, <3>1 DEF Knows, Sender
  <2>5. Answerer(t)'
    BY <1>1, <1>4, <2>3 DEF Knows, Answerer
  <2>6. Remover(t)'
    BY <1>1, <1>4, <2>2, <2>3 DEF Knows, Remover
  <2>7. Taker(t)'
    BY <1>1, <1>4, <2>1, <2>3 DEF Knows, Taker
  <2>8. Writer(t)'
    <3>1. ASSUME NEW i \in Message
          PROVE  /\ NewOne(t, i) => NewOne(t, i)'
                 /\ OldOne(t, i) => OldOne(t, i)'
                 /\ HandedOn(t, i) => HandedOn(t, i)'
      <4>1. NewOne(t, i) => NewOne(t, i)'
        BY <1>1 DEF NewOne
      <4>2. OldOne(t, i) => OldOne(t, i)'
        BY <1>1, <2>2 DEF OldOne
      <4>3. HandedOn(t, i) => HandedOn(t, i)'
        BY <1>1, <2>3 DEF HandedOn
      <4> QED BY <4>1, <4>2, <4>3
    <3>2. Writer(t) /\ \A i \in Written(t) : i \in Message
      BY <1>4 DEF Knows, Written
    <3> QED BY <1>1, <2>1, <2>2, <2>3, <3>1, <3>2 DEF Writer
  <2> QED BY <1>1, <1>4, <2>4, <2>5, <2>6, <2>7, <2>8 DEF Knows
<1> QED BY <1>2, <1>3, <1>4

-----------------------------------------------------------------------------
(* A commit.                                                               *)

LEMMA CommitFacts ==
    ASSUME TInv, NEW u \in Tx, Commit(u)
    PROVE  /\ pc[u] = "write" /\ End(u)
           /\ removed' = removed \union write[u].gone
           /\ \A m \in Message \ Written(u) : msg'[m] = msg[m]
           /\ \A m \in Written(u) :
                 /\ m \in Message /\ msg[m] \in MessageRow
                 /\ msg'[m].status = write[u].msg[m].status
                 /\ msg'[m].form = write[u].msg[m].form
                 /\ msg'[m].assignees = write[u].msg[m].assignees
                 /\ msg'[m].by = write[u].msg[m].by
                 /\ m \in Sent => msg'[m].age = msg[m].age
           /\ \A t \in Tx \ {u} :
                 /\ pc'[t] = pc[t] /\ op'[t] = op[t] /\ want'[t] = want[t] /\ held'[t] = held[t]
                 /\ plan'[t] = plan[t] /\ write'[t] = write[t]
<1> DEFINE w == write[u]
<1>1. /\ pc[u] = "write" /\ End(u)
      /\ removed' = removed \union w.gone
      /\ msg' = [m \in Message |-> IF w.msg[m].status = "none" THEN msg[m] ELSE Stored(w, m)]
  BY DEF Commit
<1>2. w \in Writes /\ msg \in [Message -> MessageRow]
  BY DEF TInv, TypeOK
<1>3. ASSUME NEW m \in Written(u)
      PROVE  /\ m \in Message /\ msg[m] \in MessageRow
             /\ msg'[m].status = w.msg[m].status
             /\ msg'[m].form = w.msg[m].form
             /\ msg'[m].assignees = w.msg[m].assignees
             /\ msg'[m].by = w.msg[m].by
             /\ m \in Sent => msg'[m].age = msg[m].age
  <2>1. m \in Message /\ w.msg[m].status # "none" /\ w.msg[m] \in MessageRow /\ msg[m] \in MessageRow
    BY <1>2 DEF Written, Writes
  <2>2. msg'[m] = Stored(w, m)
    BY <1>1, <2>1
  <2>3. CASE m \in Sent
    <3>1. msg'[m] = [w.msg[m] EXCEPT !.age = msg[m].age]
      BY <2>2, <2>3 DEF Stored
    <3> HIDE DEF w
    <3> QED BY <2>1, <3>1 DEF MessageRow
  <2>4. CASE m \notin Sent
    BY <2>1, <2>2, <2>4 DEF Stored
  <2> QED BY <2>1, <2>3, <2>4
<1>4. \A m \in Message \ Written(u) : msg'[m] = msg[m]
  BY <1>1 DEF Written
<1>5. \A t \in Tx \ {u} :
         /\ pc'[t] = pc[t] /\ op'[t] = op[t] /\ want'[t] = want[t] /\ held'[t] = held[t]
         /\ plan'[t] = plan[t] /\ write'[t] = write[t]
  BY <1>1 DEF End, TInv, TypeOK
<1> QED BY <1>1, <1>3, <1>4, <1>5

\* What one commit makes of the messages: it keeps those the others read.
LEMMA CommitKeeps ==
    ASSUME IInv, NEW u \in Tx, Commit(u)
    PROVE  /\ \A m \in Written(u) : NewOne(u, m) \/ OldOne(u, m)
           /\ \A m \in Written(u) : write[u].msg[m].status = "open" => write[u].msg[m].assignees \subseteq Active'
           /\ \A q \in write[u].gone : /\ Lock(StaffRow(q), "update") \in held[u] /\ q = op[u].p
                                     /\ Routes(q) \subseteq Written(u)
<1>1. pc[u] = "write" /\ removed' = removed \union write[u].gone
  BY CommitFacts DEF IInv
<1>2. Writer(u) /\ Remover(u)
  BY DEF IInv, Knows
<1>3. \A m \in Written(u) : NewOne(u, m) \/ OldOne(u, m)
  BY <1>1, <1>2 DEF Writer
<1>4. ASSUME NEW q \in write[u].gone
      PROVE  /\ Lock(StaffRow(q), "update") \in held[u] /\ q = op[u].p
             /\ Routes(q) \subseteq Written(u)
             /\ \A m \in Written(u) : q \notin write[u].msg[m].assignees
  BY <1>1, <1>2 DEF Writer, Remover
<1>5. ASSUME NEW m \in Written(u), write[u].msg[m].status = "open"
      PROVE  write[u].msg[m].assignees \subseteq Active'
  <2>1. write[u].msg[m].assignees \subseteq Active
    BY <1>1, <1>2, <1>5 DEF Writer
  <2> QED BY <1>1, <1>4, <2>1 DEF Active
<1> QED BY <1>3, <1>4, <1>5

LEMMA CommitGlobals ==
    ASSUME IInv, NEW u \in Tx, Commit(u)
    PROVE  AddresseesThere' /\ RateKept' /\ Blank'
<1>0. TInv
  BY DEF IInv
<1>1. /\ removed' = removed \union write[u].gone
      /\ \A m \in Message \ Written(u) : msg'[m] = msg[m]
      /\ \A m \in Written(u) :
            /\ m \in Message
            /\ msg'[m].status = write[u].msg[m].status /\ msg'[m].assignees = write[u].msg[m].assignees
            /\ m \in Sent => msg'[m].age = msg[m].age
  BY <1>0, CommitFacts
<1>2. AddresseesThere'
  <2>1. ASSUME NEW m \in Message, msg'[m].status = "open" PROVE msg'[m].assignees \subseteq Active'
    <3>1. CASE m \in Written(u)
      BY <1>1, <2>1, <3>1, CommitKeeps
    <3>2. CASE m \notin Written(u)
      <4>1. msg'[m] = msg[m] /\ Open(m)
        BY <1>1, <2>1, <3>2 DEF Open
      <4>2. msg[m].assignees \subseteq Active
        BY <4>1 DEF IInv, AddresseesThere
      <4>3. \A q \in write[u].gone : q \notin msg[m].assignees
        BY <3>2, <4>1, CommitKeeps DEF Routes
      <4> QED BY <1>1, <4>1, <4>2, <4>3 DEF Active
    <3> QED BY <3>1, <3>2
  <2> QED BY <2>1 DEF AddresseesThere, Open
<1>3. Blank'
  <2>1. \A m \in Written(u) : msg'[m].status # "none"
    BY <1>1 DEF Written
  <2> QED BY <1>1, <2>1 DEF IInv, Blank
<1>4. RateKept'
  <2>1. RateKept' <=> Cardinality(Recent') <= RateLimit
    <3>1. {i \in Sent' : msg'[i].age \in {"new", "recent"}} = Recent'
      BY <1>0, CommitType DEF TInv, TypeOK, MessageRow, Sent, Recent
    <3> QED BY <3>1, Zenon DEF RateKept
  <2>2. Cardinality(Recent) <= RateLimit /\ Cardinality(Recent) \in Nat /\ IsFiniteSet(Recent)
    BY <1>0, RateRecent, SentFinite DEF IInv
  <2>3. ASSUME NEW m \in Recent', m \notin Recent PROVE NewOne(u, m) /\ m \in Written(u)
    <3>1. m \in Message /\ m \in Written(u)
      BY <1>1, <2>3 DEF Recent, Sent
    <3>2. m \notin Sent
      BY <1>1, <2>3, <3>1 DEF Recent
    <3> QED BY <3>1, <3>2, CommitKeeps DEF OldOne, Open, Sent
  <2>4. CASE \E m \in Recent' : m \notin Recent
    <3>1. PICK m \in Recent' : m \notin Recent
      BY <2>4
    <3>2. op[u].kind = "send" /\ m \in Written(u)
      BY <2>3, <3>1 DEF NewOne
    <3>3. Cardinality(Recent) < RateLimit /\ \A i \in Written(u) : i = m
      BY <1>0, <3>2, CommitFacts DEF IInv, Knows, Sender
    <3>4. Recent' \subseteq Recent \union {m}
      BY <2>3, <3>3
    <3>5. /\ IsFiniteSet(Recent \union {m})
          /\ Cardinality(Recent \union {m}) = Cardinality(Recent) + 1
      BY <2>2, <3>1, FS_AddElement
    <3>6. Cardinality(Recent') \in Nat /\ Cardinality(Recent') <= Cardinality(Recent) + 1
      BY <3>4, <3>5, FS_Subset, FS_CardinalityType
    <3> QED BY <2>1, <2>2, <3>3, <3>6, MessagesAssumption
  <2>5. CASE \A m \in Recent' : m \in Recent
    <3>1. Cardinality(Recent') \in Nat /\ Cardinality(Recent') <= Cardinality(Recent)
      BY <2>2, <2>5, FS_Subset, FS_CardinalityType
    <3> QED BY <2>1, <2>2, <3>1, MessagesAssumption
  <2> QED BY <2>4, <2>5
<1> QED BY <1>2, <1>3, <1>4

\* What another transaction knows is not disturbed: a row it rests on is locked.
LEMMA CommitKnows ==
    ASSUME IInv, NEW u \in Tx, Commit(u), NEW t \in Tx \ {u}
    PROVE  Knows(t)'
<1>0. TInv /\ LocksExclude /\ Blank /\ Knows(t)
  BY DEF IInv
<1>1. /\ removed' = removed \union write[u].gone
      /\ \A m \in Message \ Written(u) : msg'[m] = msg[m]
      /\ \A m \in Written(u) :
            /\ m \in Message
            /\ msg'[m].status = write[u].msg[m].status /\ msg'[m].form = write[u].msg[m].form
            /\ msg'[m].assignees = write[u].msg[m].assignees
            /\ m \in Sent => msg'[m].age = msg[m].age
      /\ pc[u] = "write"
  BY <1>0, CommitFacts
<1>2. /\ pc'[t] = pc[t] /\ op'[t] = op[t] /\ want'[t] = want[t] /\ held'[t] = held[t]
      /\ plan'[t] = plan[t] /\ write'[t] = write[t]
  BY <1>0, CommitFacts
<1>3. /\ Asked(t)' = Asked(t) /\ Written(t)' = Written(t) /\ Planned(t)' = Planned(t)
      /\ \A i : InPlan(t, i)' = InPlan(t, i)
  BY <1>2 DEF Asked, Written, Planned, InPlan
<1>4. ASSUME LinkLocks \subseteq held[t] PROVE \A m \in Written(u) : OldOne(u, m)
  <2>1. ~(LinkLocks \subseteq held[u])
    BY <1>0, <1>4, HeldAlone DEF LinkLocks
  <2> QED BY <2>1, CommitKeeps DEF NewOne
\* ... nobody becomes an addressee whom it is removing ...
<1>5. ASSUME Lock(StaffRow(op[t].p), "update") \in held[t]
      PROVE  Routes(op[t].p)' \subseteq Routes(op[t].p)
  <2> DEFINE p == op[t].p
  <2>1. ASSUME NEW m \in Message, msg'[m].status = "open", p \in msg'[m].assignees
        PROVE  Open(m) /\ p \in msg[m].assignees
    <3>1. CASE m \notin Written(u)
      BY <1>1, <2>1, <3>1 DEF Open
    <3>2. CASE m \in Written(u)
      <4>1. write[u].msg[m].status = "open" /\ p \in write[u].msg[m].assignees
        BY <1>1, <2>1, <3>2
      <4>2. PersonLocks(write[u].msg[m].assignees \ msg[m].assignees, "key_share") \subseteq held[u]
        BY <1>1, <3>2, <4>1 DEF IInv, Knows, Writer
      <4>3. Lock(StaffRow(p), "key_share") \notin held[u]
        BY <1>0, <1>5, HeldAlone
      <4>4. p \in msg[m].assignees
        BY <4>1, <4>2, <4>3 DEF PersonLocks
      <4>5. msg[m].status # "none"
        BY <1>0, <2>1, <4>4 DEF Blank
      <4> QED BY <3>2, <4>4, <4>5, CommitKeeps DEF NewOne, OldOne
    <3> QED BY <3>1, <3>2
  <2>2. op'[t].p = p
    BY <1>2
  <2> QED BY <2>1, <2>2 DEF Routes, Open
\* ... nobody is removed whom it has locked ...
<1>6. ASSUME NEW q \in Active, Lock(StaffRow(q), "key_share") \in held[t] PROVE q \in Active'
  <2>1. q \notin write[u].gone
    BY <1>0, <1>6, HeldAlone, CommitKeeps
  <2> QED BY <1>1, <2>1 DEF Active
\* ... and no message it writes is written.
<1>7. ASSUME NEW m \in Written(t), pc[t] = "write" PROVE m \in Message /\ m \notin Written(u)
  <2>1. m \in Message /\ (NewOne(t, m) \/ OldOne(t, m))
    BY <1>0, <1>7 DEF Knows, Writer, Written
  <2>2. CASE NewOne(t, m)
    <3>1. msg[m].status = "none" /\ \A i \in Written(u) : OldOne(u, i)
      BY <1>4, <2>2 DEF NewOne
    <3>2. \A i \in Written(u) : msg[i].status = "open"
      BY <3>1 DEF OldOne, Open
    <3> QED BY <2>1, <3>1, <3>2
  <2>3. CASE OldOne(t, m)
    <3>1. ~(ItemLocks({m}) \subseteq held[u])
      BY <1>0, <2>3, HeldAlone DEF OldOne, ItemLocks
    <3>2. ~NewOne(u, m)
      BY <2>3 DEF NewOne, OldOne, Open
    <3> QED BY <2>1, <3>1, <3>2, CommitKeeps DEF OldOne
  <2> QED BY <2>1, <2>2, <2>3
<1>8. Sender(t)'
  <2>1. ASSUME op[t].kind = "send", pc[t] = "write" PROVE UsedForms' = UsedForms /\ Recent' = Recent
    <3>1. LinkLocks \subseteq held[t]
      BY <1>0, <2>1 DEF Knows, Sender
    <3>2. \A m \in Message : msg'[m].form = msg[m].form /\ (m \in Sent' <=> m \in Sent)
                             /\ (m \in Sent => msg'[m].age = msg[m].age)
      BY <1>1, <1>4, <3>1 DEF OldOne, Open, Sent, Written
    <3>3. Sent' = Sent
      BY <3>2 DEF Sent
    <3> QED BY <3>2, <3>3 DEF UsedForms, Recent, Sent
  <2> QED BY <1>0, <1>2, <1>3, <2>1 DEF Knows, Sender
<1>9. Answerer(t)'
  BY <1>0, <1>2, <1>3 DEF Knows, Answerer
<1>10. Remover(t)'
  <2>1. Remover(t) /\ op'[t].p = op[t].p
    BY <1>0, <1>2 DEF Knows
  <2>2. ASSUME op[t].kind = "remove", pc[t] \in {"plan", "candidates", "items", "write"}
        PROVE  Routes(op[t].p)' \subseteq Routes(op[t].p)
    BY <1>5, <2>1, <2>2 DEF Remover
  <2>3. op[t].kind = "remove" /\ pc[t] = "items" => ItemLocks(Routes(op[t].p)') \subseteq Asked(t)
    BY <2>1, <2>2 DEF Remover, ItemLocks
  <2> QED BY <1>2, <1>3, <2>1, <2>2, <2>3 DEF Remover, ItemLocks
<1>11. Taker(t)'
  <2>1. ASSUME pc[t] \in {"candidates", "items"}, op[t].kind # "answer"
        PROVE  plan[t].took \subseteq Active'
    BY <1>0, <1>6, <2>1 DEF Knows, Taker, PersonLocks
  <2> QED BY <1>0, <1>2, <1>3, <2>1 DEF Knows, Taker
<1>12. Writer(t)'
  <2>1. ASSUME NEW m \in Written(t), pc[t] = "write"
        PROVE  /\ NewOne(t, m)' \/ OldOne(t, m)'
               /\ msg'[m] = msg[m] /\ (Open(m)' <=> Open(m))
               /\ HandedOn(t, m) => HandedOn(t, m)'
    <3>1. msg'[m] = msg[m]
      BY <1>1, <1>7, <2>1
    <3>2. NewOne(t, m) => NewOne(t, m)'
      BY <1>2, <3>1 DEF NewOne
    <3>3. OldOne(t, m) => OldOne(t, m)'
      BY <1>2, <3>1 DEF OldOne, Open
    <3>4. HandedOn(t, m) => HandedOn(t, m)'
      BY <1>2, <1>3 DEF HandedOn
    <3>5. Open(m)' <=> Open(m)
      BY <3>1 DEF Open
    <3>6. NewOne(t, m) \/ OldOne(t, m)
      BY <1>0, <2>1 DEF Knows, Writer
    <3> QED BY <3>1, <3>2, <3>3, <3>4, <3>5, <3>6
  <2>2. ASSUME NEW m \in Written(t), pc[t] = "write", write[t].msg[m].status = "open"
        PROVE  write[t].msg[m].assignees \subseteq Active'
    <3> DEFINE n == write[t].msg[m]
    <3>1. /\ n.assignees \subseteq Active
          /\ PersonLocks(n.assignees \ msg[m].assignees, "key_share") \subseteq held[t]
          /\ NewOne(t, m) \/ OldOne(t, m)
      BY <1>0, <2>2 DEF Knows, Writer
    <3>2. m \in Message /\ m \notin Written(u)
      BY <1>7, <2>2
    <3>3. ASSUME NEW q \in n.assignees PROVE q \in Active'
      <4>1. CASE q \notin msg[m].assignees
        <5>1. Lock(StaffRow(q), "key_share") \in held[t]
          BY <3>1, <3>3, <4>1 DEF PersonLocks
        <5> QED BY <1>6, <3>1, <3>3, <5>1
      <4>2. CASE q \in msg[m].assignees
        <5>1. Open(m)
          BY <1>0, <3>1, <3>2, <4>2 DEF Blank, NewOne, OldOne
        <5>2. m \in Routes(q)
          BY <3>2, <4>2, <5>1 DEF Routes
        <5>3. q \notin write[u].gone
          BY <3>2, <5>2, CommitKeeps
        <5> QED BY <1>1, <3>1, <3>3, <5>3 DEF Active
      <4> QED BY <4>1, <4>2
    <3> QED BY <3>3
  <2>3. Writer(t)
    BY <1>0 DEF Knows
  <2> QED BY <1>2, <1>3, <2>1, <2>2, <2>3 DEF Writer
<1> QED BY <1>0, <1>2, <1>8, <1>9, <1>10, <1>11, <1>12 DEF Knows

-----------------------------------------------------------------------------
(* The invariant, and what follows.                                        *)

LEMMA InitInvariant == Init => IInv
<1> SUFFICES ASSUME Init PROVE IInv
  OBVIOUS
<1>1. TInv
  BY InitType
<1>2. LocksExclude
  BY DEF Init, LocksExclude
<1>3. AddresseesThere /\ Blank /\ Sent = {}
  BY DEF Init, AddresseesThere, Blank, Open, NoMessage, Sent
<1>4. RateKept
  <2>1. Recent = {}
    BY <1>3 DEF Recent
  <2> QED BY <1>1, <2>1, RateRecent, FS_EmptySet, MessagesAssumption
<1>5. ASSUME NEW t \in Tx PROVE Knows(t)
  BY DEF Init, NoOp, Knows, Sender, Answerer, Remover, Taker, Writer
<1> QED BY <1>1, <1>2, <1>3, <1>4, <1>5 DEF IInv

LEMMA InvariantStep == IInv /\ [Next]_vars => IInv'
<1> SUFFICES ASSUME IInv, [Next]_vars PROVE IInv'
  OBVIOUS
<1>1. TInv' /\ LocksExclude'
  BY TypeStep, LocksExcludeStep DEF IInv
<1>2. ASSUME NEW t \in Tx,
             Sends(t) \/ Answers(t) \/ Losses(t) \/ Appoints(t) \/ TakeLock(t) \/ Abort(t)
      PROVE  IInv'
  <2>1. LocalStep(t)
    BY <1>2, ActsLocally DEF IInv
  <2>2. AddresseesThere' /\ RateKept' /\ Blank'
    BY <2>1 DEF IInv, LocalStep, dbVars, AddresseesThere, RateKept, Blank, Open, Active, Sent
  <2>3. Knows(t)'
    BY <1>2, SendsKnow, AnswersKnow, LossesKnow, AppointsKnow, TakeLockKnows, EndKnows DEF IInv, Abort
  <2>4. \A u \in Tx \ {t} : Knows(u)'
    BY <2>1, OthersKnow DEF IInv
  <2> QED BY <1>1, <2>2, <2>3, <2>4 DEF IInv
<1>3. ASSUME NEW t \in Tx, Commit(t) PROVE IInv'
  <2>1. Knows(t)'
    BY <1>3, EndKnows DEF IInv, Commit
  <2>2. \A u \in Tx \ {t} : Knows(u)'
    BY <1>3, CommitKnows
  <2> QED BY <1>1, <1>3, <2>1, <2>2, CommitGlobals DEF IInv
<1>4. ASSUME NEW m \in Message, Ages(m) PROVE IInv'
  BY <1>1, <1>4, AgesKnow DEF IInv
<1>5. CASE UNCHANGED vars
  <2>1. AddresseesThere' /\ RateKept' /\ Blank'
    BY <1>5 DEF vars, IInv, AddresseesThere, RateKept, Blank, Open, Active, Sent
  <2>2. \A t \in Tx : Knows(t)'
    BY <1>5, StandsStill DEF IInv
  <2> QED BY <1>1, <2>1, <2>2 DEF IInv
<1> QED BY <1>2, <1>3, <1>4, <1>5 DEF Next

LEMMA Invariant == Spec => []IInv
BY InitInvariant, InvariantStep, PTL DEF Spec

\* Whatever commits first of a removal, a send and a re-route, no removed
\* colleague is an addressee of an open message (guardian-messages.ts).
THEOREM NobodyRemovedAddressed == Spec => []AddresseesThere
<1>1. IInv => AddresseesThere
  BY DEF IInv
<1> QED BY <1>1, Invariant, PTL

\* However many sends run at once, the limit of the hour holds: each counts
\* under the link's lock (guardian-messages.ts).
THEOREM RateHolds == Spec => []RateKept
<1>1. IInv => RateKept
  BY DEF IInv
<1> QED BY <1>1, Invariant, PTL

\* A send past its checks meets no message of its form: the second of a double
\* tap finds the first (guardian-messages.ts).
THEOREM FormsSentOnce == Spec => []NoTwin
<1>1. IInv => NoTwin
  BY DEF IInv, NoTwin, Knows, Sender
<1> QED BY <1>1, Invariant, PTL

LEMMA AnswerStandsStep == IInv /\ [Next]_vars =>
    [\A m \in Message : msg[m].status = "answered" =>
         /\ msg'[m].status = "answered" /\ msg'[m].by = msg[m].by
         /\ msg'[m].assignees = msg[m].assignees]_msg
<1> SUFFICES ASSUME IInv, [Next]_vars, NEW m \in Message, msg[m].status = "answered", msg' # msg
             PROVE  /\ msg'[m].status = "answered" /\ msg'[m].by = msg[m].by
                    /\ msg'[m].assignees = msg[m].assignees
  OBVIOUS
<1>1. ASSUME NEW t \in Tx,
             Sends(t) \/ Answers(t) \/ Losses(t) \/ Appoints(t) \/ TakeLock(t) \/ Abort(t)
      PROVE  FALSE
  BY <1>1, ActsLocally DEF IInv, LocalStep, dbVars
<1>2. ASSUME NEW t \in Tx, Commit(t) PROVE msg'[m] = msg[m]
  <2>1. m \notin Written(t)
    BY <1>2, CommitKeeps DEF NewOne, OldOne, Open
  <2> QED BY <1>2, <2>1, CommitFacts DEF IInv
<1>3. ASSUME NEW i \in Message, Ages(i)
      PROVE  /\ msg'[m].status = msg[m].status /\ msg'[m].by = msg[m].by
             /\ msg'[m].assignees = msg[m].assignees
  BY <1>3, AgesFacts DEF IInv
<1>4. CASE UNCHANGED vars
  BY <1>4 DEF vars
<1> QED BY <1>1, <1>2, <1>3, <1>4 DEF Next

\* The first answer stands, whatever was planned before it (guardian-messages.ts).
THEOREM FirstAnswerStands == Spec => AnswerStands
BY Invariant, AnswerStandsStep, PTL DEF Spec, AnswerStands

LEMMA NobodyLeftOutStep == IInv /\ [Next]_vars =>
    [\A m \in Message :
         (Open(m) /\ Open(m)' /\ msg[m].assignees # {} /\ msg'[m].assignees = {})
             => \E t \in Tx : pc[t] = "write" /\ m \in Planned(t) /\ InPlan(t, m) \intersect plan[t].took = {}]_vars
<1> SUFFICES ASSUME IInv, Next, NEW m \in Message, Open(m), msg'[m].status = "open",
                    msg[m].assignees # {}, msg'[m].assignees = {}
             PROVE  \E t \in Tx : pc[t] = "write" /\ m \in Planned(t) /\ InPlan(t, m) \intersect plan[t].took = {}
  BY DEF Open
<1>1. ASSUME NEW t \in Tx,
             Sends(t) \/ Answers(t) \/ Losses(t) \/ Appoints(t) \/ TakeLock(t) \/ Abort(t)
      PROVE  FALSE
  BY <1>1, ActsLocally DEF IInv, LocalStep, dbVars
<1>2. ASSUME NEW t \in Tx, Commit(t) PROVE pc[t] = "write" /\ HandedOn(t, m)
  <2>1. m \in Written(t) /\ pc[t] = "write"
    BY <1>2, CommitFacts DEF IInv
  <2>2. write[t].msg[m].status = "open" /\ write[t].msg[m].assignees = {}
    BY <1>2, <2>1, CommitFacts DEF IInv
  <2> QED BY <2>1, <2>2 DEF IInv, Knows, Writer
<1>3. ASSUME NEW i \in Message, Ages(i) PROVE FALSE
  BY <1>3, AgesFacts DEF IInv
<1> QED BY <1>1, <1>2, <1>3 DEF Next, HandedOn

\* The write that takes an open message's last addressee has planned it and has
\* no candidate of its chain (guardian-message-routing.ts).
THEOREM HandedOnInTheSameWrite == Spec => NobodyLeftOut
BY Invariant, NobodyLeftOutStep, PTL DEF Spec, NobodyLeftOut

-----------------------------------------------------------------------------
(* What a transaction waits for, and what it holds meanwhile.              *)

\* What a request may name.
Named(t) ==
    LET o == op[t] IN
    /\ o.kind = "remove" => o.p \in Removable
    /\ o.kind \in {"revoke", "replace"} => <<o.p, o.office>> \in Revocable
    /\ o.kind = "replace" =>
          /\ o.office = "teacher" /\ o.next # o.p
          /\ <<o.next, "teacher">> \in Appointable

HoldsNo(t, row) == \A w \in held[t] : w[1][1] # row

Losing == {"remove", "revoke", "replace"}

\* The one lock a removal, an appointment or a replacement takes on a person.
PersonLock(t) ==
    CASE op[t].kind = "remove" -> {Lock(StaffRow(op[t].p), "update")}
      [] op[t].kind = "replace" -> {Lock(StaffRow(op[t].next), "share")}
      [] OTHER -> {Lock(StaffRow(op[t].p), mode) : mode \in {"share", "no_key_update"}}

WantPersons(t) ==
    /\ op[t].kind \in {"send", "answer", "remove", "appoint", "replace"}
    /\ op[t].kind \in {"send", "answer"} => \A w \in want[t] : w[1][1] = "staff" /\ w[2] = "key_share"
    /\ op[t].kind \notin {"send", "answer"} =>
          /\ want[t] \subseteq PersonLock(t)
          /\ \A v, w \in want[t] : v = w
          /\ want[t] # {} => HoldsNo(t, "staff")

WantOffices(t) ==
    /\ op[t].kind \in Losing
    /\ op[t].kind = "remove" => want[t] \subseteq OfficeLocks({op[t].p} \X Office)
    /\ op[t].kind # "remove" =>
          /\ want[t] \subseteq OfficeLocks({<<op[t].p, op[t].office>>})
          /\ want[t] # {} => held[t] = {}

WantLink(t) ==
    /\ op[t].kind \in {"send", "unlink"}
    /\ want[t] \subseteq LinkLocks
    /\ want[t] # {} => HoldsNo(t, "link")

WantItems(t) ==
    /\ op[t].kind \in Losing \union {"answer"}
    /\ want[t] \subseteq ItemLocks(Message)
    /\ \A w \in want[t], v \in held[t] : v[1][1] = "item" => v[1][2] < w[1][2]
    /\ op[t].kind = "answer" =>
          /\ \A v, w \in want[t] : v = w
          /\ want[t] # {} => HoldsNo(t, "item")

Wanting(t) ==
    /\ want[t] # {} => pc[t] \in {"persons", "offices", "link", "items"}
    /\ pc[t] = "persons" => WantPersons(t)
    /\ pc[t] = "offices" => WantOffices(t)
    /\ pc[t] = "link" => WantLink(t)
    /\ pc[t] = "items" => WantItems(t)
    /\ pc[t] \in {"plan", "candidates"} => op[t].kind \in Losing

\* A row that is held, by whom and since which phase.
HeldPerson(t, w) ==
    /\ w[2] = "update" => op[t].kind = "remove" /\ w[1] = StaffRow(op[t].p)
    /\ w[2] = "no_key_update" => op[t].kind = "appoint"
    /\ w[2] = "share" => op[t].kind \in {"appoint", "replace"}
    /\ pc[t] = "offices" \/ (pc[t] = "persons" /\ op[t].kind = "remove") => w[2] = "update"
HeldOffice(t, w) ==
    /\ op[t].kind = "remove" => pc[t] # "persons" /\ \E o \in Office : w[1] = OfficeRow(<<op[t].p, o>>)
    /\ op[t].kind # "remove" => w[1] = OfficeRow(<<op[t].p, op[t].office>>)
    /\ op[t].kind \in Losing
    /\ op[t].kind = "revoke" => pc[t] # "persons"
HeldLink(t) == pc[t] \in {"link", "write"} /\ op[t].kind \in {"send", "unlink"}
HeldItem(t) == pc[t] \in {"items", "write"}

Holding(t) ==
    \A w \in held[t] :
        /\ pc[t] \in Phase \ {"idle", "ended"}
        /\ w[1][1] = "staff" => HeldPerson(t, w)
        /\ w[1][1] = "office" => HeldOffice(t, w)
        /\ w[1][1] = "link" => HeldLink(t)
        /\ w[1][1] = "item" => HeldItem(t)

Fine(t) == Named(t) /\ Wanting(t) /\ Holding(t)
WInv == \A t \in Tx : Fine(t)

LEMMA LockShapes ==
    /\ \A S, mode : \A w \in PersonLocks(S, mode) : w[1][1] = "staff" /\ w[2] = mode
    /\ \A S : \A w \in RecipientLocks(S) : w[1][1] = "staff" /\ w[2] = "key_share"
    /\ \A S : \A w \in OfficeLocks(S) : w[1][1] = "office"
    /\ \A S : \A w \in ItemLocks(S) : w[1][1] = "item"
    /\ \A w \in LinkLocks : w[1][1] = "link"
BY DEF PersonLocks, RecipientLocks, OfficeLocks, ItemLocks, LinkLocks, Lock, StaffRow, OfficeRow, ItemRow, LinkRow

LEMMA PersonLockShape ==
    ASSUME NEW t
    PROVE  \A w \in PersonLock(t) :
              /\ w[1][1] = "staff"
              /\ w[2] = "update" => op[t].kind = "remove" /\ w[1] = StaffRow(op[t].p)
              /\ op[t].kind = "remove" => w[2] = "update"
              /\ op[t].kind = "replace" => w[2] = "share"
              /\ w[2] # "key_share"
BY DEF PersonLock, Lock, StaffRow

LEMMA EndFine ==
    ASSUME TInv, NEW t \in Tx, End(t)
    PROVE  Fine(t)'
<1>1. pc'[t] \in {"idle", "ended"} /\ op'[t] = NoOp /\ want'[t] = {} /\ held'[t] = {}
  BY DEF End, TInv, TypeOK
<1>2. op'[t].kind = "none"
  BY <1>1 DEF NoOp
<1> QED BY <1>1, <1>2 DEF Fine, Named, Wanting, Holding

LEMMA BeginFacts ==
    ASSUME TInv, NEW t \in Tx, NEW o, NEW phase, NEW locks, Begin(t, o, phase, locks), Fine(t)
    PROVE  pc'[t] = phase /\ op'[t] = o /\ want'[t] = locks /\ held'[t] = {}
<1>1. held[t] = {}
  BY DEF Begin, Fine, Holding
<1> QED BY <1>1 DEF Begin, TInv, TypeOK

\* A request that begins: what it may name, what it asks for.
LEMMA BeginFine ==
    ASSUME TInv, NEW t \in Tx, NEW o, NEW phase, NEW locks, Begin(t, o, phase, locks), Fine(t),
           \/ /\ o.kind \in {"send", "answer"} /\ phase = "persons"
              /\ \A w \in locks : w[1][1] = "staff" /\ w[2] = "key_share"
           \/ /\ o.kind = "remove" /\ phase = "persons" /\ o.p \in Removable
              /\ locks = {Lock(StaffRow(o.p), "update")}
           \/ /\ o.kind = "appoint" /\ phase = "persons"
              /\ \E mode \in {"share", "no_key_update"} : locks = {Lock(StaffRow(o.p), mode)}
           \/ /\ o.kind \in {"revoke", "replace"} /\ phase = "offices"
              /\ <<o.p, o.office>> \in Revocable
              /\ o.kind = "replace" =>
                    /\ o.office = "teacher" /\ o.next # o.p
                    /\ <<o.next, "teacher">> \in Appointable
              /\ locks = OfficeLocks({<<o.p, o.office>>})
           \/ o.kind \in {"send", "unlink"} /\ phase = "link" /\ locks = LinkLocks
    PROVE  Fine(t)'
<1>1. pc'[t] = phase /\ op'[t] = o /\ want'[t] = locks /\ held'[t] = {}
  BY BeginFacts
<1>2. Named(t)'
  BY <1>1 DEF Named
<1>3. Holding(t)'
  BY <1>1 DEF Holding
<1>4. phase \in {"persons", "offices", "link"}
  OBVIOUS
<1>5. CASE phase = "persons"
  <2>1. (/\ o.kind \in {"send", "answer", "remove", "appoint", "replace"}
         /\ o.kind \notin {"send", "answer"} => locks \subseteq PersonLock(t)' /\ \A v, w \in locks : v = w)
    BY <1>1, <1>5 DEF PersonLock
  <2>2. WantPersons(t)'
    BY <1>1, <1>5, <2>1 DEF WantPersons, HoldsNo
  <2> QED BY <1>1, <1>2, <1>3, <1>5, <2>2 DEF Fine, Wanting
<1>6. CASE phase = "offices"
  <2>1. WantOffices(t)'
    BY <1>1, <1>6 DEF WantOffices, Losing, OfficeLocks
  <2> QED BY <1>1, <1>2, <1>3, <1>6, <2>1 DEF Fine, Wanting
<1>7. CASE phase = "link"
  <2>1. WantLink(t)'
    BY <1>1, <1>7 DEF WantLink, HoldsNo, LinkLocks
  <2> QED BY <1>1, <1>2, <1>3, <1>7, <2>1 DEF Fine, Wanting
<1> QED BY <1>4, <1>5, <1>6, <1>7

LEMMA TakeLockFine ==
    ASSUME TInv, NEW t \in Tx, TakeLock(t), Fine(t)
    PROVE  Fine(t)'
<1>1. PICK w \in want[t] : /\ InTurn(t, w)
                           /\ want' = [want EXCEPT ![t] = @ \ {w}]
                           /\ held' = [held EXCEPT ![t] = @ \union {w}]
                           /\ UNCHANGED <<pc, op>>
  BY DEF TakeLock
<1>2. held'[t] = held[t] \union {w} /\ want'[t] = want[t] \ {w} /\ pc'[t] = pc[t] /\ op'[t] = op[t]
  BY <1>1 DEF TInv, TypeOK
<1>3. pc[t] \in {"persons", "offices", "link", "items"} /\ Wanting(t) /\ Holding(t)
  BY <1>1 DEF Fine, Wanting
<1>4. Named(t)'
  BY <1>2 DEF Fine, Named
<1>5. PersonLock(t)' = PersonLock(t)
  BY <1>2 DEF PersonLock
<1>6. ASSUME NEW v \in held[t]
      PROVE  /\ pc'[t] \in Phase \ {"idle", "ended"}
             /\ v[1][1] = "staff" => HeldPerson(t, v)'
             /\ v[1][1] = "office" => HeldOffice(t, v)'
             /\ v[1][1] = "link" => HeldLink(t)'
             /\ v[1][1] = "item" => HeldItem(t)'
  BY <1>2, <1>3 DEF Holding, HeldPerson, HeldOffice, HeldLink, HeldItem
<1>7. CASE pc[t] = "persons"
  <2>1. WantPersons(t)
    BY <1>3, <1>7 DEF Wanting
  <2>2. w[1][1] = "staff" /\ HeldPerson(t, w)'
    <3>1. CASE op[t].kind \in {"send", "answer"}
      BY <1>2, <1>7, <2>1, <3>1 DEF WantPersons, HeldPerson
    <3>2. CASE op[t].kind \notin {"send", "answer"}
      <4>1. w \in PersonLock(t)
        BY <2>1, <3>2 DEF WantPersons
      <4>2. op[t].kind \in {"remove", "appoint", "replace"}
        BY <2>1, <3>2 DEF WantPersons
      <4>3. CASE op[t].kind = "remove"
        BY <1>2, <4>1, <4>3, PersonLockShape DEF HeldPerson
      <4>4. CASE op[t].kind = "replace"
        BY <1>2, <1>7, <4>1, <4>4, PersonLockShape DEF HeldPerson
      <4>5. CASE op[t].kind = "appoint"
        BY <1>2, <1>7, <4>1, <4>5, PersonLockShape DEF HeldPerson
      <4> QED BY <4>2, <4>3, <4>4, <4>5
    <3> QED BY <3>1, <3>2
  <2>3. WantPersons(t)'
    <3>1. op[t].kind \notin {"send", "answer"} => want'[t] = {}
      BY <1>2, <2>1 DEF WantPersons
    <3> QED BY <1>2, <1>5, <2>1, <3>1 DEF WantPersons
  <2>4. Holding(t)'
    BY <1>2, <1>6, <1>7, <2>2 DEF Holding, Phase
  <2> QED BY <1>2, <1>4, <1>7, <2>3, <2>4 DEF Fine, Wanting
<1>8. CASE pc[t] = "offices"
  <2>1. WantOffices(t)
    BY <1>3, <1>8 DEF Wanting
  <2>2. w[1][1] = "office" /\ HeldOffice(t, w)'
    <3>1. CASE op[t].kind = "remove"
      <4>1. PICK o \in Office : w = Lock(OfficeRow(<<op[t].p, o>>), "no_key_update")
        BY <2>1, <3>1 DEF WantOffices, OfficeLocks
      <4>2. w[1] = OfficeRow(<<op[t].p, o>>)
        BY <4>1 DEF Lock
      <4>3. w[1][1] = "office"
        BY <4>2 DEF OfficeRow
      <4>4. \E oo \in Office : w[1] = OfficeRow(<<op'[t].p, oo>>)
        BY <1>2, <4>2
      <4> QED BY <1>2, <1>8, <3>1, <4>3, <4>4 DEF HeldOffice, Losing
    <3>2. CASE op[t].kind # "remove"
      <4>1. w = Lock(OfficeRow(<<op[t].p, op[t].office>>), "no_key_update")
        BY <2>1, <3>2 DEF WantOffices, OfficeLocks
      <4>2. w[1] = OfficeRow(<<op[t].p, op[t].office>>)
        BY <4>1 DEF Lock
      <4>3. w[1][1] = "office"
        BY <4>2 DEF OfficeRow
      <4> QED BY <1>2, <1>8, <2>1, <3>2, <4>2, <4>3 DEF HeldOffice, WantOffices
    <3> QED BY <3>1, <3>2
  <2>3. WantOffices(t)'
    <3>1. op[t].kind # "remove" => want'[t] = {}
      BY <1>2, <2>1 DEF WantOffices, OfficeLocks
    <3> QED BY <1>2, <2>1, <3>1 DEF WantOffices, OfficeLocks
  <2>4. Holding(t)'
    BY <1>2, <1>6, <1>8, <2>2 DEF Holding, Phase
  <2> QED BY <1>2, <1>4, <1>8, <2>3, <2>4 DEF Fine, Wanting
<1>9. CASE pc[t] = "link"
  <2>1. WantLink(t)
    BY <1>3, <1>9 DEF Wanting
  <2>2. w[1][1] = "link" /\ HeldLink(t)' /\ want'[t] = {}
    BY <1>2, <1>9, <2>1, LockShapes DEF WantLink, HeldLink, LinkLocks
  <2>3. WantLink(t)'
    BY <1>2, <2>1, <2>2 DEF WantLink, LinkLocks
  <2>4. Holding(t)'
    BY <1>2, <1>6, <1>9, <2>2 DEF Holding, Phase
  <2> QED BY <1>2, <1>4, <1>9, <2>3, <2>4 DEF Fine, Wanting
<1>10. CASE pc[t] = "items"
  <2>1. WantItems(t)
    BY <1>3, <1>10 DEF Wanting
  <2>2. w[1][1] = "item" /\ HeldItem(t)'
    BY <1>2, <1>10, <2>1, LockShapes DEF WantItems, HeldItem
  <2>3. ASSUME NEW v \in want'[t] PROVE w[1][2] < v[1][2]
    <3>1. PICK m \in Message : w = Lock(ItemRow(m), "no_key_update")
      BY <2>1 DEF WantItems, ItemLocks
    <3>2. v \in want[t] /\ v # w
      BY <1>2
    <3>3. PICK n \in Message : v = Lock(ItemRow(n), "no_key_update")
      BY <2>1, <3>2 DEF WantItems, ItemLocks
    <3>4. w[1][2] = m /\ v[1][2] = n
      BY <3>1, <3>3 DEF Lock, ItemRow
    <3>5. m <= n
      BY <1>1, <3>2, <3>4 DEF InTurn
    <3>6. m # n
      BY <3>1, <3>2, <3>3
    <3> QED BY <3>4, <3>5, <3>6 DEF Message
  <2>4. op[t].kind = "answer" => want'[t] = {}
    BY <1>2, <2>1 DEF WantItems
  <2>5. WantItems(t)'
    <3>1. \A x \in want'[t], v \in held'[t] : v[1][1] = "item" => v[1][2] < x[1][2]
      BY <1>2, <2>1, <2>3 DEF WantItems
    <3>2. want'[t] \subseteq ItemLocks(Message)
      BY <1>2, <2>1 DEF WantItems
    <3> QED BY <1>2, <2>1, <2>4, <3>1, <3>2 DEF WantItems, ItemLocks
  <2>6. Holding(t)'
    BY <1>2, <1>6, <1>10, <2>2 DEF Holding, Phase
  <2> QED BY <1>2, <1>4, <1>10, <2>5, <2>6 DEF Fine, Wanting
<1> QED BY <1>3, <1>7, <1>8, <1>9, <1>10

\* The next phase: what is held stays, and what is asked for next fits.
LEMMA ThenFine ==
    ASSUME TInv, NEW t \in Tx, NEW phase, NEW locks, Then(t, phase, locks), want[t] = {}, Fine(t),
           \/ /\ phase = "link" /\ pc[t] = "persons" /\ op[t].kind = "send" /\ locks = LinkLocks
           \/ /\ phase = "items" /\ pc[t] = "persons" /\ op[t].kind = "answer"
              /\ \E m \in Message : locks = ItemLocks({m})
           \/ /\ phase = "items" /\ pc[t] = "candidates" /\ op[t].kind \in Losing
              /\ locks \subseteq ItemLocks(Message)
           \/ /\ phase = "offices" /\ pc[t] = "persons" /\ op[t].kind = "remove"
              /\ locks \subseteq OfficeLocks({op[t].p} \X Office)
           \/ /\ phase = "persons" /\ pc[t] = "offices" /\ op[t].kind = "replace"
              /\ locks = PersonLocks({op[t].next}, "share")
    PROVE  Fine(t)'
<1>1. pc'[t] = phase /\ want'[t] = locks /\ held'[t] = held[t] /\ op'[t] = op[t]
  BY ThenFacts
<1>2. Named(t)' /\ Holding(t) /\ pc[t] \in {"persons", "candidates", "offices"}
  BY <1>1 DEF Fine, Named
<1>3. ASSUME NEW w \in held[t]
      PROVE  /\ w[1][1] = "staff" => HeldPerson(t, w)'
             /\ w[1][1] = "office" => HeldOffice(t, w)'
             /\ w[1][1] # "link" /\ w[1][1] # "item"
  <2>1. w[1][1] # "link" /\ w[1][1] # "item"
    BY <1>2 DEF Holding, HeldLink, HeldItem
  <2>2. w[1][1] = "staff" => HeldPerson(t, w)'
    BY <1>1, <1>2 DEF Holding, HeldPerson
  <2>3. w[1][1] = "office" => HeldOffice(t, w)'
    BY <1>1, <1>2 DEF Holding, HeldOffice, Losing
  <2> QED BY <2>1, <2>2, <2>3
<1>4. Holding(t)'
  BY <1>1, <1>2, <1>3 DEF Holding, Phase
<1>5. CASE phase = "link"
  <2>1. WantLink(t)'
    BY <1>1, <1>3, <1>5 DEF WantLink, HoldsNo, LinkLocks
  <2> QED BY <1>1, <1>2, <1>4, <1>5, <2>1 DEF Fine, Wanting
<1>6. CASE phase = "items" /\ pc[t] = "persons"
  <2>1. PICK m \in Message : locks = ItemLocks({m})
    BY <1>6
  <2>2. op[t].kind = "answer" /\ locks \subseteq ItemLocks(Message) /\ \A v, w \in locks : v = w
    BY <1>6, <2>1 DEF ItemLocks
  <2>3. WantItems(t)'
    BY <1>1, <1>3, <2>2 DEF WantItems, HoldsNo, ItemLocks
  <2> QED BY <1>1, <1>2, <1>4, <1>6, <2>3 DEF Fine, Wanting
<1>7. CASE phase = "items" /\ pc[t] = "candidates"
  <2>1. op[t].kind \in Losing /\ locks \subseteq ItemLocks(Message)
    BY <1>7
  <2>2. WantItems(t)'
    BY <1>1, <1>3, <2>1 DEF WantItems, ItemLocks, Losing
  <2> QED BY <1>1, <1>2, <1>4, <1>7, <2>2 DEF Fine, Wanting
<1>8. CASE phase = "offices"
  <2>1. op[t].kind = "remove" /\ locks \subseteq OfficeLocks({op[t].p} \X Office)
    BY <1>8
  <2>2. WantOffices(t)'
    BY <1>1, <2>1 DEF WantOffices, OfficeLocks, Losing
  <2> QED BY <1>1, <1>2, <1>4, <1>8, <2>2 DEF Fine, Wanting
<1>9. CASE phase = "persons"
  <2>1. op[t].kind = "replace" /\ pc[t] = "offices" /\ locks = {Lock(StaffRow(op[t].next), "share")}
    BY <1>9 DEF PersonLocks
  <2>2. HoldsNo(t, "staff")'
    <3>1. ASSUME NEW w \in held[t], w[1][1] = "staff" PROVE FALSE
      BY <1>2, <2>1, <3>1 DEF Holding, HeldPerson
    <3> QED BY <1>1, <3>1 DEF HoldsNo
  <2>3. PersonLock(t)' = locks
    BY <1>1, <2>1 DEF PersonLock
  <2>4. WantPersons(t)'
    BY <1>1, <2>1, <2>2, <2>3 DEF WantPersons
  <2> QED BY <1>1, <1>2, <1>4, <1>9, <2>4 DEF Fine, Wanting
<1> QED BY <1>5, <1>6, <1>7, <1>8, <1>9

LEMMA WriteFine ==
    ASSUME TInv, NEW t \in Tx, NEW w, Write(t, w), want[t] = {}, pc[t] # "offices", Fine(t),
           pc[t] \notin {"idle", "ended"}
    PROVE  Fine(t)'
<1>1. pc'[t] = "write" /\ want'[t] = {} /\ held'[t] = held[t] /\ op'[t] = op[t]
  BY DEF Write, TInv, TypeOK
<1>2. Holding(t)'
  BY <1>1 DEF Fine, Holding, HeldPerson, HeldOffice, HeldLink, HeldItem, Phase
<1> QED BY <1>1, <1>2 DEF Fine, Named, Wanting

LEMMA SendsFine ==
    ASSUME TInv, NEW t \in Tx, Sends(t), Fine(t)
    PROVE  Fine(t)'
<1>1. CASE BeginSend(t)
  <2>1. PICK office \in Office, form \in Form : \E wanted \in Wanted(office) :
          Begin(t, [NoOp EXCEPT !.kind = "send", !.office = office, !.form = form, !.to = wanted],
                "persons", RecipientLocks(wanted))
    BY <1>1 DEF BeginSend
  <2>2. PICK wanted \in Wanted(office) :
          Begin(t, [NoOp EXCEPT !.kind = "send", !.office = office, !.form = form, !.to = wanted],
                "persons", RecipientLocks(wanted))
    BY <2>1
  <2> DEFINE o == [NoOp EXCEPT !.kind = "send", !.office = office, !.form = form, !.to = wanted]
  <2>3. o.kind = "send" /\ Begin(t, o, "persons", RecipientLocks(wanted))
    BY <2>2 DEF NoOp
  <2>4. \A w \in RecipientLocks(wanted) : w[1][1] = "staff" /\ w[2] = "key_share"
    BY LockShapes
  <2> HIDE DEF o
  <2> QED BY <2>3, <2>4, BeginFine
<1>2. CASE SendLocksLink(t)
  BY <1>2, ThenFine DEF SendLocksLink, At
<1>3. CASE SendReplays(t)
  BY <1>3, EndFine DEF SendReplays
<1>4. CASE SendWrites(t)
  BY <1>4, WriteFine DEF SendWrites, At
<1>5. CASE UnlinkGuardian(t)
  <2> DEFINE o == [NoOp EXCEPT !.kind = "unlink"]
  <2>1. o.kind = "unlink" /\ Begin(t, o, "link", LinkLocks)
    BY <1>5 DEF UnlinkGuardian, LinkLocks, NoOp
  <2> HIDE DEF o
  <2> QED BY <2>1, BeginFine
<1>6. CASE UnlinkWrites(t)
  BY <1>6, WriteFine DEF UnlinkWrites, At
<1> QED BY <1>1, <1>2, <1>3, <1>4, <1>5, <1>6 DEF Sends

LEMMA AnswersFine ==
    ASSUME TInv, NEW t \in Tx, Answers(t), Fine(t)
    PROVE  Fine(t)'
<1>1. CASE BeginAnswer(t)
  <2>0. PICK m \in Message : \E p :
          Begin(t, [NoOp EXCEPT !.kind = "answer", !.p = p, !.m = m],
                "persons", PersonLocks(msg[m].assignees, "key_share"))
    BY <1>1 DEF BeginAnswer
  <2>1. PICK p :
          Begin(t, [NoOp EXCEPT !.kind = "answer", !.p = p, !.m = m],
                "persons", PersonLocks(msg[m].assignees, "key_share"))
    BY <2>0
  <2> DEFINE o == [NoOp EXCEPT !.kind = "answer", !.p = p, !.m = m]
  <2>2. o.kind = "answer" /\ Begin(t, o, "persons", PersonLocks(msg[m].assignees, "key_share"))
    BY <2>1 DEF NoOp
  <2>3. \A w \in PersonLocks(msg[m].assignees, "key_share") : w[1][1] = "staff" /\ w[2] = "key_share"
    BY LockShapes
  <2> HIDE DEF o
  <2> QED BY <2>2, <2>3, BeginFine
<1>2. CASE AnswerLocksItem(t)
  <2>1. /\ op[t].kind = "answer" /\ pc[t] = "persons" /\ want[t] = {}
        /\ Then(t, "items", ItemLocks({op[t].m}))
    BY <1>2 DEF AnswerLocksItem, At, AnswerLocks
  <2>2. op[t].m \in Message
    BY <2>1 DEF TInv, Fits
  <2> QED BY <2>1, <2>2, ThenFine
<1>3. CASE AnswerWrites(t)
  BY <1>3, WriteFine DEF AnswerWrites, At
<1> QED BY <1>1, <1>2, <1>3 DEF Answers

LEMMA AppointsFine ==
    ASSUME TInv, NEW t \in Tx, Appoints(t), Fine(t)
    PROVE  Fine(t)'
<1>1. CASE BeginAppoint(t)
  <2>1. PICK pair \in Appointable :
          Begin(t, [NoOp EXCEPT !.kind = "appoint", !.p = pair[1], !.office = pair[2]],
                "persons", PersonLocks({pair[1]}, IF pair[2] = "teacher" THEN "share" ELSE "no_key_update"))
    BY <1>1 DEF BeginAppoint
  <2> DEFINE o == [NoOp EXCEPT !.kind = "appoint", !.p = pair[1], !.office = pair[2]]
             mode == IF pair[2] = "teacher" THEN "share" ELSE "no_key_update"
  <2>2. o.kind = "appoint" /\ o.p = pair[1] /\ Begin(t, o, "persons", PersonLocks({pair[1]}, mode))
    BY <2>1 DEF NoOp
  <2>3. mode \in {"share", "no_key_update"}
    OBVIOUS
  <2> HIDE DEF o, mode
  <2>4. PersonLocks({pair[1]}, mode) = {Lock(StaffRow(o.p), mode)}
    BY <2>2 DEF PersonLocks
  <2> QED BY <2>2, <2>3, <2>4, BeginFine
<1>2. CASE AppointWrites(t)
  BY <1>2, WriteFine DEF AppointWrites, At
<1> QED BY <1>1, <1>2 DEF Appoints

LEMMA LossesFine ==
    ASSUME TInv, NEW t \in Tx, Losses(t), Fine(t)
    PROVE  Fine(t)'
<1>1. CASE BeginRemove(t)
  <2>1. PICK p \in Removable :
          Begin(t, [NoOp EXCEPT !.kind = "remove", !.p = p], "persons", {Lock(StaffRow(p), "update")})
    BY <1>1 DEF BeginRemove
  <2> DEFINE o == [NoOp EXCEPT !.kind = "remove", !.p = p]
  <2>2. o.kind = "remove" /\ o.p = p
    BY DEF NoOp
  <2>3. Begin(t, o, "persons", {Lock(StaffRow(o.p), "update")})
    BY <2>1, <2>2
  <2> HIDE DEF o
  <2> QED BY <2>2, <2>3, BeginFine
<1>2. CASE RemoveEndsOffices(t)
  <2>1. /\ op[t].kind = "remove" /\ pc[t] = "persons" /\ want[t] = {}
        /\ Then(t, "offices", OfficeLocks(Ends(t) \intersect holds))
    BY <1>2 DEF RemoveEndsOffices, At
  <2>2. OfficeLocks(Ends(t) \intersect holds) \subseteq OfficeLocks({op[t].p} \X Office)
    BY <2>1 DEF OfficeLocks, Ends
  <2> QED BY <2>1, <2>2, ThenFine
<1>3. CASE BeginRevoke(t)
  <2>1. PICK pair \in Revocable :
          Begin(t, [NoOp EXCEPT !.kind = "revoke", !.p = pair[1], !.office = pair[2]],
                "offices", OfficeLocks({pair}))
    BY <1>3 DEF BeginRevoke
  <2>2. pair \in Staff \X Office
    BY MessagesAssumption
  <2> DEFINE o == [NoOp EXCEPT !.kind = "revoke", !.p = pair[1], !.office = pair[2]]
  <2>3. o.kind = "revoke" /\ <<o.p, o.office>> = pair
    BY <2>2 DEF NoOp
  <2>4. Begin(t, o, "offices", OfficeLocks({<<o.p, o.office>>}))
    BY <2>1, <2>3
  <2> HIDE DEF o
  <2> QED BY <2>3, <2>4, BeginFine
<1>4. CASE BeginReplace(t)
  <2>1. PICK p \in Staff, next \in Staff :
          /\ p # next /\ <<p, "teacher">> \in Revocable /\ <<next, "teacher">> \in Appointable
          /\ Begin(t, [NoOp EXCEPT !.kind = "replace", !.p = p, !.next = next, !.office = "teacher"],
                   "offices", OfficeLocks({<<p, "teacher">>}))
    BY <1>4 DEF BeginReplace
  <2> DEFINE o == [NoOp EXCEPT !.kind = "replace", !.p = p, !.next = next, !.office = "teacher"]
  <2>2. o.kind = "replace" /\ o.p = p /\ o.next = next /\ o.office = "teacher"
    BY DEF NoOp
  <2>3. Begin(t, o, "offices", OfficeLocks({<<o.p, o.office>>}))
    BY <2>1, <2>2
  <2> HIDE DEF o
  <2> QED BY <2>1, <2>2, <2>3, BeginFine
<1>5. CASE ReplaceLocksNext(t)
  BY <1>5, ThenFine DEF ReplaceLocksNext, At
<1>6. CASE PlansMessages(t)
  <2>1. /\ op[t].kind \in Losing /\ want[t] = {} /\ pc[t] \in {"persons", "offices"}
        /\ pc[t] = "persons" => op[t].kind = "replace"
        /\ pc' = [pc EXCEPT ![t] = "plan"] /\ UNCHANGED <<op, want, held>>
    BY <1>6 DEF PlansMessages, At, Losing
  <2>2. pc'[t] = "plan" /\ op'[t] = op[t] /\ want'[t] = {} /\ held'[t] = held[t]
    BY <2>1 DEF TInv, TypeOK
  <2>3. Holding(t)'
    BY <2>1, <2>2 DEF Fine, Holding, HeldPerson, HeldOffice, HeldLink, HeldItem, Phase
  <2> QED BY <2>1, <2>2, <2>3 DEF Fine, Named, Wanting
<1>7. CASE TakesCandidates(t)
  <2> DEFINE got == {w \in Candidates(t) \ Awaited(t) : Free(t, w)}
  <2>1. /\ pc[t] = "plan" /\ pc' = [pc EXCEPT ![t] = "candidates"]
        /\ held' = [held EXCEPT ![t] = @ \union got]
        /\ want' = [want EXCEPT ![t] = {}] /\ op' = op
    BY <1>7 DEF TakesCandidates, Awaited
  <2>2. \A w \in got : w[1][1] = "staff" /\ w[2] = "key_share"
    BY LockShapes DEF Candidates
  <2> HIDE DEF got
  <2>3. pc'[t] = "candidates" /\ op'[t] = op[t] /\ want'[t] = {} /\ held'[t] = held[t] \union got
    BY <2>1 DEF TInv, TypeOK
  <2>4. op[t].kind \in Losing
    BY <2>1 DEF Fine, Wanting
  <2>5. \A w \in held[t] :
          /\ w[1][1] = "staff" => HeldPerson(t, w)'
          /\ w[1][1] = "office" => HeldOffice(t, w)'
          /\ w[1][1] # "link" /\ w[1][1] # "item"
    BY <2>1, <2>3 DEF Fine, Holding, HeldPerson, HeldOffice, HeldLink, HeldItem
  <2>6. \A w \in got : HeldPerson(t, w)'
    BY <2>2, <2>3 DEF HeldPerson
  <2>7. Holding(t)'
    BY <2>2, <2>3, <2>5, <2>6 DEF Holding, Phase
  <2> QED BY <2>3, <2>4, <2>7 DEF Fine, Named, Wanting
<1>8. CASE LocksItems(t)
  <2> DEFINE locks == ItemLocks(IF op[t].kind = "remove" THEN Routes(op[t].p) ELSE Planned(t))
  <2>1. /\ op[t].kind \in Losing /\ pc[t] = "candidates" /\ want[t] = {} /\ Then(t, "items", locks)
    BY <1>8 DEF LocksItems, At, Losing
  <2>2. locks \subseteq ItemLocks(Message)
    BY DEF ItemLocks, Routes, Planned, TInv, TypeOK, Plan
  <2> HIDE DEF locks
  <2> QED BY <2>1, <2>2, ThenFine
<1>9. CASE LossWrites(t)
  BY <1>9, WriteFine DEF LossWrites, At
<1> QED BY <1>1, <1>2, <1>3, <1>4, <1>5, <1>6, <1>7, <1>8, <1>9 DEF Losses

LEMMA OthersFine ==
    ASSUME NEW u \in Tx, Fine(u),
           pc'[u] = pc[u], op'[u] = op[u], want'[u] = want[u], held'[u] = held[u]
    PROVE  Fine(u)'
<1>1. Named(u)'
  BY DEF Fine, Named
<1>2. Wanting(u)'
  <2>1. PersonLock(u)' = PersonLock(u)
    BY DEF PersonLock
  <2>2. WantPersons(u) => WantPersons(u)'
    BY <2>1 DEF WantPersons, HoldsNo
  <2>3. WantOffices(u) => WantOffices(u)'
    BY DEF WantOffices, OfficeLocks
  <2>4. WantLink(u) => WantLink(u)'
    BY DEF WantLink, LinkLocks, HoldsNo
  <2>5. WantItems(u) => WantItems(u)'
    BY DEF WantItems, ItemLocks, HoldsNo
  <2> QED BY <2>2, <2>3, <2>4, <2>5 DEF Fine, Wanting
<1>3. Holding(u)'
  BY DEF Fine, Holding, HeldPerson, HeldOffice, HeldLink, HeldItem
<1> QED BY <1>1, <1>2, <1>3 DEF Fine

LEMMA WaitsStep == TInv /\ WInv /\ [Next]_vars => WInv'
<1> SUFFICES ASSUME TInv, WInv, [Next]_vars PROVE WInv'
  OBVIOUS
<1>1. ASSUME NEW t \in Tx,
             Sends(t) \/ Answers(t) \/ Losses(t) \/ Appoints(t) \/ TakeLock(t) \/ Abort(t)
      PROVE  WInv'
  <2>1. Fine(t)'
    BY <1>1, SendsFine, AnswersFine, LossesFine, AppointsFine, TakeLockFine, EndFine DEF WInv, Abort
  <2>2. \A u \in Tx \ {t} : Fine(u)'
    BY <1>1, ActsLocally, OthersFine DEF WInv, LocalStep
  <2> QED BY <2>1, <2>2 DEF WInv
<1>2. ASSUME NEW t \in Tx, Commit(t) PROVE WInv'
  <2>1. Fine(t)'
    BY <1>2, EndFine DEF Commit
  <2>2. \A u \in Tx \ {t} : Fine(u)'
    BY <1>2, OthersFine DEF WInv, Commit, End, TInv, TypeOK
  <2> QED BY <2>1, <2>2 DEF WInv
<1>3. CASE UNCHANGED <<pc, op, want, held>>
  BY <1>3, OthersFine DEF WInv
<1>4. ASSUME NEW m \in Message, Ages(m) PROVE UNCHANGED <<pc, op, want, held>>
  BY <1>4 DEF Ages
<1> QED BY <1>1, <1>2, <1>3, <1>4 DEF Next, vars

LEMMA InitWaits == Init => WInv
BY DEF Init, WInv, Fine, Named, NoOp, Wanting, Holding

-----------------------------------------------------------------------------
(* Every wait leads upwards.                                               *)

\* Removable colleagues who may both be given the teaching and have it ended.
Passing ==
    {p \in Removable : <<p, "teacher">> \in Appointable \intersect Revocable}
Apart == \A p, q \in Passing : p = q

Top == NMessage + 9
NextItem(t) == CHOOSE m \in Message : \E w \in want[t] : w[1][2] = m /\ InTurn(t, w)

PersonsLevel(t) ==
    CASE op[t].kind = "remove" -> 0
      [] op[t].kind = "replace" -> IF op[t].p \in Passing THEN 5 ELSE 3
      [] OTHER -> 1
OfficesLevel(t) ==
    IF op[t].kind # "remove" THEN 1
    ELSE IF op[t].p \in Passing THEN 4
    ELSE IF <<op[t].p, "teacher">> \in Revocable THEN 2
    ELSE 6
WaitLevel(t) ==
    CASE want[t] = {} -> Top
      [] want[t] # {} /\ pc[t] = "persons" -> PersonsLevel(t)
      [] want[t] # {} /\ pc[t] = "offices" -> OfficesLevel(t)
      [] want[t] # {} /\ pc[t] = "link" -> 7
      [] OTHER -> NextItem(t) + 8

\* A set of naturals has a least one.
LEMMA LeastNatural ==
    ASSUME NEW T \in SUBSET Nat, T # {}
    PROVE  \E x \in T : \A y \in T : x <= y
<1> DEFINE R == {ss \in Nat \X Nat : ss[1] < ss[2]}
<1>1. IsWellFoundedOn(R, Nat)
  BY NatLessThanWellFounded DEF OpToRel
<1>2. PICK x \in T : \A y \in T : ~(<<y, x>> \in R)
  <2> HIDE DEF R
  <2> QED BY <1>1, WFMin
<1>3. ASSUME NEW y \in T PROVE x <= y
  <2>1. ~(<<y, x>> \in R) /\ x \in Nat /\ y \in Nat
    BY <1>2
  <2> QED BY <2>1
<1> QED BY <1>3

LEMMA NextItemFacts ==
    ASSUME WInv, NEW t \in Tx, pc[t] = "items", want[t] # {}
    PROVE  /\ NextItem(t) \in Message
           /\ \A w \in want[t] : NextItem(t) <= w[1][2]
           /\ \E w \in want[t] : w[1][2] = NextItem(t)
<1> DEFINE Nexts == {w[1][2] : w \in want[t]}
<1>1. \A w \in want[t] : w[1][2] \in Message
  <2>1. want[t] \subseteq ItemLocks(Message)
    BY DEF WInv, Fine, Wanting, WantItems
  <2> QED BY <2>1 DEF ItemLocks, Lock, ItemRow
<1>2. Nexts \in SUBSET Nat /\ Nexts # {}
  BY <1>1 DEF Message
<1>3. \E m \in Nexts : \A n \in Nexts : m <= n
  <2> HIDE DEF Nexts
  <2> QED BY <1>2, LeastNatural
<1>4. \E m \in Message : \E w \in want[t] : w[1][2] = m /\ InTurn(t, w)
  BY <1>1, <1>3 DEF InTurn
<1>5. NextItem(t) \in Message /\ \E w \in want[t] : w[1][2] = NextItem(t) /\ InTurn(t, w)
  BY <1>4 DEF NextItem
<1> QED BY <1>5 DEF InTurn

LEMMA LevelType ==
    ASSUME WInv, NEW t \in Tx
    PROVE  /\ WaitLevel(t) \in Nat /\ WaitLevel(t) <= Top /\ Top \in Nat /\ Top >= 9
           /\ (want[t] # {} /\ pc[t] = "items") => WaitLevel(t) = NextItem(t) + 8 /\ WaitLevel(t) >= 9
           /\ want[t] = {} => WaitLevel(t) = Top
           /\ want[t] # {} => pc[t] \in {"persons", "offices", "link", "items"}
<1>1. want[t] # {} => pc[t] \in {"persons", "offices", "link", "items"}
  BY DEF WInv, Fine, Wanting
<1>2. Top \in Nat /\ Top >= 9
  BY MessagesAssumption DEF Top
<1>3. CASE want[t] = {}
  BY <1>2, <1>3 DEF WaitLevel
<1>4. CASE want[t] # {} /\ pc[t] = "persons"
  <2>1. PersonsLevel(t) \in 0 .. 5
    BY DEF PersonsLevel
  <2> QED BY <1>2, <1>4, <2>1 DEF WaitLevel
<1>5. CASE want[t] # {} /\ pc[t] = "offices"
  <2>1. OfficesLevel(t) \in 0 .. 6
    BY DEF OfficesLevel
  <2> QED BY <1>2, <1>5, <2>1 DEF WaitLevel
<1>6. CASE want[t] # {} /\ pc[t] = "link"
  BY <1>2, <1>6 DEF WaitLevel
<1>7. CASE want[t] # {} /\ pc[t] = "items"
  <2>1. NextItem(t) \in Message
    BY <1>7, NextItemFacts
  <2>2. WaitLevel(t) = NextItem(t) + 8
    BY <1>7 DEF WaitLevel
  <2> QED BY <1>2, <1>7, <2>1, <2>2, MessagesAssumption DEF Message, Top
<1> QED BY <1>1, <1>2, <1>3, <1>4, <1>5, <1>6, <1>7

\* An office is held by the request that ends it.
LEMMA OfficeHolders ==
    ASSUME TInv, WInv, NEW u \in Tx, NEW w \in held[u], NEW p \in Staff, NEW o \in Office,
           w[1] = OfficeRow(<<p, o>>)
    PROVE  /\ op[u].kind \in Losing /\ op[u].p = p
           /\ op[u].kind # "remove" => op[u].office = o
           /\ op[u].kind # "remove" /\ pc[u] = "offices" => want[u] = {}
           /\ pc[u] = "persons" => op[u].kind = "replace"
<1>1. w[1][1] = "office"
  BY DEF OfficeRow
<1>2. HeldOffice(u, w)
  BY <1>1 DEF WInv, Fine, Holding
<1>3. op[u].kind \in Losing /\ op[u].p \in Staff /\ op[u].office \in Office
  BY <1>2 DEF HeldOffice, TInv, TypeOK, Op, Fits, Losing
<1>4. PICK q \in Office : w[1] = OfficeRow(<<op[u].p, q>>) /\ (op[u].kind # "remove" => q = op[u].office)
  BY <1>2, <1>3 DEF HeldOffice
<1>5. 3 * p + OfficeRank(o) = 3 * op[u].p + OfficeRank(q)
  BY <1>4 DEF OfficeRow
<1>6. p = op[u].p /\ o = q
  <2>1. OfficeRank(o) \in 0 .. 2 /\ OfficeRank(q) \in 0 .. 2
    BY DEF OfficeRank
  <2>2. p \in Int /\ op[u].p \in Int
    BY <1>3 DEF Staff
  <2>3. p = op[u].p /\ OfficeRank(o) = OfficeRank(q)
    BY <1>5, <2>1, <2>2
  <2> QED BY <2>3 DEF OfficeRank, Office
<1>7. (op[u].kind # "remove" /\ pc[u] = "offices") => want[u] = {}
  BY DEF WInv, Fine, Wanting, WantOffices
<1> QED BY <1>2, <1>3, <1>4, <1>6, <1>7 DEF HeldOffice, Losing

\* Who holds a colleague's row waits at most for what comes after it.
LEMMA PersonHolders ==
    ASSUME WInv, NEW u \in Tx, NEW w \in held[u], w[1][1] = "staff", want[u] # {},
           pc[u] = "persons"
    PROVE  (op[u].kind \in {"send", "answer"} /\ w[2] = "key_share") \/ w[2] \notin Mode
<1>1. WantPersons(u) /\ HeldPerson(u, w)
  BY DEF WInv, Fine, Wanting, Holding
<1>2. op[u].kind \in {"send", "answer"}
  BY <1>1 DEF WantPersons, HoldsNo
<1> QED BY <1>1, <1>2 DEF HeldPerson, Mode

LEMMA PersonWaitsUpwards ==
    ASSUME TInv, WInv, Apart, NEW t \in Tx, NEW u \in Tx, NEW w \in want[t], NEW n \in ConflictsWith(w[2]),
           pc[t] = "persons", <<w[1], n>> \in held[u]
    PROVE  WaitLevel(u) > WaitLevel(t)
<1> DEFINE h == <<w[1], n>>
<1>1. n \in Mode /\ h \in held[u] /\ h[1] = w[1] /\ h[2] = n
  <2>1. w[2] \in Mode
    BY DEF TInv, TypeOK
  <2> QED BY <2>1 DEF ConflictsWith, Mode
<1>2. WantPersons(t)
  BY DEF WInv, Fine, Wanting
<1>3. w[1][1] = "staff"
  BY <1>2, PersonLockShape DEF WantPersons
<1>4. HeldPerson(u, h)
  BY <1>1, <1>3 DEF WInv, Fine, Holding
<1>5. WaitLevel(t) = PersonsLevel(t)
  BY DEF WaitLevel
<1>6. /\ want[u] = {} => WaitLevel(u) >= 9
      /\ want[u] # {} /\ pc[u] = "items" => WaitLevel(u) >= 9
      /\ want[u] # {} /\ pc[u] = "link" => WaitLevel(u) = 7
      /\ want[u] # {} /\ pc[u] = "offices" => WaitLevel(u) = OfficesLevel(u)
      /\ want[u] # {} /\ pc[u] = "persons" => WaitLevel(u) = PersonsLevel(u)
      /\ want[u] # {} => pc[u] \in {"persons", "offices", "link", "items"}
      /\ WaitLevel(u) \in Nat
  <2>1. /\ WaitLevel(u) \in Nat /\ Top \in Nat /\ Top >= 9
        /\ want[u] = {} => WaitLevel(u) = Top
        /\ (want[u] # {} /\ pc[u] = "items") => WaitLevel(u) >= 9
        /\ want[u] # {} => pc[u] \in {"persons", "offices", "link", "items"}
    BY LevelType
  <2>2. /\ want[u] # {} /\ pc[u] = "link" => WaitLevel(u) = 7
        /\ want[u] # {} /\ pc[u] = "offices" => WaitLevel(u) = OfficesLevel(u)
        /\ want[u] # {} /\ pc[u] = "persons" => WaitLevel(u) = PersonsLevel(u)
    BY DEF WaitLevel
  <2> QED BY <2>1, <2>2
<1>7. PersonsLevel(t) \in 0 .. 5
  BY DEF PersonsLevel
<1>8. CASE want[u] = {} \/ pc[u] \in {"items", "link"}
  BY <1>5, <1>6, <1>7, <1>8
<1>9. CASE want[u] # {} /\ pc[u] = "persons"
  <2>1. op[u].kind \in {"send", "answer"} /\ n = "key_share"
    BY <1>1, <1>3, <1>9, PersonHolders
  <2>2. w[2] = "update"
    <3>1. w[2] \in Mode
      BY DEF TInv, TypeOK
    <3> QED BY <2>1, <3>1 DEF ConflictsWith, Mode
  <2>3. op[t].kind = "remove"
    BY <1>2, <2>2, PersonLockShape DEF WantPersons
  <2>4. PersonsLevel(t) = 0 /\ PersonsLevel(u) = 1
    BY <2>1, <2>3 DEF PersonsLevel
  <2> QED BY <1>5, <1>6, <1>9, <2>4
<1>10. CASE want[u] # {} /\ pc[u] = "offices"
  <2>1. op[u].kind = "remove" /\ w[1] = StaffRow(op[u].p)
    BY <1>1, <1>4, <1>10 DEF HeldPerson
  <2>2. op[u].p \in Removable
    BY <2>1 DEF WInv, Fine, Named
  <2>3. CASE op[t].kind # "replace"
    BY <1>5, <1>6, <1>10, <2>1, <2>3 DEF PersonsLevel, OfficesLevel
  <2>4. CASE op[t].kind = "replace"
    <3>1. w[1] = StaffRow(op[t].next)
      BY <1>2, <2>4 DEF WantPersons, PersonLock, Lock
    <3>2. op[t].next = op[u].p
      BY <2>1, <3>1 DEF StaffRow
    <3>3. <<op[u].p, "teacher">> \in Appointable /\ op[u].p # op[t].p
      BY <2>4, <3>2 DEF WInv, Fine, Named
    <3>4. op[u].p \in Passing => op[t].p \notin Passing
      BY <3>3 DEF Apart
    <3>5. <<op[u].p, "teacher">> \in Revocable => op[u].p \in Passing
      BY <2>2, <3>3 DEF Passing
    <3> QED BY <1>5, <1>6, <1>10, <2>1, <2>4, <3>4, <3>5 DEF PersonsLevel, OfficesLevel
  <2> QED BY <2>3, <2>4
<1> QED BY <1>6, <1>8, <1>9, <1>10

LEMMA OfficeWaitsUpwards ==
    ASSUME TInv, LocksExclude, WInv, \A v \in Tx : Knows(v), NEW t \in Tx, NEW u \in Tx, t # u,
           NEW w \in want[t], NEW n \in ConflictsWith(w[2]), pc[t] = "offices", <<w[1], n>> \in held[u]
    PROVE  WaitLevel(u) > WaitLevel(t)
<1>1. WantOffices(t) /\ Named(t) /\ Named(u)
  BY DEF WInv, Fine, Wanting
<1>2. op[t].p \in Staff /\ op[t].office \in Office
  BY <1>1 DEF WantOffices, Losing, TInv, TypeOK, Fits, Op
<1>3. PICK o \in Office : w[1] = OfficeRow(<<op[t].p, o>>)
  <2>1. CASE op[t].kind = "remove"
    BY <1>1, <2>1 DEF WantOffices, OfficeLocks, Lock
  <2>2. CASE op[t].kind # "remove"
    BY <1>1, <1>2, <2>2 DEF WantOffices, OfficeLocks, Lock
  <2> QED BY <2>1, <2>2
<1>4. /\ op[u].kind \in Losing /\ op[u].p = op[t].p
      /\ op[u].kind # "remove" => op[u].office = o
      /\ op[u].kind # "remove" /\ pc[u] = "offices" => want[u] = {}
      /\ pc[u] = "persons" => op[u].kind = "replace"
  <2> DEFINE h == <<w[1], n>>
  <2>1. h \in held[u] /\ h[1] = OfficeRow(<<op[t].p, o>>)
    BY <1>3
  <2> HIDE DEF h
  <2> QED BY <1>2, <2>1, OfficeHolders
<1>5. WaitLevel(t) = OfficesLevel(t) /\ OfficesLevel(t) \in 1 .. 6
  BY DEF WaitLevel, OfficesLevel
<1>6. /\ WaitLevel(u) \in Nat /\ Top \in Nat /\ Top >= 9
      /\ want[u] = {} => WaitLevel(u) = Top
      /\ (want[u] # {} /\ pc[u] = "items") => WaitLevel(u) >= 9
      /\ want[u] # {} => pc[u] \in {"persons", "offices", "link", "items"}
  BY LevelType
<1>7. CASE want[u] = {} \/ pc[u] = "items"
  BY <1>5, <1>6, <1>7
<1>8. CASE want[u] # {} /\ pc[u] = "link"
  <2>1. WaitLevel(u) = 7
    BY <1>8 DEF WaitLevel
  <2> QED BY <1>5, <2>1
<1>9. CASE want[u] # {} /\ pc[u] = "persons"
  <2>1. op[u].kind = "replace" /\ op[u].p = op[t].p /\ <<op[t].p, "teacher">> \in Revocable
    BY <1>1, <1>4, <1>9 DEF Named
  <2>2. WaitLevel(u) = PersonsLevel(u)
    BY <1>9 DEF WaitLevel
  <2> QED BY <1>5, <2>1, <2>2 DEF PersonsLevel, OfficesLevel
<1>10. CASE want[u] # {} /\ pc[u] = "offices"
  <2>1. op[u].kind = "remove"
    BY <1>4, <1>10
  <2>2. WaitLevel(u) = OfficesLevel(u) /\ OfficesLevel(u) >= 2
    BY <1>10, <2>1 DEF WaitLevel, OfficesLevel
  <2>3. CASE op[t].kind # "remove"
    <3>1. OfficesLevel(t) = 1
      BY <2>3 DEF OfficesLevel
    <3> QED BY <1>5, <1>6, <2>2, <3>1
  <2>4. CASE op[t].kind = "remove"
    <3>1. /\ Lock(StaffRow(op[t].p), "update") \in held[t]
          /\ Lock(StaffRow(op[t].p), "update") \in held[u]
      BY <1>4, <1>10, <2>1, <2>4 DEF Knows, Remover
    <3> DEFINE lock == Lock(StaffRow(op[t].p), "update")
    <3>2. ~Collides(held[u], lock)
      BY <3>1 DEF LocksExclude
    <3> QED BY <3>1, <3>2 DEF Collides, Lock, ConflictsWith, Mode
  <2> QED BY <2>3, <2>4
<1> QED BY <1>6, <1>7, <1>8, <1>9, <1>10

LEMMA LinkWaitsUpwards ==
    ASSUME WInv, NEW t \in Tx, NEW u \in Tx, NEW w \in want[t], NEW n,
           pc[t] = "link", <<w[1], n>> \in held[u]
    PROVE  WaitLevel(u) > WaitLevel(t)
<1> DEFINE h == <<w[1], n>>
<1>1. h[1][1] = "link" /\ h \in held[u]
  BY LockShapes DEF WInv, Fine, Wanting, WantLink
<1>2. HeldLink(u)
  BY <1>1 DEF WInv, Fine, Holding
<1> HIDE DEF h
<1>3. want[u] = {}
  BY <1>1, <1>2 DEF WInv, Fine, Wanting, WantLink, HeldLink, HoldsNo
<1>4. WaitLevel(t) = 7 /\ WaitLevel(u) = Top /\ Top \in Nat /\ Top >= 9
  BY <1>3, LevelType DEF WaitLevel
<1> QED BY <1>4

LEMMA ItemWaitsUpwards ==
    ASSUME WInv, NEW t \in Tx, NEW u \in Tx, NEW w \in want[t], NEW n,
           pc[t] = "items", InTurn(t, w), <<w[1], n>> \in held[u]
    PROVE  WaitLevel(u) > WaitLevel(t)
<1> DEFINE h == <<w[1], n>>
<1>1. PICK m \in Message : w = Lock(ItemRow(m), "no_key_update")
  BY DEF WInv, Fine, Wanting, WantItems, ItemLocks
<1>2. h \in held[u] /\ h[1][1] = "item" /\ h[1][2] = m /\ w[1][2] = m
  BY <1>1 DEF Lock, ItemRow
<1>3. HeldItem(u)
  BY <1>2 DEF WInv, Fine, Holding
<1>4. /\ WaitLevel(t) = NextItem(t) + 8 /\ NextItem(t) \in Message /\ NextItem(t) <= m
  BY <1>2, LevelType, NextItemFacts
<1>5. CASE want[u] = {}
  <2>1. WaitLevel(u) = Top
    BY <1>5, LevelType
  <2> QED BY <1>4, <2>1, MessagesAssumption DEF Top, Message
<1>6. CASE want[u] # {}
  <2>1. pc[u] = "items"
    BY <1>3, <1>6 DEF HeldItem, WInv, Fine, Wanting
  <2>2. WantItems(u)
    BY <2>1 DEF WInv, Fine, Wanting
  <2>3. PICK v \in want[u] : v[1][2] = NextItem(u)
    BY <1>6, <2>1, NextItemFacts
  <2>4. m < NextItem(u)
    BY <1>2, <2>2, <2>3 DEF WantItems
  <2>5. WaitLevel(u) = NextItem(u) + 8 /\ NextItem(u) \in Message
    BY <1>6, <2>1, LevelType, NextItemFacts
  <2> QED BY <1>4, <2>4, <2>5 DEF Message
<1> QED BY <1>5, <1>6

LEMMA HighestWaitsForNobody == IInv /\ WInv /\ Apart => NoCircularWait
<1> SUFFICES ASSUME IInv, WInv, Apart, NEW S \in (SUBSET Tx) \ {{}}
             PROVE  \E t \in S : \A u \in S : ~Waits(t, u)
  BY DEF NoCircularWait
<1>1. ASSUME NEW t \in Tx, NEW u \in Tx, Waits(t, u)
      PROVE  WaitLevel(u) > WaitLevel(t)
  <2>1. PICK w \in want[t] : InTurn(t, w) /\ Collides(held[u], w)
    BY <1>1 DEF Waits
  <2>2. PICK n \in ConflictsWith(w[2]) : <<w[1], n>> \in held[u]
    BY <2>1 DEF Collides
  <2>3. pc[t] \in {"persons", "offices", "link", "items"} /\ t # u
    BY <1>1, <2>1, LevelType DEF Waits
  <2>4. CASE pc[t] = "persons"
    BY <2>2, <2>4, PersonWaitsUpwards DEF IInv
  <2>5. CASE pc[t] = "offices"
    BY <2>2, <2>3, <2>5, OfficeWaitsUpwards DEF IInv
  <2>6. CASE pc[t] = "link"
    BY <2>2, <2>6, LinkWaitsUpwards
  <2>7. CASE pc[t] = "items"
    BY <2>1, <2>2, <2>7, ItemWaitsUpwards
  <2> QED BY <2>3, <2>4, <2>5, <2>6, <2>7
<1> DEFINE Below == {Top - WaitLevel(t) : t \in S}
<1>2. Below \in SUBSET Nat /\ Below # {}
  BY LevelType
<1>3. PICK t \in S : \A u \in S : Top - WaitLevel(t) <= Top - WaitLevel(u)
  <2>1. PICK n \in Below : \A m \in Below : n <= m
    <3> HIDE DEF Below
    <3> QED BY <1>2, LeastNatural
  <2> QED BY <2>1
<1>4. ASSUME NEW u \in S PROVE ~Waits(t, u)
  <2>1. /\ WaitLevel(t) \in Nat /\ WaitLevel(u) \in Nat /\ Top \in Nat
        /\ Top - WaitLevel(t) <= Top - WaitLevel(u)
    BY <1>3, LevelType
  <2> QED BY <1>1, <2>1
<1> QED BY <1>4

\* No requests wait on one another in a circle, however many there are, unless
\* two colleagues who may be removed can each be given the child's teaching and
\* lose it (iam/removal.ts "Lock order", which says nothing of the teachings'
\* rows): two replacements of one by the other, each with the teaching it ends,
\* and the two removals can.
THEOREM NoCircle == Apart /\ Spec => []NoCircularWait
<1> DEFINE Inv == IInv /\ WInv /\ Apart
<1>1. Apart /\ Init => Inv
  BY InitInvariant, InitWaits
<1>2. Inv /\ [Next]_vars => Inv'
  <2>1. Apart' = Apart
    BY DEF Apart, Passing
  <2>2. IInv => TInv
    BY DEF IInv
  <2> QED BY <2>1, <2>2, InvariantStep, WaitsStep
<1>3. Inv => NoCircularWait
  BY HighestWaitsForNobody
<1> QED BY <1>1, <1>2, <1>3, PTL DEF Spec
=============================================================================
