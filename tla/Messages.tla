------------------------------ MODULE Messages ------------------------------
(***************************************************************************)
(* Guardians' messages to the school (src/src/modules/iam/                 *)
(* guardian-messages.ts) and their routing: whoever loses the capacity a   *)
(* message is addressed through - by a removal, a revoked role, an ended   *)
(* teaching - hands an open message nobody else can answer on to the next  *)
(* of a chain, in the same write (iam/guardian-message-routing.ts).        *)
(*                                                                         *)
(* One school, one guardian with one child, whose link is a row here too.  *)
(* Transactions run at READ COMMITTED: one step per row lock, one for what *)
(* is read under the locks, one for the commit.  The phases of each kind:  *)
(*   send      persons -> link                                             *)
(*   answer    persons -> items                                            *)
(*   remove    persons -> offices -> plan -> candidates -> items           *)
(*   revoke               offices -> plan -> candidates -> items           *)
(*   replace   offices -> persons -> plan -> candidates -> items           *)
(*   appoint   persons                                                     *)
(*   unlink    link                                                        *)
(* then "write".  Revoke is the end of a role or of a teaching, replace    *)
(* the end of a teaching whose next teacher the same form puts in.         *)
(***************************************************************************)
EXTENDS Integers, Sequences, FiniteSets, RowLocks

CONSTANTS
    NStaff,      \* colleagues are 1 .. NStaff, in the order of their ids
    NMessage,    \* bound: messages are 1 .. NMessage
    FirstHolds,  \* who holds which office at first: pairs of a colleague and an office
    Appointable, \* what may be given: such pairs
    Revocable,   \* what may be ended
    Removable,   \* who may be removed
    Form,        \* the send forms a page was given, each with its key
    RateLimit,   \* MESSAGE_RATE_LIMIT
    Tx,          \* the database connections requests run on
    Reuse        \* does a connection serve another request after the first?

Staff == 1 .. NStaff
Message == 1 .. NMessage

\* A message goes to a teacher of the child, to the vice principals or to the
\* principals (a counselor is an office of its own, like a teacher's).
Office == {"teacher", "vice_principal", "principal"}
OfficeRank(office) ==
    CASE office = "teacher" -> 0 [] office = "vice_principal" -> 1 [] OTHER -> 2

ASSUME MessagesAssumption ==
    /\ NStaff \in Nat /\ NMessage \in Nat /\ RateLimit \in Nat
    /\ FirstHolds \subseteq Staff \X Office
    /\ Appointable \subseteq Staff \X Office
    /\ Revocable \subseteq Staff \X Office
    /\ Removable \subseteq Staff
    /\ Reuse \in BOOLEAN

StaffRow(p) == <<"staff", p>>
\* One row of a role or a teaching; a removal writes the teachings first.
OfficeRow(pair) == <<"office", 3 * pair[1] + OfficeRank(pair[2])>>
ItemRow(m) == <<"item", m>>
LinkRow == <<"link", 0>>
Row ==
    {LinkRow} \union {StaffRow(p) : p \in Staff} \union {OfficeRow(pair) : pair \in Staff \X Office}
    \union {ItemRow(m) : m \in Message}

\* A message's work item, its routing facts and who answered it; `age` is that
\* of created_at: "new" within the form key's window, "recent" within the rate
\* limit's.
NoMessage ==
    [status |-> "none", to |-> "principal", form |-> "none", age |-> "old", assignees |-> {}, by |-> 0]
MessageRow ==
    [status : {"none", "open", "answered"}, to : Office, form : Form \union {"none"},
     age : {"new", "recent", "old"}, assignees : SUBSET Staff, by : {0} \union Staff]

\* A request: by or about which colleague, their replacement, which office,
\* message or form, to whom.
NoOp == [kind |-> "none", p |-> 0, next |-> 0, office |-> "principal", m |-> 0, form |-> "none", to |-> {}]
Kind == {"none", "send", "answer", "remove", "revoke", "replace", "appoint", "unlink"}
Op == [kind : Kind, p : {0} \union Staff, next : {0} \union Staff, office : Office,
       m : {0} \union Message, form : Form \union {"none"}, to : SUBSET Staff]

VARIABLES
    removed,    \* archived colleagues
    holds,      \* live roles and teachings: pairs of a colleague and an office
    linked,     \* is the link of guardian and child live?
    msg,        \* messages
    pc, op,     \* each transaction's phase and request
    want, held, \* row locks it still has to take in this phase / it holds
    plan,       \* its planned messages, each with the steps of its chain, and the candidates it has
    write       \* its uncommitted writes

dbVars == <<removed, holds, linked, msg>>
vars == <<removed, holds, linked, msg, pc, op, want, held, plan, write>>

Phase == {"idle", "persons", "offices", "plan", "candidates", "link", "items", "write", "ended"}
Step == 1 .. 3
Chain == [Step -> SUBSET Staff]
Plan == [msgs : SUBSET Message, chain : [Message -> Chain], took : SUBSET Staff]
\* A write leaves the messages alone whose status in it is "none".
Writes ==
    [gone : SUBSET Staff, ends : SUBSET (Staff \X Office), starts : SUBSET (Staff \X Office),
     unlink : BOOLEAN, msg : [Message -> MessageRow]]

NoChain == [s \in Step |-> {}]
NoPlan == [msgs |-> {}, chain |-> [m \in Message |-> NoChain], took |-> {}]
NoWrite == [gone |-> {}, ends |-> {}, starts |-> {}, unlink |-> FALSE, msg |-> [m \in Message |-> NoMessage]]

-----------------------------------------------------------------------------
(* What the code reads.                                                    *)

Active == Staff \ removed
Open(m) == msg[m].status = "open"
Sent == {m \in Message : msg[m].status # "none"}

\* officeHolders, teachersOfOfferingForChild: live holders, of those who hold.
Holders(pairs, office) == {p \in Active : <<p, office>> \in pairs}

\* app.guardian_message_routes: the open messages a colleague is an assignee of.
Routes(p) == {m \in Message : Open(m) /\ p \in msg[m].assignees}

\* The offices a transaction ends and gives; its own reads see them.
Ends(t) ==
    LET o == op[t] IN
    CASE o.kind = "remove" -> {o.p} \X Office
      [] o.kind \in {"revoke", "replace"} -> {<<o.p, o.office>>}
      [] OTHER -> {}

Starts(t) ==
    LET o == op[t] IN
    CASE o.kind = "replace" -> {<<o.next, o.office>>}
      [] o.kind = "appoint" -> {<<o.p, o.office>>}
      [] OTHER -> {}
Seen(t) == (holds \ Ends(t)) \union Starts(t)

\* The chain of a message: its own destination, the principals, the vice
\* principals, never the colleague whose capacity ends.
ChainOf(t, m) ==
    LET office(s) == CASE s = 1 -> msg[m].to [] s = 2 -> "principal" [] OTHER -> "vice_principal"
    IN  [s \in Step |-> Holders(Seen(t), office(s)) \ {op[t].p}]

Planned(t) == plan[t].msgs
InPlan(t, m) == UNION {plan[t].chain[m][s] : s \in Step}

\* liveAddressees: active, and in an office the message may be answered from.
Live(t, m, assignees) ==
    {p \in assignees \intersect Active :
        \E o \in {msg[m].to, "principal", "vice_principal"} : <<p, o>> \in Seen(t)}

\* The message this form sent within its key's window (findReplayedMessage).
Replayed(form) == {m \in Sent : msg[m].form = form /\ msg[m].age = "new"}

\* What the rate limit counts.
Recent == {m \in Sent : msg[m].age # "old"}

-----------------------------------------------------------------------------
(* Transactions.                                                           *)

Begin(t, o, phase, locks) ==
    /\ pc[t] = "idle"
    /\ pc' = [pc EXCEPT ![t] = phase]
    /\ op' = [op EXCEPT ![t] = o]
    /\ want' = [want EXCEPT ![t] = locks]
    /\ UNCHANGED <<held, plan, write>> /\ UNCHANGED dbVars

\* A phase whose locks are all taken.
At(t, kinds, phase) == op[t].kind \in kinds /\ pc[t] = phase /\ want[t] = {}

Then(t, phase, locks) ==
    /\ pc' = [pc EXCEPT ![t] = phase]
    /\ want' = [want EXCEPT ![t] = locks]
    /\ UNCHANGED <<op, held, plan, write>> /\ UNCHANGED dbVars

Write(t, w) ==
    /\ pc' = [pc EXCEPT ![t] = "write"]
    /\ write' = [write EXCEPT ![t] = w]
    /\ UNCHANGED <<op, want, held, plan>> /\ UNCHANGED dbVars

End(t) ==
    /\ pc' = [pc EXCEPT ![t] = IF Reuse THEN "idle" ELSE "ended"]
    /\ op' = [op EXCEPT ![t] = NoOp]
    /\ want' = [want EXCEPT ![t] = {}]
    /\ held' = [held EXCEPT ![t] = {}]
    /\ plan' = [plan EXCEPT ![t] = NoPlan]
    /\ write' = [write EXCEPT ![t] = NoWrite]

\* Rows of one kind are locked in ascending order.
InTurn(t, w) == \A v \in want[t] : w[1][2] <= v[1][2]

Free(t, w) == \A u \in Tx \ {t} : ~Collides(held[u], w)

TakeLock(t) ==
    \E w \in want[t] :
        /\ InTurn(t, w) /\ Free(t, w)
        /\ want' = [want EXCEPT ![t] = @ \ {w}]
        /\ held' = [held EXCEPT ![t] = @ \union {w}]
        /\ UNCHANGED <<pc, op, plan, write>> /\ UNCHANGED dbVars

\* A committed message; its age is the clock's.
Stored(w, m) == IF m \in Sent THEN [w.msg[m] EXCEPT !.age = msg[m].age] ELSE w.msg[m]

Commit(t) ==
    LET w == write[t] IN
    /\ pc[t] = "write"
    /\ removed' = removed \union w.gone
    /\ holds' = (holds \ w.ends) \union w.starts
    /\ linked' = (linked /\ ~w.unlink)
    /\ msg' = [m \in Message |-> IF w.msg[m].status = "none" THEN msg[m] ELSE Stored(w, m)]
    /\ End(t)

\* A refusal, a statement timeout, a lost connection, the victim of a
\* deadlock: rolled back at any point.
Abort(t) ==
    /\ pc[t] \notin {"idle", "ended"}
    /\ End(t) /\ UNCHANGED dbVars

-----------------------------------------------------------------------------
(* sendGuardianMessage.                                                    *)

PersonLocks(persons, mode) == {Lock(StaffRow(p), mode) : p \in persons}

\* To one teacher the guardian picked, or to all who hold the office.
Wanted(office) ==
    IF office = "teacher" THEN {{p} : p \in Holders(holds, office)}
    ELSE {Holders(holds, office)} \ {{}}

\* (mutant of RecipientLocks: the recipients are only read)
RecipientLocks_none(persons) == {}

RecipientLocks(persons) == PersonLocks(persons, "key_share")

BeginSend(t) ==
    \E office \in Office, form \in Form :
        \E wanted \in Wanted(office) :
            /\ linked
            /\ Begin(t, [NoOp EXCEPT !.kind = "send", !.office = office, !.form = form, !.to = wanted],
                     "persons", RecipientLocks(wanted))

\* lockActivePersons: of the wanted, who is there once the lock is granted.
Recipients(t) == op[t].to \ removed

\* (mutant of LinkLocks: the link is read, not locked)
LinkLocks_none == {}

LinkLocks == {Lock(LinkRow, "no_key_update")}

SendLocksLink(t) ==
    /\ At(t, {"send"}, "persons")
    /\ Recipients(t) # {}
    /\ Then(t, "link", LinkLocks)

\* A replayed form gets the first message, whatever the rate.
SendReplays(t) ==
    /\ At(t, {"send"}, "link")
    /\ linked /\ Replayed(op[t].form) # {}
    /\ End(t) /\ UNCHANGED dbVars

\* The forms of stored messages: the unique key has no window.
UsedForms == {msg[m].form : m \in Sent}

NewMessage(t) ==
    [NoMessage EXCEPT !.status = "open", !.to = op[t].office, !.form = op[t].form, !.age = "new",
                      !.assignees = Recipients(t)]

\* A message that has a row, committed or not: nobody else inserts it.
Inserted == Sent \union {m \in Message : \E t \in Tx : write[t].msg[m].status # "none"}

\* Ids ascend; the bound leaves the last sends out.  A form older than the
\* window is refused at the unique key (Abort).
SendWrites(t) ==
    /\ At(t, {"send"}, "link")
    /\ linked /\ Replayed(op[t].form) = {} /\ Cardinality(Recent) < RateLimit
    /\ op[t].form \notin UsedForms
    /\ \E m \in Message \ Inserted :
        /\ \A n \in Message \ Inserted : m <= n
        /\ Write(t, [NoWrite EXCEPT !.msg[m] = NewMessage(t)])

\* An hour passes, in two parts.
Ages(m) ==
    /\ m \in Recent
    /\ msg' = [msg EXCEPT ![m].age = IF @ = "new" THEN "recent" ELSE "old"]
    /\ UNCHANGED <<removed, holds, linked, pc, op, want, held, plan, write>>

UnlinkGuardian(t) ==
    /\ linked
    /\ Begin(t, [NoOp EXCEPT !.kind = "unlink"], "link", {Lock(LinkRow, "no_key_update")})

UnlinkWrites(t) ==
    /\ At(t, {"unlink"}, "link")
    /\ Write(t, [NoWrite EXCEPT !.unlink = TRUE])

-----------------------------------------------------------------------------
(* answerAddressedMessage: lockItemPeople, the item, the first answer.     *)

ItemLocks(messages) == {Lock(ItemRow(m), "no_key_update") : m \in messages}

BeginAnswer(t) ==
    \E m \in Message : \E p \in msg[m].assignees :
        /\ Open(m)
        /\ Begin(t, [NoOp EXCEPT !.kind = "answer", !.p = p, !.m = m],
                 "persons", PersonLocks(msg[m].assignees, "key_share"))

\* (mutant of AnswerLocks: the item is read, not locked)
AnswerLocks_none(m) == {}

AnswerLocks(m) == ItemLocks({m})

AnswerLocksItem(t) ==
    /\ At(t, {"answer"}, "persons")
    /\ Then(t, "items", AnswerLocks(op[t].m))

\* (mutant of MayAnswer: an answered message is answered again)
MayAnswer_asAddressee(t) == op[t].p \in msg[op[t].m].assignees

MayAnswer(t) == Open(op[t].m) /\ op[t].p \in msg[op[t].m].assignees

AnswerWrites(t) ==
    LET m == op[t].m IN
    /\ At(t, {"answer"}, "items")
    /\ MayAnswer(t)
    /\ Write(t, [NoWrite EXCEPT !.msg[m] = [msg[m] EXCEPT !.status = "answered", !.by = op[t].p]])

-----------------------------------------------------------------------------
(* The writes that end a capacity.                                         *)

OfficeLocks(pairs) == {Lock(OfficeRow(pair), "no_key_update") : pair \in pairs}

\* removePerson: the person row FOR UPDATE, then the teachings and roles.
BeginRemove(t) ==
    \E p \in Removable :
        Begin(t, [NoOp EXCEPT !.kind = "remove", !.p = p], "persons", {Lock(StaffRow(p), "update")})

RemoveEndsOffices(t) ==
    /\ At(t, {"remove"}, "persons")
    /\ op[t].p \notin removed
    /\ Then(t, "offices", OfficeLocks(Ends(t) \intersect holds))

\* A teaching is ended while it runs (the UPDATE looks again once it has the
\* row), a role is revoked as it was read.
StillHeld(t) == op[t].kind # "remove" /\ op[t].office = "teacher" => <<op[t].p, "teacher">> \in holds

\* revokeRoleAssignment, endTeacherAssignment.
BeginRevoke(t) ==
    \E pair \in Revocable \intersect holds :
        Begin(t, [NoOp EXCEPT !.kind = "revoke", !.p = pair[1], !.office = pair[2]],
              "offices", OfficeLocks({pair}))

\* The offerings form: the next teacher goes in first (assignTeacher).
BeginReplace(t) ==
    \E p, next \in Staff :
        /\ p # next
        /\ <<p, "teacher">> \in Revocable \intersect holds /\ <<next, "teacher">> \in Appointable \ holds
        /\ Begin(t, [NoOp EXCEPT !.kind = "replace", !.p = p, !.next = next, !.office = "teacher"],
                 "offices", OfficeLocks({<<p, "teacher">>}))

ReplaceLocksNext(t) ==
    /\ At(t, {"replace"}, "offices")
    /\ StillHeld(t)
    /\ Then(t, "persons", PersonLocks({op[t].next}, "share"))

\* (mutant of Rerouteable: only what nobody else is addressed with)
Rerouteable_alone(t) == {m \in Routes(op[t].p) : msg[m].assignees = {op[t].p}}

\* The messages a plan holds.
Rerouteable(t) == Routes(op[t].p)

\* prepareGuardianMessageReroute: the messages and their chains ...
PlansMessages(t) ==
    /\ \/ At(t, {"remove", "revoke"}, "offices") /\ StillHeld(t)
       \/ At(t, {"replace"}, "persons") /\ op[t].next \notin removed
    /\ pc' = [pc EXCEPT ![t] = "plan"]
    /\ plan' = [plan EXCEPT
          ![t].msgs = Rerouteable(t),
          ![t].chain = [m \in Message |-> IF m \in Rerouteable(t) THEN ChainOf(t, m) ELSE NoChain]]
    /\ UNCHANGED <<op, want, held, write>> /\ UNCHANGED dbVars

Candidates(t) == PersonLocks((UNION {InPlan(t, m) : m \in Planned(t)}) \ removed, "key_share")

\* (mutant of Awaited: without SKIP LOCKED)
Awaited_all(t) == Candidates(t)

\* What a transaction waits for of its candidates: SKIP LOCKED.
Awaited(t) == {}

\* ... then the candidates who are active and not being removed.
TakesCandidates(t) ==
    LET got == {w \in Candidates(t) \ Awaited(t) : Free(t, w)} IN
    /\ pc[t] = "plan"
    /\ pc' = [pc EXCEPT ![t] = "candidates"]
    /\ held' = [held EXCEPT ![t] = @ \union got]
    /\ want' = [want EXCEPT ![t] = Awaited(t)]
    /\ plan' = [plan EXCEPT ![t].took = {w[1][2] : w \in got}]
    /\ UNCHANGED <<op, write>> /\ UNCHANGED dbVars

\* withdrawRemovedAssignee locks the person's open items, the other writes
\* the planned messages.
LocksItems(t) ==
    /\ At(t, {"remove", "revoke", "replace"}, "candidates")
    /\ Then(t, "items", ItemLocks(IF op[t].kind = "remove" THEN Routes(op[t].p) ELSE Planned(t)))

\* The messages that are decided under their locks; of a removal, those the
\* person is withdrawn from.
Decided(t) == {m \in Message : Open(m) /\ Lock(ItemRow(m), "no_key_update") \in held[t]}

\* (mutant of Left: whom the removal withdraws is still counted)
Left_all(t, m) == msg[m].assignees

\* The assignees after the withdrawal.
Left(t, m) == IF op[t].kind = "remove" THEN msg[m].assignees \ {op[t].p} ELSE msg[m].assignees

\* The first step of the chain with somebody new whose row is held.
Added(t, m) ==
    LET new(s) == (plan[t].chain[m][s] \intersect plan[t].took) \ Left(t, m)
        steps == {s \in Step : m \in Planned(t) /\ new(s) # {}}
    IN  IF Live(t, m, Left(t, m)) # {} \/ steps = {} THEN {}
        ELSE new(CHOOSE s \in steps : \A r \in steps : s <= r)

\* applyGuardianMessageReroute, with the withdrawal of a removal.
Rerouted(t) ==
    [m \in Message |->
        IF m \in Decided(t) THEN [msg[m] EXCEPT !.assignees = Left(t, m) \union Added(t, m)] ELSE NoMessage]

LossWrites(t) ==
    /\ At(t, {"remove", "revoke", "replace"}, "items")
    /\ Write(t, [NoWrite EXCEPT
          !.gone = IF op[t].kind = "remove" THEN {op[t].p} ELSE {},
          !.ends = Ends(t), !.starts = Starts(t), !.msg = Rerouted(t)])

\* assignRole, assignTeacher: the person's row, then the role.
BeginAppoint(t) ==
    \E pair \in Appointable \ holds :
        Begin(t, [NoOp EXCEPT !.kind = "appoint", !.p = pair[1], !.office = pair[2]],
              "persons", PersonLocks({pair[1]}, IF pair[2] = "teacher" THEN "share" ELSE "no_key_update"))

AppointWrites(t) ==
    /\ At(t, {"appoint"}, "persons")
    /\ op[t].p \notin removed
    /\ Write(t, [NoWrite EXCEPT !.starts = Starts(t)])

-----------------------------------------------------------------------------
Init ==
    /\ removed = {}
    /\ holds = FirstHolds
    /\ linked = TRUE
    /\ msg = [m \in Message |-> NoMessage]
    /\ pc = [t \in Tx |-> "idle"]
    /\ op = [t \in Tx |-> NoOp]
    /\ want = [t \in Tx |-> {}]
    /\ held = [t \in Tx |-> {}]
    /\ plan = [t \in Tx |-> NoPlan]
    /\ write = [t \in Tx |-> NoWrite]

Sends(t) ==
    \/ BeginSend(t) \/ SendLocksLink(t) \/ SendReplays(t) \/ SendWrites(t)
    \/ UnlinkGuardian(t) \/ UnlinkWrites(t)
Answers(t) == BeginAnswer(t) \/ AnswerLocksItem(t) \/ AnswerWrites(t)
Losses(t) ==
    \/ BeginRemove(t) \/ RemoveEndsOffices(t) \/ BeginRevoke(t) \/ BeginReplace(t) \/ ReplaceLocksNext(t)
    \/ PlansMessages(t) \/ TakesCandidates(t) \/ LocksItems(t) \/ LossWrites(t)
Appoints(t) == BeginAppoint(t) \/ AppointWrites(t)

Next ==
    \/ \E t \in Tx : Sends(t) \/ Answers(t) \/ Losses(t) \/ Appoints(t) \/ TakeLock(t) \/ Commit(t) \/ Abort(t)
    \/ \E m \in Message : Ages(m)

Spec == Init /\ [][Next]_vars

-----------------------------------------------------------------------------
(* Properties.                                                             *)

\* Every variable has its shape.
TypeOK ==
    /\ removed \subseteq Staff
    /\ holds \subseteq Staff \X Office
    /\ linked \in BOOLEAN
    /\ msg \in [Message -> MessageRow]
    /\ pc \in [Tx -> Phase]
    /\ op \in [Tx -> Op]
    /\ want \in [Tx -> SUBSET (Row \X Mode)]
    /\ held \in [Tx -> SUBSET (Row \X Mode)]
    /\ plan \in [Tx -> Plan]
    /\ write \in [Tx -> Writes]

\* No removed colleague is an addressee of an open message, whichever of a
\* removal, a send and a re-route to that colleague commits first
\* (guardian-messages.ts "a removal of an addressee is waited for").
AddresseesThere == \A m \in Message : Open(m) => msg[m].assignees \subseteq Active

\* No more than MESSAGE_RATE_LIMIT messages within the hour, however many
\* sends run at once (guardian-messages.ts "two sends at once cannot both
\* slip under it").
RateKept == Cardinality({m \in Sent : msg[m].age \in {"new", "recent"}}) <= RateLimit

\* A send that is past its checks never meets a message of its own form at the
\* unique key: the second of a double tap waits for the first and is answered
\* with it (guardian-messages.ts "a replayed form").
NoTwin ==
    \A t \in Tx : pc[t] = "write" /\ op[t].kind = "send" => op[t].form \notin UsedForms

\* When an open message loses its last addressee, the write that takes it
\* has the message in hand and nobody of its chain to give it to: every
\* candidate was being removed (guardian-message-routing.ts "handed on in
\* that same write").  In particular two addressees who are removed at once
\* do not each leave the message to the other.
NobodyLeftOut ==
    [][\A m \in Message :
         (Open(m) /\ Open(m)' /\ msg[m].assignees # {} /\ msg'[m].assignees = {})
             => \E t \in Tx : pc[t] = "write" /\ m \in Planned(t) /\ InPlan(t, m) \intersect plan[t].took = {}]_vars

\* The first answer stands: an answered message is not answered again, nor
\* re-opened, and no re-route that was planned before the answer reaches it.
AnswerStands ==
    [][\A m \in Message : msg[m].status = "answered" =>
         /\ msg'[m].status = "answered" /\ msg'[m].by = msg[m].by
         /\ msg'[m].assignees = msg[m].assignees]_msg

Waits(t, u) == u # t /\ \E w \in want[t] : InTurn(t, w) /\ Collides(held[u], w)

\* No requests wait on each other (iam/removal.ts "Lock order"); a candidate
\* who is being removed is passed over, never waited for
\* (guardian-message-routing.ts).
NoCircularWait ==
    \A S \in (SUBSET Tx) \ {{}} : \E t \in S : \A u \in S : ~Waits(t, u)

\* The message has a live addressee: active, in an office it may be answered
\* from (guardian-message-routing.ts "WHICH").
Answerable(m) ==
    \E p \in msg[m].assignees \intersect Active :
        \E o \in {msg[m].to, "principal", "vice_principal"} : <<p, o>> \in holds

\* "A message nobody can answer any more - its last live addressee removed,
\* out of the office or no longer teaching - is handed on in that same write"
\* (guardian-messages.ts): once no request runs, an open message without a live
\* addressee is one nobody of the school's management could take.
NoneStranded ==
    (\A t \in Tx : pc[t] \in {"idle", "ended"})
        => \A m \in Message :
              Open(m) /\ ~Answerable(m) => Holders(holds, "principal") \union Holders(holds, "vice_principal") = {}
=============================================================================
