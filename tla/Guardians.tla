----------------------------- MODULE Guardians -----------------------------
(***************************************************************************)
(* Guardians ("oliya") and what they may ask: the links between guardians  *)
(* and children with the guardians' logins (src/src/modules/iam/           *)
(* guardian.ts), the guardians' bell (iam/guardian-notify.ts), the ending  *)
(* of links by a removal (iam/removal.ts), and leave requests              *)
(* (iam/guardian-leave.ts, academic/leave.ts).  Transactions run at READ   *)
(* COMMITTED: one step per row lock, one for what is read under the locks, *)
(* one for the commit; `write` is what a transaction will commit.          *)
(*                                                                         *)
(* The phases of a transaction are the kinds of rows it locks, each kind   *)
(* of request in its own order, then "write":                              *)
(*   add, unlink      student -> guardian -> link                          *)
(*   remove student   student -> profile -> guardian -> link               *)
(*   remove staff     guardian -> link                                     *)
(*   tell             guardian                                             *)
(*   ask (for leave)  link -> profile -> guardian                          *)
(*   cancel           leave                                                *)
(*   decide           leave -> guardian                                    *)
(***************************************************************************)
EXTENDS Integers, FiniteSets, RowLocks

CONSTANTS
    NGuardian,   \* guardians are 1 .. NGuardian, in the order of their ids
    NChild,      \* students are 1 .. NChild
    Colleague,   \* the guardians who are colleagues too (staff profile)
    Family,      \* <<g, c>>: a form may name g as a guardian of c
    Tx,          \* the database connections requests run on
    NLeave,      \* bound: leave requests are 1 .. NLeave
    Span,        \* the times one may ask leave for, each a set of periods
    MaxPending,  \* LEAVE_MAX_PENDING
    Reuse        \* does a connection serve another request after the first?

Guardian == 1 .. NGuardian
Child == 1 .. NChild
Leave == 1 .. NLeave
Pair == Guardian \X Child

ASSUME GuardiansAssumption ==
    /\ NGuardian \in Nat /\ NChild \in Nat /\ NLeave \in Nat /\ MaxPending \in Nat
    /\ Colleague \subseteq Guardian
    /\ Family \subseteq Pair
    /\ \A s \in Span : s # {}
    /\ Reuse \in BOOLEAN

\* Row names: a student's and a guardian's person row, a student's profile, a
\* link, a leave request.
ChildRow(c) == <<"student", 0, c>>
GuardianRow(g) == <<"guardian", g, 0>>
ProfileRow(c) == <<"profile", 0, c>>
LinkRow(g, c) == <<"link", g, c>>
LeaveRow(r) == <<"leave", r, 0>>
Row ==
    {ChildRow(c) : c \in Child} \union {ProfileRow(c) : c \in Child}
    \union {GuardianRow(g) : g \in Guardian}
    \union {LinkRow(p[1], p[2]) : p \in Pair} \union {LeaveRow(r) : r \in Leave}

\* A leave request; `status` as the column's, "none" before it is written.
NoLeave == [by |-> 0, child |-> 0, span |-> {}, status |-> "none"]
LeaveRequest ==
    {NoLeave} \union
    [by : Guardian, child : Child, span : Span,
     status : {"pending", "approved", "rejected", "cancelled"}]

\* A request: by or about which guardian, which child, which leave request.
NoOp == [kind |-> "none", g |-> 0, c |-> 0, leave |-> 0, span |-> {}, to |-> "none"]
Kind == {"none", "add", "unlink", "remove_student", "remove_staff", "tell", "ask", "cancel", "decide"}
Op == [kind : Kind, g : {0} \union Guardian, c : {0} \union Child, leave : {0} \union Leave,
       span : {{}} \union Span, to : {"none", "cancelled", "approved", "rejected"}]

VARIABLES
    removed,    \* archived persons, by their row
    live,       \* links with status 'active'
    account,    \* each guardian's login; "none": no such person yet
    bell,       \* <<g, c>>: g's bell has guardian notifications about c
    leave,      \* leave requests
    pc, op,     \* each transaction's phase and request
    want, held, \* row locks it still has to take in this phase / it holds
    write       \* its uncommitted writes

dbVars == <<removed, live, account, bell, leave>>
txVars == <<pc, op, want, held, write>>
vars == <<removed, live, account, bell, leave, pc, op, want, held, write>>

Phase == {"idle", "student", "profile", "guardian", "link", "leave", "write", "ended"}

\* What a transaction commits: links that end and begin, logins that open and
\* close, rows that enter and leave bells, leave requests, an archived person.
NoWrite ==
    [ends |-> {}, starts |-> {}, opens |-> {}, closes |-> {},
     rings |-> {}, prunes |-> {}, leave |-> [r \in {} |-> NoLeave], gone |-> {}]
Writes ==
    [ends : SUBSET Pair, starts : SUBSET Pair, opens : SUBSET Guardian, closes : SUBSET Guardian,
     rings : SUBSET Pair, prunes : SUBSET Pair,
     leave : UNION {[D -> LeaveRequest \ {NoLeave}] : D \in SUBSET Leave}, gone : SUBSET Row]

-----------------------------------------------------------------------------
(* What the code reads.                                                    *)

Here(row) == row \notin removed

\* liveGuardiansOf: link live, guardian's person active, never the actor.
LiveGuardians(c, actor) ==
    {g \in Guardian : <<g, c>> \in live /\ Here(GuardianRow(g)) /\ g # actor}

\* requireChild: the child is one of the guardian's live children.
IsChildOf(c, g) == <<g, c>> \in live /\ Here(GuardianRow(g)) /\ Here(ChildRow(c))

LeavesOf(c, statuses) == {r \in Leave : leave[r].child = c /\ leave[r].status \in statuses}

\* No live request of the child overlaps, and not too many wait (requestLeave).
MayAsk(c, span) ==
    /\ \A r \in LeavesOf(c, {"pending", "approved"}) : leave[r].span \intersect span = {}
    /\ Cardinality(LeavesOf(c, {"pending"})) < MaxPending

\* (mutant of StillPending: a decision does not ask again)
StillPending_asked(r) == leave[r].status # "none"

\* UPDATE ... WHERE status = 'pending', after the wait for the row.
StillPending(r) == leave[r].status = "pending"

\* The guardians whose person row the transaction has.
Locked(t) == {g \in Guardian : \E m \in Mode : Lock(GuardianRow(g), m) \in held[t]}

\* (mutant of ToldMode: the mode before security review D4)
ToldMode_keyShare == "key_share"

\* The lock a bell takes on whom it tells.
ToldMode == "share"

Told(c, actor) == {Lock(GuardianRow(g), ToldMode) : g \in LiveGuardians(c, actor)}

-----------------------------------------------------------------------------
(* What the code writes.                                                   *)

\* endLinks: these links end and their children leave the guardians' bells;
\* closeGuardianAccessIfOrphaned: a guardian-only person with no live link
\* left loses the login.
Ending(pairs) ==
    LET left == live \ pairs
        who == {p[1] : p \in pairs}
        orphans == {g \in who \ Colleague : \A c \in Child : <<g, c>> \notin left}
    IN  [NoWrite EXCEPT
            !.ends = pairs,
            !.closes = {g \in orphans : account[g] = "open"},
            !.prunes = {p \in bell : p[1] \in who /\ p \notin left}]

\* ensureGuardianPerson and linkGuardian with reopenGuardianAccess: a new
\* guardian with a login, or a new link of one who is there; a guardian-only
\* person's closed login opens again, with nothing of a former child in it.
Linking(g, c) ==
    LET reopens == g \notin Colleague /\ account[g] = "closed" IN
    [NoWrite EXCEPT
        !.starts = {<<g, c>>} \ live,
        !.opens = IF account[g] = "none" \/ reopens THEN {g} ELSE {},
        !.prunes = {p \in bell : reopens /\ p[1] = g /\ p # <<g, c>> /\ p \notin live}]

-----------------------------------------------------------------------------
(* Transactions.                                                           *)

Begin(t, o, phase, locks) ==
    /\ pc[t] = "idle"
    /\ pc' = [pc EXCEPT ![t] = phase]
    /\ op' = [op EXCEPT ![t] = o]
    /\ want' = [want EXCEPT ![t] = locks]
    /\ UNCHANGED <<held, write>> /\ UNCHANGED dbVars

\* A phase whose locks are all taken.
At(t, kind, phase) == op[t].kind = kind /\ pc[t] = phase /\ want[t] = {}

Then(t, phase, locks) ==
    /\ pc' = [pc EXCEPT ![t] = phase]
    /\ want' = [want EXCEPT ![t] = locks]
    /\ UNCHANGED <<op, held, write>> /\ UNCHANGED dbVars

Write(t, w) ==
    /\ pc' = [pc EXCEPT ![t] = "write"]
    /\ write' = [write EXCEPT ![t] = w]
    /\ UNCHANGED <<op, want, held>> /\ UNCHANGED dbVars

End(t) ==
    /\ pc' = [pc EXCEPT ![t] = IF Reuse THEN "idle" ELSE "ended"]
    /\ op' = [op EXCEPT ![t] = NoOp]
    /\ want' = [want EXCEPT ![t] = {}]
    /\ held' = [held EXCEPT ![t] = {}]
    /\ write' = [write EXCEPT ![t] = NoWrite]

\* Persons are locked in ascending order; the links of one UPDATE in any.
InTurn(t, w) == pc[t] = "guardian" => \A v \in want[t] : w[1][2] <= v[1][2]

TakeLock(t) ==
    \E w \in want[t] :
        /\ InTurn(t, w)
        /\ \A u \in Tx \ {t} : ~Collides(held[u], w)
        /\ want' = [want EXCEPT ![t] = @ \ {w}]
        /\ held' = [held EXCEPT ![t] = @ \union {w}]
        /\ UNCHANGED <<pc, op, write>> /\ UNCHANGED dbVars

Commit(t) ==
    LET w == write[t] IN
    /\ pc[t] = "write"
    /\ removed' = removed \union w.gone
    /\ live' = (live \ w.ends) \union w.starts
    /\ account' = [g \in Guardian |-> CASE g \in w.opens -> "open"
                                        [] g \in w.closes -> "closed"
                                        [] OTHER -> account[g]]
    /\ bell' = (bell \ w.prunes) \union w.rings
    /\ leave' = [r \in Leave |-> IF r \in DOMAIN w.leave THEN w.leave[r] ELSE leave[r]]
    /\ End(t)

\* A refusal, a statement timeout, a lost connection, the victim of a
\* deadlock: rolled back at any point.
Abort(t) ==
    /\ pc[t] \notin {"idle", "ended"}
    /\ End(t) /\ UNCHANGED dbVars

-----------------------------------------------------------------------------
(* addGuardian.                                                            *)

AddGuardian(t) ==
    \E p \in Family :
        Begin(t, [NoOp EXCEPT !.kind = "add", !.g = p[1], !.c = p[2]], "student",
              {Lock(ChildRow(p[2]), "no_key_update")})

\* How the guardian's row is locked: one who is not there yet is inserted,
\* with the phone's unique index in the way of a second insert.
NewGuardian(t) == IF account[op[t].g] = "none" THEN "update" ELSE "no_key_update"

\* requireLiveStudent, then findGuardianCandidate: a removed colleague's phone
\* is "taken" (another person, with a generated username).
AddFindsGuardian(t) ==
    LET o == op[t] IN
    /\ At(t, "add", "student")
    /\ Here(ChildRow(o.c)) /\ Here(GuardianRow(o.g))
    /\ Then(t, "guardian", {Lock(GuardianRow(o.g), NewGuardian(t))})

\* The guardian read again under the lock: not removed meanwhile, and nobody
\* else's new login.  A restated link changes its row, an equal one does not.
AddFindsLink(t) ==
    LET o == op[t] IN
    /\ At(t, "add", "guardian")
    /\ Here(GuardianRow(o.g))
    /\ Lock(GuardianRow(o.g), "update") \in held[t] => account[o.g] = "none"
    /\ \/ Then(t, "link", {})
       \/ /\ <<o.g, o.c>> \in live
          /\ Then(t, "link", {Lock(LinkRow(o.g, o.c), "no_key_update")})

AddWrites(t) ==
    /\ At(t, "add", "link")
    /\ Write(t, Linking(op[t].g, op[t].c))

-----------------------------------------------------------------------------
(* unlinkGuardian, of a link that is live when it is first read.           *)

UnlinkGuardian(t) ==
    \E p \in live :
        Begin(t, [NoOp EXCEPT !.kind = "unlink", !.g = p[1], !.c = p[2]], "student",
              {Lock(ChildRow(p[2]), "no_key_update")})

UnlinkLocksGuardian(t) ==
    /\ At(t, "unlink", "student")
    /\ Then(t, "guardian", {Lock(GuardianRow(op[t].g), "no_key_update")})

UnlinkLocksLink(t) ==
    LET o == op[t] IN
    /\ At(t, "unlink", "guardian")
    /\ <<o.g, o.c>> \in live
    /\ Then(t, "link", {Lock(LinkRow(o.g, o.c), "no_key_update")})

UnlinkWrites(t) ==
    /\ At(t, "unlink", "link")
    /\ Write(t, Ending({<<op[t].g, op[t].c>>} \intersect live))

-----------------------------------------------------------------------------
(* removePerson, of a student: the person row, the profile ('withdrawn'),  *)
(* the guardians of the links read then, the links, the logins.            *)

RemoveStudent(t) ==
    \E c \in Child :
        Begin(t, [NoOp EXCEPT !.kind = "remove_student", !.c = c], "student",
              {Lock(ChildRow(c), "update")})

RemoveStudentLocksProfile(t) ==
    LET c == op[t].c IN
    /\ At(t, "remove_student", "student")
    /\ Then(t, "profile", IF Here(ChildRow(c)) THEN {Lock(ProfileRow(c), "no_key_update")} ELSE {})

\* (mutant of GuardiansOf: the guardians' rows are not locked)
GuardiansOf_unlocked(c) == {}

\* endGuardianLinksOfStudent's first read, and its locks.
GuardiansOf(c) == {Lock(GuardianRow(g), "no_key_update") : g \in {p[1] : p \in {q \in live : q[2] = c}}}

RemoveStudentLocksGuardians(t) ==
    /\ At(t, "remove_student", "profile")
    /\ Then(t, "guardian", GuardiansOf(op[t].c))

LinkLocks(pairs) == {Lock(LinkRow(p[1], p[2]), "no_key_update") : p \in pairs}

RemoveStudentLocksLinks(t) ==
    /\ At(t, "remove_student", "guardian")
    /\ Then(t, "link", LinkLocks({p \in live : p[2] = op[t].c}))

RemoveStudentWrites(t) ==
    LET c == op[t].c IN
    /\ At(t, "remove_student", "link")
    /\ Write(t, [Ending({p \in live : p[2] = c}) EXCEPT !.gone = {ChildRow(c)}])

-----------------------------------------------------------------------------
(* removePerson, of a colleague who is a guardian: own links, own login.   *)

RemoveStaff(t) ==
    \E g \in Colleague :
        Begin(t, [NoOp EXCEPT !.kind = "remove_staff", !.g = g], "guardian",
              {Lock(GuardianRow(g), "update")})

RemoveStaffLocksLinks(t) ==
    /\ At(t, "remove_staff", "guardian")
    /\ Then(t, "link", LinkLocks({p \in live : p[1] = op[t].g}))

RemoveStaffWrites(t) ==
    LET g == op[t].g IN
    /\ At(t, "remove_staff", "link")
    /\ Write(t, [Ending({p \in live : p[1] = g}) EXCEPT
                    !.closes = {g}, !.gone = {GuardianRow(g)}])

-----------------------------------------------------------------------------
(* The guardians' bell: an absence, a complete report card, an early exit. *)

Tell(t) ==
    \E c \in Child, actor \in {0} \union Colleague :
        /\ Here(ChildRow(c)) /\ LiveGuardians(c, actor) # {}
        /\ Begin(t, [NoOp EXCEPT !.kind = "tell", !.g = actor, !.c = c], "guardian", Told(c, actor))

\* The links are read again under the locks; who was linked since is left out.
Rings(t, c) == {<<g, c>> : g \in LiveGuardians(c, op[t].g) \intersect Locked(t)}

TellWrites(t) ==
    /\ At(t, "tell", "guardian")
    /\ Write(t, [NoWrite EXCEPT !.rings = Rings(t, op[t].c)])

-----------------------------------------------------------------------------
(* Leave requests.                                                         *)

\* (mutants of AskedLink, AskedProfile: the row is read, not locked)
AskedLink_unlocked(g, c) == {}
AskedProfile_unlocked(c) == {}

AskedLink(g, c) == {Lock(LinkRow(g, c), "no_key_update")}
AskedProfile(c) == {Lock(ProfileRow(c), "no_key_update")}

AskLeave(t) ==
    \E g \in Guardian, c \in Child, s \in Span :
        /\ IsChildOf(c, g)
        /\ \E r \in Leave : leave[r] = NoLeave
        /\ Begin(t, [NoOp EXCEPT !.kind = "ask", !.g = g, !.c = c, !.span = s], "link", AskedLink(g, c))

AskLocksProfile(t) ==
    LET o == op[t] IN
    /\ At(t, "ask", "link")
    /\ <<o.g, o.c>> \in live
    /\ Then(t, "profile", AskedProfile(o.c))

\* The checks, then the insert, whose foreign key takes the guardian's row.
AskInserts(t) ==
    LET o == op[t] IN
    /\ At(t, "ask", "profile")
    /\ MayAsk(o.c, o.span)
    /\ Then(t, "guardian", {Lock(GuardianRow(o.g), "key_share")})

NewLeave(o) == [by |-> o.g, child |-> o.c, span |-> o.span, status |-> "pending"]

AskWrites(t) ==
    /\ At(t, "ask", "guardian")
    /\ \E r \in Leave :
        /\ leave[r] = NoLeave
        /\ \A u \in Tx : r \notin DOMAIN write[u].leave
        /\ \A q \in 1 .. (r - 1) : leave[q] # NoLeave \/ \E u \in Tx : q \in DOMAIN write[u].leave
        /\ Write(t, [NoWrite EXCEPT !.leave = [q \in {r} |-> NewLeave(op[t])]])

CancelLeave(t) ==
    \E r \in Leave :
        LET l == leave[r] IN
        /\ StillPending(r) /\ IsChildOf(l.child, l.by)
        /\ Begin(t, [NoOp EXCEPT !.kind = "cancel", !.g = l.by, !.c = l.child, !.leave = r, !.to = "cancelled"],
                 "leave", {Lock(LeaveRow(r), "no_key_update")})

\* The UPDATE finds the row pending after its wait, or refuses.
Decided(t) == [r \in {op[t].leave} |-> [leave[r] EXCEPT !.status = op[t].to]]

CancelWrites(t) ==
    /\ At(t, "cancel", "leave")
    /\ StillPending(op[t].leave)
    /\ Write(t, [NoWrite EXCEPT !.leave = Decided(t)])

DecideLeave(t) ==
    \E r \in Leave, to \in {"approved", "rejected"}, actor \in {0} \union Colleague :
        /\ StillPending(r)
        /\ Begin(t, [NoOp EXCEPT !.kind = "decide", !.g = actor, !.c = leave[r].child, !.leave = r, !.to = to],
                 "leave", {Lock(LeaveRow(r), "no_key_update")})

DecideTells(t) ==
    LET o == op[t] IN
    /\ At(t, "decide", "leave")
    /\ StillPending(o.leave)
    /\ Then(t, "guardian", Told(o.c, o.g))

DecideWrites(t) ==
    /\ At(t, "decide", "guardian")
    /\ Write(t, [NoWrite EXCEPT !.leave = Decided(t), !.rings = Rings(t, op[t].c)])

-----------------------------------------------------------------------------
\* The database as earlier requests may have left it: some links, with the
\* logins they opened and maybe a bell about the child; a login of a former
\* guardian that was closed; no leave request yet.
Init ==
    /\ removed = {}
    /\ live \in SUBSET Family
    /\ bell \in {{}, live}
    /\ account \in [Guardian -> {"none", "open", "closed"}]
    /\ \A g \in Guardian :
          IF g \in Colleague \/ \E c \in Child : <<g, c>> \in live
          THEN account[g] = "open" ELSE account[g] # "open"
    /\ leave = [r \in Leave |-> NoLeave]
    /\ pc = [t \in Tx |-> "idle"]
    /\ op = [t \in Tx |-> NoOp]
    /\ want = [t \in Tx |-> {}]
    /\ held = [t \in Tx |-> {}]
    /\ write = [t \in Tx |-> NoWrite]

Links(t) ==
    \/ AddGuardian(t) \/ AddFindsGuardian(t) \/ AddFindsLink(t) \/ AddWrites(t)
    \/ UnlinkGuardian(t) \/ UnlinkLocksGuardian(t) \/ UnlinkLocksLink(t) \/ UnlinkWrites(t)

Removals(t) ==
    \/ RemoveStudent(t) \/ RemoveStudentLocksProfile(t) \/ RemoveStudentLocksGuardians(t)
    \/ RemoveStudentLocksLinks(t) \/ RemoveStudentWrites(t)
    \/ RemoveStaff(t) \/ RemoveStaffLocksLinks(t) \/ RemoveStaffWrites(t)

Leaves(t) ==
    \/ AskLeave(t) \/ AskLocksProfile(t) \/ AskInserts(t) \/ AskWrites(t)
    \/ CancelLeave(t) \/ CancelWrites(t)
    \/ DecideLeave(t) \/ DecideTells(t) \/ DecideWrites(t)

Next ==
    \E t \in Tx : \/ Links(t) \/ Removals(t) \/ Leaves(t)
                  \/ Tell(t) \/ TellWrites(t)
                  \/ TakeLock(t) \/ Commit(t) \/ Abort(t)

Spec == Init /\ [][Next]_vars

-----------------------------------------------------------------------------
(* Properties.                                                             *)

\* Every variable has its shape, the uncommitted writes of a transaction too,
\* and a transaction has a request while it is busy.
TypeOK ==
    /\ removed \subseteq Row
    /\ live \subseteq Pair
    /\ account \in [Guardian -> {"none", "open", "closed"}]
    /\ bell \subseteq Pair
    /\ leave \in [Leave -> LeaveRequest]
    /\ pc \in [Tx -> Phase]
    /\ op \in [Tx -> Op]
    /\ \A t \in Tx : op[t].kind = "none" <=> pc[t] \in {"idle", "ended"}
    /\ want \in [Tx -> SUBSET (Row \X Mode)]
    /\ held \in [Tx -> SUBSET (Row \X Mode)]
    /\ write \in [Tx -> Writes]

\* A guardian's login is open exactly while a live link is theirs ("no live
\* link left on a closed account, no account closed under a live link",
\* guardian.ts "Concurrency"), and no live link points at a removed person
\* (endGuardianLinksOfGuardian), child or colleague, whichever of an unlink,
\* a removal and a new link of the same guardian commits first.
AccessFollowsLinks ==
    /\ \A g \in Guardian \ Colleague : account[g] = "open" <=> \E c \in Child : <<g, c>> \in live
    /\ \A p \in live : Here(GuardianRow(p[1])) /\ Here(ChildRow(p[2]))

\* No bell about a former child outlives the link's end (guardian-notify.ts,
\* security review D2 and D4): a bell that is being written while a link ends
\* is withdrawn with it, or never written.
NoFormerChild == bell \subseteq live

\* Two live leave requests of a child never overlap and no more than
\* LEAVE_MAX_PENDING wait, however many guardians ask at once
\* (guardian-leave.ts).
LeavesKeepApart ==
    \A c \in Child :
        /\ \A r, q \in LeavesOf(c, {"pending", "approved"}) :
              r # q => leave[r].span \intersect leave[q].span = {}
        /\ Cardinality(LeavesOf(c, {"pending"})) <= MaxPending

\* A leave request enters only while the link of the guardian who asks is
\* live: one that is ending is waited for and then seen (guardian-leave.ts).
AskedWhileLinked ==
    [][\A r \in Leave :
         leave[r] = NoLeave /\ leave'[r] # NoLeave => <<leave'[r].by, leave'[r].child>> \in live]_leave

\* The answer that lands first stands: a request that was decided or
\* cancelled never changes again (decideLeave, cancelLeave).
FirstAnswerStands ==
    [][\A r \in Leave :
         leave'[r] # leave[r] => leave[r] = NoLeave \/ leave[r].status = "pending"]_leave

Waits(t, u) == u # t /\ \E w \in want[t] : InTurn(t, w) /\ Collides(held[u], w)

\* "The same in every transaction, so none waits on another in a circle"
\* (iam/removal.ts, whose lock order guardian.ts follows).
NoCircularWait ==
    \A S \in (SUBSET Tx) \ {{}} : \E t \in S : \A u \in S : ~Waits(t, u)
=============================================================================
