--------------------------- MODULE GuardiansProofs ---------------------------
(***************************************************************************)
(* Theorems about Guardians, for any guardians, children, connections and  *)
(* leave requests: a login is open exactly under a live link, no bell      *)
(* about a former child survives, leave requests keep apart, enter under a *)
(* live link and are answered once.                                        *)
(*                                                                         *)
(* The argument is the code's own: what a transaction read under its row   *)
(* locks stays as it was until it ends (`Knows`), because whoever else     *)
(* writes it holds the same row (`Covered`).                               *)
(***************************************************************************)
EXTENDS Guardians, FiniteSetTheorems, TLAPS

-----------------------------------------------------------------------------
(* Types.                                                                  *)

\* What a request names, by its kind.
Fits(o) ==
    /\ o.kind \in {"add", "unlink", "ask"} => o.g \in Guardian
    /\ o.kind \in {"add", "unlink", "ask", "remove_student", "tell", "decide"} => o.c \in Child
    /\ o.kind = "remove_staff" => o.g \in Colleague
    /\ o.kind = "ask" => o.span \in Span
    /\ o.kind \in {"cancel", "decide"} =>
          /\ o.leave \in Leave /\ leave[o.leave] # NoLeave
          /\ o.to \in {"cancelled", "approved", "rejected"}

TInv == TypeOK /\ \A t \in Tx : Fits(op[t])

Busy == Phase \ {"idle", "ended"}
Locks == Row \X Mode

LEMMA RowTypes ==
    /\ \A c \in Child : ChildRow(c) \in Row /\ ProfileRow(c) \in Row
    /\ \A g \in Guardian : GuardianRow(g) \in Row
    /\ \A g \in Guardian, c \in Child : LinkRow(g, c) \in Row
    /\ \A r \in Leave : LeaveRow(r) \in Row
<1>1. \A g \in Guardian, c \in Child : LinkRow(g, c) \in Row
  <2> SUFFICES ASSUME NEW g \in Guardian, NEW c \in Child
               PROVE  LinkRow(g, c) \in {LinkRow(p[1], p[2]) : p \in Pair}
    BY DEF Row
  <2>1. <<g, c>> \in Pair /\ <<g, c>>[1] = g /\ <<g, c>>[2] = c
    BY DEF Pair
  <2> QED BY <2>1
<1> QED BY <1>1 DEF Row

LEMMA LockType ==
    ASSUME NEW row \in Row, NEW m \in Mode
    PROVE  Lock(row, m) \in Locks
BY DEF Lock, Locks

LEMMA ToldType ==
    ASSUME NEW c, NEW a
    PROVE  Told(c, a) \subseteq Locks
BY RowTypes, LockType DEF Told, LiveGuardians, ToldMode, Mode

LEMMA BeginType ==
    ASSUME TInv, NEW t \in Tx, NEW o \in Op, NEW phase \in Busy, NEW locks \in SUBSET Locks,
           Begin(t, o, phase, locks), o.kind # "none", Fits(o)
    PROVE  TInv'
<1>1. TypeOK'
  BY DEF TInv, TypeOK, Begin, dbVars, Busy, Locks
<1>2. ASSUME NEW u \in Tx PROVE Fits(op[u])'
  BY DEF TInv, TypeOK, Begin, dbVars, Fits
<1> QED BY <1>1, <1>2 DEF TInv

LEMMA ThenType ==
    ASSUME TInv, NEW t \in Tx, NEW phase \in Busy, NEW locks \in SUBSET Locks,
           Then(t, phase, locks), pc[t] \in Busy
    PROVE  TInv'
<1>1. TypeOK'
  BY DEF TInv, TypeOK, Then, dbVars, Busy, Locks
<1>2. ASSUME NEW u \in Tx PROVE Fits(op[u])'
  BY DEF TInv, TypeOK, Then, dbVars, Fits
<1> QED BY <1>1, <1>2 DEF TInv

LEMMA WriteType ==
    ASSUME TInv, NEW t \in Tx, NEW w \in Writes, Write(t, w), pc[t] \in Busy
    PROVE  TInv'
<1>1. TypeOK'
  BY DEF TInv, TypeOK, Write, dbVars, Busy, Phase
<1>2. ASSUME NEW u \in Tx PROVE Fits(op[u])'
  BY DEF TInv, TypeOK, Write, dbVars, Fits
<1> QED BY <1>1, <1>2 DEF TInv

LEMMA NoWriteType == NoWrite \in Writes
<1>1. {} \in SUBSET Leave
  OBVIOUS
<1>2. [r \in {} |-> NoLeave] \in [{} -> LeaveRequest \ {NoLeave}]
  OBVIOUS
<1>3. [r \in {} |-> NoLeave] \in UNION {[D -> LeaveRequest \ {NoLeave}] : D \in SUBSET Leave}
  BY <1>1, <1>2
<1> QED BY <1>3 DEF NoWrite, Writes

LEMMA EndType ==
    ASSUME NEW t \in Tx, pc \in [Tx -> Phase], op \in [Tx -> Op],
           \A u \in Tx : op[u].kind = "none" <=> pc[u] \in {"idle", "ended"},
           want \in [Tx -> SUBSET Locks], held \in [Tx -> SUBSET Locks], write \in [Tx -> Writes],
           End(t)
    PROVE  /\ pc' \in [Tx -> Phase] /\ op' \in [Tx -> Op]
           /\ \A u \in Tx : op'[u].kind = "none" <=> pc'[u] \in {"idle", "ended"}
           /\ want' \in [Tx -> SUBSET Locks] /\ held' \in [Tx -> SUBSET Locks]
           /\ write' \in [Tx -> Writes]
           /\ \A u \in Tx : op'[u] = op[u] \/ op'[u] = NoOp
<1>1. NoOp \in Op /\ NoOp.kind = "none"
  BY DEF NoOp, Op, Kind
<1> QED BY <1>1, NoWriteType DEF End, Phase

\* What is committed has its type, and no leave request disappears.
LEMMA CommitType ==
    ASSUME TInv, NEW t \in Tx, Commit(t)
    PROVE  TInv'
<1> DEFINE w == write[t]
<1>0. w \in Writes
  BY DEF TInv, TypeOK
<1>1. /\ removed' \subseteq Row /\ live' \subseteq Pair /\ bell' \subseteq Pair
      /\ account' \in [Guardian -> {"none", "open", "closed"}]
  BY <1>0 DEF Commit, TInv, TypeOK, Writes
<1>2. PICK D \in SUBSET Leave : w.leave \in [D -> LeaveRequest \ {NoLeave}]
  BY <1>0 DEF Writes
<1>3. /\ leave' \in [Leave -> LeaveRequest]
      /\ \A r \in Leave : leave[r] # NoLeave => leave'[r] # NoLeave
  BY <1>2 DEF Commit, TInv, TypeOK
<1>4. /\ pc' \in [Tx -> Phase] /\ op' \in [Tx -> Op]
      /\ \A u \in Tx : op'[u].kind = "none" <=> pc'[u] \in {"idle", "ended"}
      /\ want' \in [Tx -> SUBSET Locks] /\ held' \in [Tx -> SUBSET Locks]
      /\ write' \in [Tx -> Writes]
      /\ \A u \in Tx : op'[u] = op[u] \/ op'[u] = NoOp
  BY EndType DEF Commit, TInv, TypeOK, Locks
<1>5. \A u \in Tx : Fits(op[u])'
  BY <1>3, <1>4 DEF TInv, Fits, NoOp
<1> QED BY <1>1, <1>3, <1>4, <1>5 DEF TInv, TypeOK, Locks

LEMMA AbortType ==
    ASSUME TInv, NEW t \in Tx, Abort(t)
    PROVE  TInv'
<1>1. /\ pc' \in [Tx -> Phase] /\ op' \in [Tx -> Op]
      /\ \A u \in Tx : op'[u].kind = "none" <=> pc'[u] \in {"idle", "ended"}
      /\ want' \in [Tx -> SUBSET Locks] /\ held' \in [Tx -> SUBSET Locks]
      /\ write' \in [Tx -> Writes]
      /\ \A u \in Tx : op'[u] = op[u] \/ op'[u] = NoOp
  BY EndType DEF Abort, TInv, TypeOK, Locks
<1>2. \A u \in Tx : Fits(op[u])'
  BY <1>1 DEF Abort, dbVars, TInv, Fits, NoOp
<1> QED BY <1>1, <1>2 DEF TInv, TypeOK, Locks, Abort, dbVars

LEMMA TakeLockType ==
    ASSUME TInv, NEW t \in Tx, TakeLock(t)
    PROVE  TInv'
<1>1. PICK w \in want[t] : /\ want' = [want EXCEPT ![t] = @ \ {w}]
                           /\ held' = [held EXCEPT ![t] = @ \union {w}]
                           /\ UNCHANGED <<pc, op, write>> /\ UNCHANGED dbVars
  BY DEF TakeLock
<1>2. TypeOK'
  BY <1>1 DEF TInv, TypeOK, dbVars
<1>3. \A u \in Tx : Fits(op[u])'
  BY <1>1 DEF TInv, Fits, dbVars
<1> QED BY <1>2, <1>3 DEF TInv

LEMMA EndingType ==
    ASSUME TypeOK, NEW pairs \in SUBSET live
    PROVE  Ending(pairs) \in Writes
<1>1. NoWrite \in Writes
  BY NoWriteType
<1> DEFINE left == live \ pairs
           who == {p[1] : p \in pairs}
           orphans == {g \in who \ Colleague : \A c \in Child : <<g, c>> \notin left}
           closed == {g \in orphans : account[g] = "open"}
           pruned == {p \in bell : p[1] \in who /\ p \notin left}
<1>2. pairs \in SUBSET Pair /\ closed \in SUBSET Guardian /\ pruned \in SUBSET Pair
  BY DEF TypeOK, Pair
<1>3. Ending(pairs) = [NoWrite EXCEPT !.ends = pairs, !.closes = closed, !.prunes = pruned]
  BY DEF Ending
<1> HIDE DEF closed, pruned
<1> QED BY <1>1, <1>2, <1>3 DEF Writes

LEMMA LinkingType ==
    ASSUME TypeOK, NEW g \in Guardian, NEW c \in Child
    PROVE  Linking(g, c) \in Writes
<1>1. NoWrite \in Writes
  BY NoWriteType
<1>2. <<g, c>> \in Pair
  BY DEF Pair
<1> QED BY <1>1, <1>2 DEF Linking, Writes, TypeOK

LEMMA RingsType ==
    ASSUME TypeOK, NEW t \in Tx, NEW c \in Child
    PROVE  Rings(t, c) \in SUBSET Pair
<1>1. LiveGuardians(c, op[t].g) \subseteq Guardian
  BY DEF LiveGuardians
<1>2. \A g \in LiveGuardians(c, op[t].g) \intersect Locked(t) : <<g, c>> \in Pair
  BY <1>1 DEF Pair
<1> QED BY <1>2 DEF Rings

\* One leave request, written.
LEMMA OneLeaveType ==
    ASSUME NEW r \in Leave, NEW l \in LeaveRequest \ {NoLeave}
    PROVE  [q \in {r} |-> l] \in UNION {[D -> LeaveRequest \ {NoLeave}] : D \in SUBSET Leave}
<1>1. {r} \in SUBSET Leave /\ [q \in {r} |-> l] \in [{r} -> LeaveRequest \ {NoLeave}]
  OBVIOUS
<1> QED BY <1>1

LEMMA NewLeaveType ==
    ASSUME NEW o, o.g \in Guardian, o.c \in Child, o.span \in Span
    PROVE  NewLeave(o) \in LeaveRequest \ {NoLeave}
BY DEF NewLeave, LeaveRequest, NoLeave

LEMMA DecidedType ==
    ASSUME TInv, NEW t \in Tx, op[t].kind \in {"cancel", "decide"}
    PROVE  Decided(t) \in UNION {[D -> LeaveRequest \ {NoLeave}] : D \in SUBSET Leave}
<1> DEFINE r == op[t].leave
           l == [leave[r] EXCEPT !.status = op[t].to]
<1>1. r \in Leave /\ leave[r] \in LeaveRequest \ {NoLeave}
      /\ op[t].to \in {"cancelled", "approved", "rejected"}
  BY DEF TInv, TypeOK, Fits
<1>2. l \in LeaveRequest \ {NoLeave}
  BY <1>1 DEF LeaveRequest, NoLeave
<1>3. Decided(t) = [q \in {r} |-> l]
  BY DEF Decided
<1> HIDE DEF l
<1> QED BY <1>1, <1>2, <1>3, OneLeaveType

LEMMA LinkLocksType ==
    ASSUME TypeOK, NEW pairs \in SUBSET live
    PROVE  LinkLocks(pairs) \in SUBSET Locks
<1>1. ASSUME NEW p \in pairs PROVE Lock(LinkRow(p[1], p[2]), "no_key_update") \in Locks
  <2>1. p[1] \in Guardian /\ p[2] \in Child
    BY DEF TypeOK, Pair
  <2> QED BY <2>1, RowTypes, LockType DEF Mode
<1> QED BY <1>1 DEF LinkLocks

LEMMA GuardiansOfType ==
    ASSUME TypeOK, NEW c \in Child
    PROVE  GuardiansOf(c) \in SUBSET Locks
<1>1. \A p \in live : p[1] \in Guardian
  BY DEF TypeOK, Pair
<1>2. \A p \in live : Lock(GuardianRow(p[1]), "no_key_update") \in Locks
  BY <1>1, RowTypes, LockType DEF Mode
<1> QED BY <1>2 DEF GuardiansOf

LEMMA LinksType ==
    ASSUME TInv, NEW t \in Tx, Links(t)
    PROVE  TInv'
<1> USE DEF TInv
<1>0. \A k, ph : At(t, k, ph) => op[t].kind = k /\ pc[t] = ph
  BY DEF At
<1>1. CASE AddGuardian(t)
  <2>1. PICK p \in Family :
          Begin(t, [NoOp EXCEPT !.kind = "add", !.g = p[1], !.c = p[2]], "student",
                {Lock(ChildRow(p[2]), "no_key_update")})
    BY <1>1 DEF AddGuardian
  <2>2. p[1] \in Guardian /\ p[2] \in Child
    BY GuardiansAssumption DEF Pair
  <2>3. {Lock(ChildRow(p[2]), "no_key_update")} \in SUBSET Locks
    BY <2>2, RowTypes, LockType DEF Mode
  <2> DEFINE o == [NoOp EXCEPT !.kind = "add", !.g = p[1], !.c = p[2]]
  <2>4. o \in Op /\ o.kind # "none" /\ Fits(o)
    BY <2>2 DEF NoOp, Op, Kind, Fits
  <2> HIDE DEF o
  <2> QED BY <2>1, <2>3, <2>4, BeginType DEF Busy, Phase, o
<1>2. CASE AddFindsGuardian(t)
  <2>1. {Lock(GuardianRow(op[t].g), NewGuardian(t))} \in SUBSET Locks
    BY <1>0, <1>2, RowTypes, LockType DEF AddFindsGuardian, Fits, NewGuardian, Mode
  <2> QED BY <1>0, <1>2, <2>1, ThenType DEF AddFindsGuardian, Busy, Phase
<1>3. CASE AddFindsLink(t)
  <2>1. {Lock(LinkRow(op[t].g, op[t].c), "no_key_update")} \in SUBSET Locks
    BY <1>0, <1>3, RowTypes, LockType DEF AddFindsLink, Fits, Mode
  <2>2. PICK locks \in SUBSET Locks : Then(t, "link", locks)
    BY <1>3, <2>1 DEF AddFindsLink
  <2> QED BY <1>0, <1>3, <2>2, ThenType DEF AddFindsLink, Busy, Phase
<1>4. CASE AddWrites(t)
  BY <1>0, <1>4, LinkingType, WriteType DEF AddWrites, Fits, Busy, Phase
<1>5. CASE UnlinkGuardian(t)
  <2>1. PICK p \in live :
          Begin(t, [NoOp EXCEPT !.kind = "unlink", !.g = p[1], !.c = p[2]], "student",
                {Lock(ChildRow(p[2]), "no_key_update")})
    BY <1>5 DEF UnlinkGuardian
  <2>2. p[1] \in Guardian /\ p[2] \in Child
    BY DEF TypeOK, Pair
  <2>3. {Lock(ChildRow(p[2]), "no_key_update")} \in SUBSET Locks
    BY <2>2, RowTypes, LockType DEF Mode
  <2> DEFINE o == [NoOp EXCEPT !.kind = "unlink", !.g = p[1], !.c = p[2]]
  <2>4. o \in Op /\ o.kind # "none" /\ Fits(o)
    BY <2>2 DEF NoOp, Op, Kind, Fits
  <2> HIDE DEF o
  <2> QED BY <2>1, <2>3, <2>4, BeginType DEF Busy, Phase, o
<1>6. CASE UnlinkLocksGuardian(t)
  <2>1. {Lock(GuardianRow(op[t].g), "no_key_update")} \in SUBSET Locks
    BY <1>0, <1>6, RowTypes, LockType DEF UnlinkLocksGuardian, Fits, Mode
  <2> QED BY <1>0, <1>6, <2>1, ThenType DEF UnlinkLocksGuardian, Busy, Phase
<1>7. CASE UnlinkLocksLink(t)
  <2>1. {Lock(LinkRow(op[t].g, op[t].c), "no_key_update")} \in SUBSET Locks
    BY <1>0, <1>7, RowTypes, LockType DEF UnlinkLocksLink, Fits, Mode
  <2> QED BY <1>0, <1>7, <2>1, ThenType DEF UnlinkLocksLink, Busy, Phase
<1>8. CASE UnlinkWrites(t)
  <2>1. Ending({<<op[t].g, op[t].c>>} \intersect live) \in Writes
    BY EndingType
  <2> QED BY <1>0, <1>8, <2>1, WriteType DEF UnlinkWrites, Busy, Phase
<1> QED BY <1>1, <1>2, <1>3, <1>4, <1>5, <1>6, <1>7, <1>8 DEF Links

LEMMA RemovalsType ==
    ASSUME TInv, NEW t \in Tx, Removals(t)
    PROVE  TInv'
<1> USE DEF TInv
<1>0. \A k, ph : At(t, k, ph) => op[t].kind = k /\ pc[t] = ph
  BY DEF At
<1>1. CASE RemoveStudent(t)
  <2>1. PICK c \in Child :
          Begin(t, [NoOp EXCEPT !.kind = "remove_student", !.c = c], "student",
                {Lock(ChildRow(c), "update")})
    BY <1>1 DEF RemoveStudent
  <2>2. {Lock(ChildRow(c), "update")} \in SUBSET Locks
    BY RowTypes, LockType DEF Mode
  <2> DEFINE o == [NoOp EXCEPT !.kind = "remove_student", !.c = c]
  <2>3. o \in Op /\ o.kind # "none" /\ Fits(o)
    BY DEF NoOp, Op, Kind, Fits
  <2> HIDE DEF o
  <2> QED BY <2>1, <2>2, <2>3, BeginType DEF Busy, Phase, o
<1>2. CASE RemoveStudentLocksProfile(t)
  <2>1. Lock(ProfileRow(op[t].c), "no_key_update") \in Locks
    BY <1>0, <1>2, RowTypes, LockType DEF RemoveStudentLocksProfile, Fits, Mode
  <2>2. PICK locks \in SUBSET Locks : Then(t, "profile", locks)
    BY <1>2, <2>1 DEF RemoveStudentLocksProfile
  <2> QED BY <1>0, <1>2, <2>2, ThenType DEF RemoveStudentLocksProfile, Busy, Phase
<1>3. CASE RemoveStudentLocksGuardians(t)
  BY <1>0, <1>3, GuardiansOfType, ThenType DEF RemoveStudentLocksGuardians, Fits, Busy, Phase
<1>4. CASE RemoveStudentLocksLinks(t)
  <2>1. LinkLocks({p \in live : p[2] = op[t].c}) \in SUBSET Locks
    BY LinkLocksType
  <2> QED BY <1>0, <1>4, <2>1, ThenType DEF RemoveStudentLocksLinks, Busy, Phase
<1>5. CASE RemoveStudentWrites(t)
  <2> DEFINE w == [Ending({p \in live : p[2] = op[t].c}) EXCEPT !.gone = {ChildRow(op[t].c)}]
  <2>1. Ending({p \in live : p[2] = op[t].c}) \in Writes
    BY EndingType
  <2>2. {ChildRow(op[t].c)} \in SUBSET Row
    BY <1>0, <1>5, RowTypes DEF RemoveStudentWrites, Fits
  <2>3. w \in Writes
    BY <2>1, <2>2 DEF Writes
  <2>4. Write(t, w)
    BY <1>5 DEF RemoveStudentWrites
  <2> HIDE DEF w
  <2> QED BY <1>0, <1>5, <2>3, <2>4, WriteType DEF RemoveStudentWrites, Busy, Phase
<1>6. CASE RemoveStaff(t)
  <2>1. PICK g \in Colleague :
          Begin(t, [NoOp EXCEPT !.kind = "remove_staff", !.g = g], "guardian",
                {Lock(GuardianRow(g), "update")})
    BY <1>6 DEF RemoveStaff
  <2>0. g \in Guardian
    BY GuardiansAssumption
  <2>2. {Lock(GuardianRow(g), "update")} \in SUBSET Locks
    BY <2>0, RowTypes, LockType DEF Mode
  <2> DEFINE o == [NoOp EXCEPT !.kind = "remove_staff", !.g = g]
  <2>3. o \in Op /\ o.kind # "none" /\ Fits(o)
    BY <2>0 DEF NoOp, Op, Kind, Fits
  <2> HIDE DEF o
  <2> QED BY <2>1, <2>2, <2>3, BeginType DEF Busy, Phase, o
<1>7. CASE RemoveStaffLocksLinks(t)
  <2>1. LinkLocks({p \in live : p[1] = op[t].g}) \in SUBSET Locks
    BY LinkLocksType
  <2> QED BY <1>0, <1>7, <2>1, ThenType DEF RemoveStaffLocksLinks, Busy, Phase
<1>8. CASE RemoveStaffWrites(t)
  <2> DEFINE g == op[t].g
             w == [Ending({p \in live : p[1] = g}) EXCEPT !.closes = {g}, !.gone = {GuardianRow(g)}]
  <2>1. Ending({p \in live : p[1] = g}) \in Writes
    BY EndingType
  <2>2. g \in Guardian
    BY <1>0, <1>8, GuardiansAssumption DEF RemoveStaffWrites, Fits
  <2>3. {GuardianRow(g)} \in SUBSET Row
    BY <2>2, RowTypes
  <2>4. w \in Writes
    BY <2>1, <2>2, <2>3 DEF Writes
  <2>5. Write(t, w)
    BY <1>8 DEF RemoveStaffWrites
  <2> HIDE DEF w
  <2> QED BY <1>0, <1>8, <2>4, <2>5, WriteType DEF RemoveStaffWrites, Busy, Phase
<1> QED BY <1>1, <1>2, <1>3, <1>4, <1>5, <1>6, <1>7, <1>8 DEF Removals

LEMMA TellsType ==
    ASSUME TInv, NEW t \in Tx, Tell(t) \/ TellWrites(t)
    PROVE  TInv'
<1> USE DEF TInv
<1>0. \A k, ph : At(t, k, ph) => op[t].kind = k /\ pc[t] = ph
  BY DEF At
<1>1. CASE Tell(t)
  <2>1. PICK c \in Child, a \in {0} \union Colleague :
          Begin(t, [NoOp EXCEPT !.kind = "tell", !.g = a, !.c = c], "guardian", Told(c, a))
    BY <1>1 DEF Tell
  <2>2. Told(c, a) \in SUBSET Locks
    BY ToldType
  <2> DEFINE o == [NoOp EXCEPT !.kind = "tell", !.g = a, !.c = c]
  <2>3. o \in Op /\ o.kind # "none" /\ Fits(o)
    BY GuardiansAssumption DEF NoOp, Op, Kind, Fits
  <2> HIDE DEF o
  <2> QED BY <2>1, <2>2, <2>3, BeginType DEF Busy, Phase, o
<1>2. CASE TellWrites(t)
  <2> DEFINE w == [NoWrite EXCEPT !.rings = Rings(t, op[t].c)]
  <2>1. Rings(t, op[t].c) \in SUBSET Pair
    BY <1>0, <1>2, RingsType DEF TellWrites, Fits
  <2>2. w \in Writes
    BY <2>1, NoWriteType DEF Writes
  <2>3. Write(t, w)
    BY <1>2 DEF TellWrites
  <2> HIDE DEF w
  <2> QED BY <1>0, <1>2, <2>2, <2>3, WriteType DEF TellWrites, Busy, Phase
<1> QED BY <1>1, <1>2

LEMMA LeavesType ==
    ASSUME TInv, NEW t \in Tx, Leaves(t)
    PROVE  TInv'
<1> USE DEF TInv
<1>0. \A k, ph : At(t, k, ph) => op[t].kind = k /\ pc[t] = ph
  BY DEF At
<1>1. CASE AskLeave(t)
  <2>1. PICK g \in Guardian, c \in Child, s \in Span :
          Begin(t, [NoOp EXCEPT !.kind = "ask", !.g = g, !.c = c, !.span = s], "link", AskedLink(g, c))
    BY <1>1 DEF AskLeave
  <2>2. AskedLink(g, c) \in SUBSET Locks
    BY RowTypes, LockType DEF AskedLink, Mode
  <2> DEFINE o == [NoOp EXCEPT !.kind = "ask", !.g = g, !.c = c, !.span = s]
  <2>3. o \in Op /\ o.kind # "none" /\ Fits(o)
    BY DEF NoOp, Op, Kind, Fits
  <2> HIDE DEF o
  <2> QED BY <2>1, <2>2, <2>3, BeginType DEF Busy, Phase, o
<1>2. CASE AskLocksProfile(t)
  <2>1. AskedProfile(op[t].c) \in SUBSET Locks
    BY <1>0, <1>2, RowTypes, LockType DEF AskLocksProfile, Fits, AskedProfile, Mode
  <2> QED BY <1>0, <1>2, <2>1, ThenType DEF AskLocksProfile, Busy, Phase
<1>3. CASE AskInserts(t)
  <2>1. {Lock(GuardianRow(op[t].g), "key_share")} \in SUBSET Locks
    BY <1>0, <1>3, RowTypes, LockType DEF AskInserts, Fits, Mode
  <2> QED BY <1>0, <1>3, <2>1, ThenType DEF AskInserts, Busy, Phase
<1>4. CASE AskWrites(t)
  <2>1. PICK r \in Leave : Write(t, [NoWrite EXCEPT !.leave = [q \in {r} |-> NewLeave(op[t])]])
    BY <1>4 DEF AskWrites
  <2> DEFINE new == [q \in {r} |-> NewLeave(op[t])]
             w == [NoWrite EXCEPT !.leave = new]
  <2>2. new \in UNION {[D -> LeaveRequest \ {NoLeave}] : D \in SUBSET Leave}
    BY <1>0, <1>4, NewLeaveType, OneLeaveType DEF AskWrites, Fits
  <2> HIDE DEF new
  <2>3. w \in Writes
    BY <2>2, NoWriteType DEF Writes
  <2>4. Write(t, w)
    BY <2>1 DEF new
  <2> HIDE DEF w
  <2> QED BY <1>0, <1>4, <2>3, <2>4, WriteType DEF AskWrites, Busy, Phase
<1>5. CASE CancelLeave(t)
  <2>1. PICK r \in Leave :
          /\ StillPending(r)
          /\ Begin(t, [NoOp EXCEPT !.kind = "cancel", !.g = leave[r].by, !.c = leave[r].child,
                                   !.leave = r, !.to = "cancelled"],
                   "leave", {Lock(LeaveRow(r), "no_key_update")})
    BY <1>5 DEF CancelLeave
  <2>2. leave[r] # NoLeave /\ leave[r].by \in Guardian /\ leave[r].child \in Child
    BY <2>1 DEF StillPending, TypeOK, LeaveRequest, NoLeave
  <2>3. {Lock(LeaveRow(r), "no_key_update")} \in SUBSET Locks
    BY RowTypes, LockType DEF Mode
  <2> DEFINE o == [NoOp EXCEPT !.kind = "cancel", !.g = leave[r].by, !.c = leave[r].child,
                               !.leave = r, !.to = "cancelled"]
  <2>4. o \in Op /\ o.kind # "none" /\ Fits(o)
    BY <2>2 DEF NoOp, Op, Kind, Fits
  <2> HIDE DEF o
  <2> QED BY <2>1, <2>3, <2>4, BeginType DEF Busy, Phase, o
<1>6. CASE DecideLeave(t)
  <2>1. PICK r \in Leave, to \in {"approved", "rejected"}, a \in {0} \union Colleague :
          /\ StillPending(r)
          /\ Begin(t, [NoOp EXCEPT !.kind = "decide", !.g = a, !.c = leave[r].child,
                                   !.leave = r, !.to = to],
                   "leave", {Lock(LeaveRow(r), "no_key_update")})
    BY <1>6 DEF DecideLeave
  <2>2. leave[r] # NoLeave /\ leave[r].child \in Child
    BY <2>1 DEF StillPending, TypeOK, LeaveRequest, NoLeave
  <2>3. {Lock(LeaveRow(r), "no_key_update")} \in SUBSET Locks
    BY RowTypes, LockType DEF Mode
  <2> DEFINE o == [NoOp EXCEPT !.kind = "decide", !.g = a, !.c = leave[r].child,
                               !.leave = r, !.to = to]
  <2>4. o \in Op /\ o.kind # "none" /\ Fits(o)
    BY <2>2, GuardiansAssumption DEF NoOp, Op, Kind, Fits
  <2> HIDE DEF o
  <2> QED BY <2>1, <2>3, <2>4, BeginType DEF Busy, Phase, o
<1>7. CASE CancelWrites(t)
  <2> DEFINE w == [NoWrite EXCEPT !.leave = Decided(t)]
  <2>1. w \in Writes
    BY <1>0, <1>7, DecidedType, NoWriteType DEF CancelWrites, Writes
  <2>2. Write(t, w)
    BY <1>7 DEF CancelWrites
  <2> HIDE DEF w
  <2> QED BY <1>0, <1>7, <2>1, <2>2, WriteType DEF CancelWrites, Busy, Phase
<1>8. CASE DecideTells(t)
  <2>1. Told(op[t].c, op[t].g) \in SUBSET Locks
    BY ToldType
  <2> QED BY <1>0, <1>8, <2>1, ThenType DEF DecideTells, Busy, Phase
<1>9. CASE DecideWrites(t)
  <2> DEFINE w == [NoWrite EXCEPT !.leave = Decided(t), !.rings = Rings(t, op[t].c)]
  <2>1. Rings(t, op[t].c) \in SUBSET Pair
    BY <1>0, <1>9, RingsType DEF DecideWrites, Fits
  <2>2. w \in Writes
    BY <1>0, <1>9, <2>1, DecidedType, NoWriteType DEF DecideWrites, Writes
  <2>3. Write(t, w)
    BY <1>9 DEF DecideWrites
  <2> HIDE DEF w
  <2> QED BY <1>0, <1>9, <2>2, <2>3, WriteType DEF DecideWrites, Busy, Phase
<1> QED BY <1>1, <1>2, <1>3, <1>4, <1>5, <1>6, <1>7, <1>8, <1>9 DEF Leaves

LEMMA InitType == Init => TInv
<1> SUFFICES ASSUME Init PROVE TInv
  OBVIOUS
<1>1. NoOp \in Op /\ NoOp.kind = "none" /\ NoLeave \in LeaveRequest
  BY DEF NoOp, Op, Kind, LeaveRequest
<1>2. live \subseteq Pair /\ bell \subseteq Pair
  BY GuardiansAssumption DEF Init
<1>3. account \in [Guardian -> {"none", "open", "closed"}]
  BY DEF Init
<1>4. TypeOK
  BY <1>1, <1>2, <1>3, NoWriteType DEF Init, TypeOK, Phase
<1>5. ASSUME NEW t \in Tx PROVE Fits(op[t])
  BY DEF Init, Fits, NoOp
<1> QED BY <1>4, <1>5 DEF TInv

LEMMA TypeStep == TInv /\ [Next]_vars => TInv'
<1> SUFFICES ASSUME TInv, [Next]_vars PROVE TInv'
  OBVIOUS
<1>1. CASE UNCHANGED vars
  BY <1>1 DEF vars, TInv, TypeOK, Fits
<1>2. CASE Next
  BY <1>2, LinksType, RemovalsType, LeavesType, TellsType, TakeLockType, CommitType, AbortType
     DEF Next
<1> QED BY <1>1, <1>2

\* Every column and every transaction keeps its shape.
THEOREM GuardianTypes == Spec => []TypeOK
<1>1. TInv => TypeOK
  BY DEF TInv
<1> QED BY <1>1, InitType, TypeStep, PTL DEF Spec

-----------------------------------------------------------------------------
(* The invariant.                                                          *)

\* Locks of two transactions never collide.
LocksExclude == \A t, u \in Tx : t # u => \A w \in held[t] : ~Collides(held[u], w)

Asked(t) == held[t] \union want[t]
Strong == {"no_key_update", "update"}
Asks(t, row) == \E m \in Strong : Lock(row, m) \in Asked(t)
Holds(t, row) == \E m \in Strong : Lock(row, m) \in held[t]

\* A guardian's link: the child is locked and there, then the guardian is, and
\* what is written is right for the rows as they are.
Linker(t) ==
    LET o == op[t] IN
    /\ pc[t] = "student" => Asks(t, ChildRow(o.c))
    /\ pc[t] \in {"guardian", "link", "write"} => Holds(t, ChildRow(o.c)) /\ Here(ChildRow(o.c))
    /\ pc[t] = "guardian" => Asks(t, GuardianRow(o.g))
    /\ pc[t] \in {"link", "write"} => Holds(t, GuardianRow(o.g)) /\ Here(GuardianRow(o.g))
    /\ pc[t] = "write" => write[t] = Linking(o.g, o.c)

\* A link that ends: its guardian is locked before it is.
Ender(t, p) ==
    /\ pc[t] = "guardian" => Asks(t, GuardianRow(p[1]))
    /\ pc[t] \in {"link", "write"} => Holds(t, GuardianRow(p[1]))
    /\ pc[t] = "link" => Asks(t, LinkRow(p[1], p[2]))
    /\ pc[t] = "write" => Holds(t, LinkRow(p[1], p[2]))

Unlinker(t) ==
    LET p == <<op[t].g, op[t].c>> IN
    /\ Ender(t, p)
    /\ pc[t] = "write" => write[t] = Ending({p} \intersect live)

StudentRemover(t) ==
    LET c == op[t].c
        theirs == {p \in live : p[2] = c}
        lock == Lock(ChildRow(c), "update")
    IN  /\ pc[t] = "student" => lock \in Asked(t)
        /\ pc[t] \in {"profile", "guardian", "link", "write"} => lock \in held[t]
        /\ \A p \in theirs : Ender(t, p)
        /\ pc[t] = "write" => write[t] = [Ending(theirs) EXCEPT !.gone = {ChildRow(c)}]

StaffRemover(t) ==
    LET g == op[t].g
        theirs == {p \in live : p[1] = g}
        lock == Lock(GuardianRow(g), "update")
    IN  /\ pc[t] = "guardian" => lock \in Asked(t)
        /\ pc[t] \in {"link", "write"} =>
              /\ lock \in held[t]
              /\ \A p \in theirs : Ender(t, p)
        /\ pc[t] = "write" =>
              write[t] = [Ending(theirs) EXCEPT !.closes = {g}, !.gone = {GuardianRow(g)}]

\* A write of bells and leave requests only.
LinksLeft(w) == /\ w.ends = {} /\ w.starts = {} /\ w.opens = {} /\ w.closes = {}
                /\ w.prunes = {} /\ w.gone = {}

\* A bell: whoever is told is locked and linked.
Teller(t) ==
    /\ \A w \in Asked(t) : w[1][1] = "guardian" => w[2] = "share"
    /\ pc[t] = "write" =>
          /\ LinksLeft(write[t])
          /\ \A p \in write[t].rings : p \in live /\ Lock(GuardianRow(p[1]), "share") \in held[t]

Asker(t) ==
    LET o == op[t] IN
    /\ pc[t] = "link" => Asks(t, LinkRow(o.g, o.c))
    /\ pc[t] \in {"profile", "guardian", "write"} => Holds(t, LinkRow(o.g, o.c)) /\ <<o.g, o.c>> \in live
    /\ pc[t] = "profile" => Asks(t, ProfileRow(o.c))
    /\ pc[t] \in {"guardian", "write"} => Holds(t, ProfileRow(o.c)) /\ MayAsk(o.c, o.span)
    /\ pc[t] = "write" =>
          /\ LinksLeft(write[t]) /\ write[t].rings = {}
          /\ \E r \in Leave : leave[r] = NoLeave /\ write[t].leave = [q \in {r} |-> NewLeave(o)]

Answerer(t) ==
    LET r == op[t].leave IN
    /\ pc[t] = "leave" => Asks(t, LeaveRow(r))
    /\ pc[t] \in {"guardian", "write"} => Holds(t, LeaveRow(r)) /\ StillPending(r)
    /\ pc[t] = "write" => LinksLeft(write[t]) /\ write[t].leave = Decided(t)

Knows(t) ==
    /\ pc[t] # "write" => write[t] = NoWrite
    /\ pc[t] \in {"idle", "ended"} => held[t] = {} /\ want[t] = {}
    /\ op[t].kind = "add" => Linker(t)
    /\ op[t].kind = "unlink" => Unlinker(t)
    /\ op[t].kind = "remove_student" => StudentRemover(t)
    /\ op[t].kind = "remove_staff" => StaffRemover(t)
    /\ op[t].kind \in {"tell", "cancel", "decide"} => Teller(t)
    /\ op[t].kind = "tell" /\ pc[t] = "write" => write[t].leave = NoWrite.leave
    /\ op[t].kind = "ask" => Asker(t)
    /\ op[t].kind \in {"cancel", "decide"} => Answerer(t)

\* Nobody else writes the leave request a transaction is about to write.
SlotsApart ==
    \A t, u \in Tx : t # u => DOMAIN write[t].leave \intersect DOMAIN write[u].leave = {}

Promise == AccessFollowsLinks /\ NoFormerChild /\ LeavesKeepApart

GInv == TInv /\ LocksExclude /\ (\A t \in Tx : Knows(t)) /\ SlotsApart /\ Promise

-----------------------------------------------------------------------------
(* Locks.                                                                  *)

LEMMA LocksExcludeStep == TInv /\ LocksExclude /\ [Next]_vars => LocksExclude'
<1> SUFFICES ASSUME TInv, LocksExclude, [Next]_vars PROVE LocksExclude'
  OBVIOUS
<1> USE DEF TInv
<1>1. ASSUME NEW t \in Tx, TakeLock(t) PROVE LocksExclude'
  <2>1. PICK w \in want[t] : /\ \A u \in Tx \ {t} : ~Collides(held[u], w)
                             /\ held' = [held EXCEPT ![t] = @ \union {w}]
    BY <1>1 DEF TakeLock
  <2>2. w \in Row \X Mode
    BY DEF TypeOK
  <2>3. ASSUME NEW u \in Tx, NEW v \in Tx, u # v, NEW x \in held'[u]
        PROVE  ~Collides(held'[v], x)
    <3>1. CASE u = t /\ x = w
      <4>1. held'[v] = held[v]
        BY <2>1, <2>3, <3>1 DEF TypeOK
      <4> QED BY <2>1, <2>3, <3>1, <4>1
    <3>2. CASE x \in held[u] /\ v # t
      <4>1. held'[v] = held[v]
        BY <2>1, <3>2 DEF TypeOK
      <4> QED BY <2>3, <3>2, <4>1 DEF LocksExclude
    <3>3. CASE x \in held[u] /\ v = t
      <4>1. ~Collides(held[t], x) /\ ~Collides(held[u], w)
        BY <2>1, <2>3, <3>3 DEF LocksExclude
      <4>2. x \in Row \X Mode
        BY <3>3 DEF TypeOK
      <4>3. held'[v] = held[t] \union {w}
        BY <2>1, <3>3 DEF TypeOK
      <4>4. ~Collides({w}, x)
        BY <2>2, <3>3, <4>1, <4>2 DEF Collides, ConflictsWith, Mode
      <4> QED BY <4>1, <4>3, <4>4 DEF Collides
    <3>4. x \in held[u] \/ (u = t /\ x = w)
      BY <2>1, <2>3 DEF TypeOK
    <3> QED BY <3>1, <3>2, <3>3, <3>4
  <2> QED BY <2>3 DEF LocksExclude
<1>2. ASSUME NEW t \in Tx, End(t) PROVE LocksExclude'
  BY <1>2 DEF End, LocksExclude, TypeOK, Collides
<1>3. CASE UNCHANGED held
  BY <1>3 DEF LocksExclude
<1>4. ASSUME NEW t \in Tx, Links(t) \/ Removals(t) \/ Leaves(t) \/ Tell(t) \/ TellWrites(t)
      PROVE  UNCHANGED held
  BY <1>4 DEF Links, AddGuardian, AddFindsGuardian, AddFindsLink, AddWrites, UnlinkGuardian,
       UnlinkLocksGuardian, UnlinkLocksLink, UnlinkWrites, Removals, RemoveStudent,
       RemoveStudentLocksProfile, RemoveStudentLocksGuardians, RemoveStudentLocksLinks,
       RemoveStudentWrites, RemoveStaff, RemoveStaffLocksLinks, RemoveStaffWrites, Leaves,
       AskLeave, AskLocksProfile, AskInserts, AskWrites, CancelLeave, CancelWrites, DecideLeave,
       DecideTells, DecideWrites, Tell, TellWrites, Begin, Then, Write
<1>5. CASE UNCHANGED vars
  BY <1>3, <1>5 DEF vars
<1> QED BY <1>1, <1>2, <1>3, <1>4, <1>5 DEF Next, Commit, Abort

\* A row that is held by one transaction is held or shared by no other.
LEMMA HeldAlone ==
    ASSUME LocksExclude, NEW t \in Tx, NEW u \in Tx, t # u, NEW row
    PROVE  /\ Holds(t, row) => ~Holds(u, row) /\ Lock(row, "share") \notin held[u]
           /\ Lock(row, "update") \in held[t] => Lock(row, "key_share") \notin held[u]
<1>1. ASSUME NEW m \in Strong, NEW n \in Strong \union {"share"},
             Lock(row, m) \in held[t], Lock(row, n) \in held[u]
      PROVE  FALSE
  <2>1. ~Collides(held[u], Lock(row, m))
    BY <1>1 DEF LocksExclude
  <2>2. n \in ConflictsWith(m)
    BY DEF ConflictsWith, Strong, Mode
  <2> QED BY <1>1, <2>1, <2>2 DEF Collides, Lock
<1>2. ASSUME Lock(row, "update") \in held[t], Lock(row, "key_share") \in held[u]
      PROVE  FALSE
  <2>1. ~Collides(held[u], Lock(row, "update"))
    BY <1>2 DEF LocksExclude
  <2> QED BY <1>2, <2>1 DEF Collides, Lock, ConflictsWith, Mode
<1> QED BY <1>1, <1>2 DEF Holds

-----------------------------------------------------------------------------
(* What a transaction writes, it holds.                                    *)

AsksNow(u, r) ==
    LET o == op[u] IN
    /\ leave[r] = NoLeave /\ write[u].leave[r] = NewLeave(o)
    /\ Holds(u, ProfileRow(o.c)) /\ MayAsk(o.c, o.span)
    /\ o.c \in Child /\ <<o.g, o.c>> \in live

AnswersNow(u, r) ==
    /\ StillPending(r) /\ Holds(u, LeaveRow(r))
    /\ \E to \in {"cancelled", "approved", "rejected"} :
          write[u].leave[r] = [leave[r] EXCEPT !.status = to]

Covered(u) ==
    LET w == write[u] IN
    /\ \A p \in w.starts : /\ Holds(u, ChildRow(p[2])) /\ Here(ChildRow(p[2]))
                           /\ Holds(u, GuardianRow(p[1])) /\ Here(GuardianRow(p[1]))
    /\ \A p \in w.ends : /\ p \in live
                         /\ Holds(u, GuardianRow(p[1])) /\ Holds(u, LinkRow(p[1], p[2]))
    /\ \A g \in w.opens \union w.closes : Holds(u, GuardianRow(g))
    /\ w.opens \intersect w.closes = {}
    /\ \A p \in w.prunes : Holds(u, GuardianRow(p[1]))
    /\ \A p \in w.rings : p \in live /\ Lock(GuardianRow(p[1]), "share") \in held[u]
    /\ \A row \in w.gone : Lock(row, "update") \in held[u]
    /\ \A r \in DOMAIN w.leave : r \in Leave /\ (AsksNow(u, r) \/ AnswersNow(u, r))

LEMMA EndingFields ==
    ASSUME NEW pairs
    PROVE  LET w == Ending(pairs) IN
           /\ w.ends = pairs /\ w.starts = {} /\ w.opens = {} /\ w.rings = {} /\ w.gone = {}
           /\ w.leave = NoWrite.leave
           /\ w.prunes = {p \in bell : p[1] \in {q[1] : q \in pairs} /\ p \notin live \ pairs}
BY DEF Ending, NoWrite

LEMMA EndingCloses ==
    ASSUME NEW pairs, NEW g
    PROVE  g \in Ending(pairs).closes <=>
             /\ g \in {p[1] : p \in pairs} /\ g \notin Colleague
             /\ \A c \in Child : <<g, c>> \notin live \ pairs
             /\ account[g] = "open"
BY DEF Ending, NoWrite

LEMMA CoveredLinker ==
    ASSUME TInv, NEW u \in Tx, pc[u] = "write", op[u].kind = "add", Linker(u)
    PROVE  Covered(u)
<1> DEFINE o == op[u]
<1>1. /\ Holds(u, ChildRow(o.c)) /\ Here(ChildRow(o.c))
      /\ Holds(u, GuardianRow(o.g)) /\ Here(GuardianRow(o.g))
      /\ write[u] = Linking(o.g, o.c)
  BY DEF Linker
<1>2. LET w == Linking(o.g, o.c) IN
      /\ w.starts \subseteq {<<o.g, o.c>>} /\ w.ends = {} /\ w.opens \subseteq {o.g} /\ w.closes = {}
      /\ \A p \in w.prunes : p[1] = o.g
      /\ w.rings = {} /\ w.gone = {} /\ w.leave = [r \in {} |-> NoLeave]
  BY DEF Linking, NoWrite
<1>3. \A p \in write[u].starts : p[1] = o.g /\ p[2] = o.c
  BY <1>1, <1>2
<1> QED BY <1>1, <1>2, <1>3 DEF Covered

LEMMA CoveredEnder ==
    ASSUME TInv, NEW u \in Tx, pc[u] = "write", NEW pairs \in SUBSET live,
           \A p \in pairs : Ender(u, p), NEW gone, NEW closes,
           \A row \in gone : Lock(row, "update") \in held[u],
           \A g \in closes : Holds(u, GuardianRow(g)),
           \/ write[u] = Ending(pairs)
           \/ write[u] = [Ending(pairs) EXCEPT !.gone = gone]
           \/ write[u] = [Ending(pairs) EXCEPT !.closes = closes, !.gone = gone]
    PROVE  Covered(u)
<1> DEFINE e == Ending(pairs)
           w == write[u]
<1>1. \A p \in pairs : /\ p \in live /\ p[1] \in Guardian
                       /\ Holds(u, GuardianRow(p[1])) /\ Holds(u, LinkRow(p[1], p[2]))
  BY DEF Ender, TInv, TypeOK, Pair
<1>2. /\ e.ends = pairs /\ e.starts = {} /\ e.opens = {} /\ e.rings = {} /\ e.gone = {}
      /\ e.leave = NoWrite.leave
      /\ \A g \in e.closes : \E p \in pairs : g = p[1]
      /\ \A q \in e.prunes : \E p \in pairs : q[1] = p[1]
  BY <1>1, EndingFields, EndingCloses
<1>3. e \in Writes
  BY EndingType DEF TInv
<1> HIDE DEF e
<1>4. /\ w.ends = e.ends /\ w.starts = e.starts /\ w.opens = e.opens /\ w.rings = e.rings
      /\ w.leave = e.leave /\ w.prunes = e.prunes
      /\ w.gone = e.gone \/ w.gone = gone
      /\ w.closes = e.closes \/ w.closes = closes
  BY <1>3 DEF Writes, e
<1>5. DOMAIN w.leave = {}
  BY <1>2, <1>4 DEF NoWrite
<1> HIDE DEF w
<1>6. \A g \in w.closes : Holds(u, GuardianRow(g))
  BY <1>1, <1>2, <1>4
<1>7. \A q \in w.prunes : Holds(u, GuardianRow(q[1]))
  BY <1>1, <1>2, <1>4
<1> QED BY <1>1, <1>2, <1>4, <1>5, <1>6, <1>7 DEF Covered, w

LEMMA CoveredLeaves ==
    ASSUME TInv, NEW u \in Tx, pc[u] = "write",
           \/ op[u].kind = "tell" /\ Teller(u) /\ write[u].leave = NoWrite.leave
           \/ op[u].kind = "ask" /\ Asker(u)
           \/ op[u].kind \in {"cancel", "decide"} /\ Teller(u) /\ Answerer(u)
    PROVE  Covered(u)
<1> DEFINE o == op[u]
<1>1. LinksLeft(write[u]) /\ \A p \in write[u].rings :
        p \in live /\ Lock(GuardianRow(p[1]), "share") \in held[u]
  BY DEF Teller, Asker
<1>2. ASSUME NEW r \in DOMAIN write[u].leave PROVE r \in Leave /\ (AsksNow(u, r) \/ AnswersNow(u, r))
  <2>1. CASE o.kind = "tell"
    BY <2>1 DEF NoWrite
  <2>2. CASE o.kind = "ask"
    BY <2>2 DEF Asker, AsksNow, TInv, Fits
  <2>3. CASE o.kind \in {"cancel", "decide"}
    <3>1. write[u].leave = Decided(u) /\ StillPending(o.leave) /\ Holds(u, LeaveRow(o.leave))
      BY <2>3 DEF Answerer
    <3>2. o.leave \in Leave /\ o.to \in {"cancelled", "approved", "rejected"}
      BY <2>3 DEF TInv, Fits
    <3>3. r = o.leave /\ write[u].leave[r] = [leave[r] EXCEPT !.status = o.to]
      BY <3>1, <1>2 DEF Decided
    <3> QED BY <3>1, <3>2, <3>3 DEF AnswersNow
  <2> QED BY <2>1, <2>2, <2>3
<1> QED BY <1>1, <1>2 DEF LinksLeft, Covered

LEMMA WritersCover ==
    ASSUME TInv, NEW u \in Tx, Knows(u), pc[u] = "write"
    PROVE  Covered(u)
<1> DEFINE o == op[u]
<1>0. TInv /\ u \in Tx /\ pc[u] = "write"
  OBVIOUS
<1>1. CASE o.kind = "add"
  BY <1>1, CoveredLinker DEF Knows
<1>2. CASE o.kind = "unlink"
  <2> DEFINE p == <<o.g, o.c>>
  <2>1. Ender(u, p) /\ write[u] = Ending({p} \intersect live)
    BY <1>2 DEF Knows, Unlinker
  <2> DEFINE pairs == {p} \intersect live
             none == {}
  <2>2. /\ pairs \in SUBSET live /\ (\A q \in pairs : Ender(u, q)) /\ write[u] = Ending(pairs)
        /\ \A row \in none : Lock(row, "update") \in held[u]
        /\ \A g \in none : Holds(u, GuardianRow(g))
    BY <2>1
  <2> HIDE DEF pairs, none
  <2> QED BY <1>0, <2>2, CoveredEnder
<1>3. CASE o.kind = "remove_student"
  <2>1. /\ Lock(ChildRow(o.c), "update") \in held[u]
        /\ \A p \in {q \in live : q[2] = o.c} : Ender(u, p)
        /\ write[u] = [Ending({q \in live : q[2] = o.c}) EXCEPT !.gone = {ChildRow(o.c)}]
    BY <1>3 DEF Knows, StudentRemover
  <2> DEFINE pairs == {q \in live : q[2] = o.c}
             gone == {ChildRow(o.c)}
             none == {}
  <2>2. /\ pairs \in SUBSET live /\ \A q \in pairs : Ender(u, q)
        /\ write[u] = [Ending(pairs) EXCEPT !.gone = gone]
        /\ \A row \in gone : Lock(row, "update") \in held[u]
        /\ \A g \in none : Holds(u, GuardianRow(g))
    BY <2>1
  <2> HIDE DEF pairs, gone, none
  <2> QED BY <1>0, <2>2, CoveredEnder
<1>4. CASE o.kind = "remove_staff"
  <2>1. /\ Lock(GuardianRow(o.g), "update") \in held[u]
        /\ \A p \in {q \in live : q[1] = o.g} : Ender(u, p)
        /\ write[u] = [Ending({q \in live : q[1] = o.g}) EXCEPT !.closes = {o.g}, !.gone = {GuardianRow(o.g)}]
    BY <1>4 DEF Knows, StaffRemover
  <2>2. Holds(u, GuardianRow(o.g))
    BY <2>1 DEF Holds, Strong
  <2> DEFINE pairs == {q \in live : q[1] = o.g}
             gone == {GuardianRow(o.g)}
             closes == {o.g}
  <2>3. /\ pairs \in SUBSET live /\ \A q \in pairs : Ender(u, q)
        /\ write[u] = [Ending(pairs) EXCEPT !.closes = closes, !.gone = gone]
        /\ \A row \in gone : Lock(row, "update") \in held[u]
        /\ \A g \in closes : Holds(u, GuardianRow(g))
    BY <2>1, <2>2
  <2> HIDE DEF pairs, gone, closes
  <2> QED BY <1>0, <2>3, CoveredEnder
<1>5. CASE o.kind \in {"tell", "ask", "cancel", "decide"}
  BY <1>5, CoveredLeaves DEF Knows
<1>6. o.kind \in Kind /\ o.kind # "none"
  BY DEF TInv, TypeOK, Op
<1> QED BY <1>1, <1>2, <1>3, <1>4, <1>5, <1>6 DEF Kind

-----------------------------------------------------------------------------
(* What another transaction commits leaves alone what this one read.       *)

Undisturbed(t) ==
    /\ \A p \in Pair : Holds(t, GuardianRow(p[1])) => (p \in live' <=> p \in live) /\ (p \in bell' <=> p \in bell)
    /\ \A g \in Guardian : Holds(t, GuardianRow(g)) => account'[g] = account[g]
    /\ \A row : (Holds(t, row) \/ Lock(row, "share") \in held[t]) /\ row \notin removed => row \notin removed'
    /\ \A p \in live' : Holds(t, ChildRow(p[2])) => p \in live
    /\ \A p \in live :
         Holds(t, LinkRow(p[1], p[2])) \/ Lock(GuardianRow(p[1]), "share") \in held[t] => p \in live'
    /\ \A r \in Leave : Holds(t, LeaveRow(r)) /\ StillPending(r) => leave'[r] = leave[r]
    /\ \A c \in Child, s \in Span : Holds(t, ProfileRow(c)) /\ MayAsk(c, s) => MayAsk(c, s)'

\* The leave requests after a commit.
LEMMA LeaveAfter ==
    ASSUME TInv, NEW u \in Tx, Covered(u), Commit(u), NEW r \in Leave
    PROVE  \/ leave'[r] = leave[r]
           \/ r \in DOMAIN write[u].leave /\ AsksNow(u, r) /\ leave'[r] = NewLeave(op[u])
           \/ /\ r \in DOMAIN write[u].leave /\ AnswersNow(u, r)
              /\ leave'[r].by = leave[r].by /\ leave'[r].child = leave[r].child /\ leave'[r].span = leave[r].span
              /\ leave'[r].status \in {"cancelled", "approved", "rejected"}
<1>1. leave'[r] = IF r \in DOMAIN write[u].leave THEN write[u].leave[r] ELSE leave[r]
  BY DEF Commit
<1>2. CASE r \notin DOMAIN write[u].leave
  BY <1>1, <1>2
<1>3. CASE r \in DOMAIN write[u].leave /\ AsksNow(u, r)
  BY <1>1, <1>3 DEF AsksNow
<1>4. CASE r \in DOMAIN write[u].leave /\ AnswersNow(u, r)
  <2>1. leave[r] \in LeaveRequest
    BY DEF TInv, TypeOK
  <2> QED BY <1>1, <1>4, <2>1 DEF AnswersNow, LeaveRequest, NoLeave
<1> QED BY <1>2, <1>3, <1>4 DEF Covered

LEMMA AskStays ==
    ASSUME TInv, LocksExclude, NEW t \in Tx, NEW u \in Tx, t # u, Covered(u), Commit(u),
           NEW c \in Child, NEW s \in Span, Holds(t, ProfileRow(c)), MayAsk(c, s)
    PROVE  MayAsk(c, s)'
<1>1. ASSUME NEW r \in Leave, leave'[r].child = c, leave'[r] # leave[r]
      PROVE  /\ leave[r].child = c /\ leave[r].status = "pending"
             /\ leave'[r].status \in {"cancelled", "approved", "rejected"}
             /\ leave'[r].span = leave[r].span
  <2>1. CASE AsksNow(u, r) /\ leave'[r] = NewLeave(op[u])
    <3>1. op[u].c = c /\ Holds(u, ProfileRow(c))
      BY <1>1, <2>1 DEF NewLeave, AsksNow
    <3> QED BY <3>1, HeldAlone
  <2> QED BY <1>1, <2>1, LeaveAfter DEF AnswersNow, StillPending
<1>2. LeavesOf(c, {"pending"})' \subseteq LeavesOf(c, {"pending"})
  BY <1>1 DEF LeavesOf
<1>3. \A r \in LeavesOf(c, {"pending", "approved"})' :
        r \in LeavesOf(c, {"pending", "approved"}) /\ leave'[r].span = leave[r].span
  BY <1>1 DEF LeavesOf
<1>4. IsFiniteSet(Leave)
  BY FS_Interval, GuardiansAssumption DEF Leave
<1>5. IsFiniteSet(LeavesOf(c, {"pending"}))
  BY <1>4, FS_Subset DEF LeavesOf
<1>6. Cardinality(LeavesOf(c, {"pending"})') <= Cardinality(LeavesOf(c, {"pending"}))
  BY <1>2, <1>5, FS_Subset
<1>7. Cardinality(LeavesOf(c, {"pending"})') < MaxPending
  <2>1. IsFiniteSet(LeavesOf(c, {"pending"})')
    BY <1>2, <1>5, FS_Subset
  <2>2. Cardinality(LeavesOf(c, {"pending"})') \in Nat /\ Cardinality(LeavesOf(c, {"pending"})) \in Nat
    BY <1>5, <2>1, FS_CardinalityType
  <2>3. Cardinality(LeavesOf(c, {"pending"})) < MaxPending
    BY DEF MayAsk
  <2> QED BY <1>6, <2>2, <2>3, GuardiansAssumption
<1>8. \A r \in LeavesOf(c, {"pending", "approved"})' : leave'[r].span \intersect s = {}
  BY <1>3 DEF MayAsk
<1> QED BY <1>7, <1>8 DEF MayAsk

LEMMA CommitDisturbsNobody ==
    ASSUME TInv, LocksExclude, NEW t \in Tx, NEW u \in Tx, t # u, Covered(u), Commit(u)
    PROVE  Undisturbed(t)
<1> DEFINE w == write[u]
<1>0. /\ removed' = removed \union w.gone
      /\ live' = (live \ w.ends) \union w.starts
      /\ bell' = (bell \ w.prunes) \union w.rings
      /\ \A g \in Guardian : account'[g] = account[g] \/ g \in w.opens \union w.closes
  BY DEF Commit
<1>a. \A row : Holds(t, row) => ~Holds(u, row) /\ Lock(row, "share") \notin held[u]
  BY HeldAlone
<1>b. \A row : Lock(row, "share") \in held[t] => ~Holds(u, row)
  BY HeldAlone
<1>1. ASSUME NEW p \in Pair, Holds(t, GuardianRow(p[1]))
      PROVE  (p \in live' <=> p \in live) /\ (p \in bell' <=> p \in bell)
  BY <1>0, <1>1, <1>a DEF Covered
<1>2. ASSUME NEW g \in Guardian, Holds(t, GuardianRow(g))
      PROVE  account'[g] = account[g]
  BY <1>0, <1>2, <1>a DEF Covered
<1>3. ASSUME NEW row, Holds(t, row) \/ Lock(row, "share") \in held[t], row \notin removed
      PROVE  row \notin removed'
  <2>1. row \in w.gone => Holds(u, row)
    BY DEF Covered, Holds, Strong
  <2> QED BY <1>0, <1>3, <1>a, <1>b, <2>1
<1>4. \A p \in live' : Holds(t, ChildRow(p[2])) => p \in live
  BY <1>0, <1>a DEF Covered
<1>5. \A p \in live :
        Holds(t, LinkRow(p[1], p[2])) \/ Lock(GuardianRow(p[1]), "share") \in held[t] => p \in live'
  BY <1>0, <1>a, <1>b DEF Covered
<1>6. ASSUME NEW r \in Leave, Holds(t, LeaveRow(r)), StillPending(r)
      PROVE  leave'[r] = leave[r]
  <2>1. ~AnswersNow(u, r)
    BY <1>6, <1>a DEF AnswersNow
  <2>2. ~AsksNow(u, r)
    BY <1>6 DEF AsksNow, StillPending, NoLeave
  <2> QED BY <2>1, <2>2, LeaveAfter
<1>7. ASSUME NEW c \in Child, NEW s \in Span, Holds(t, ProfileRow(c)), MayAsk(c, s)
      PROVE  MayAsk(c, s)'
  BY <1>7, AskStays
<1> QED BY <1>1, <1>2, <1>3, <1>4, <1>5, <1>6, <1>7 DEF Undisturbed

\* The own columns of a transaction are its own.
Same(t) == /\ pc'[t] = pc[t] /\ op'[t] = op[t] /\ want'[t] = want[t]
           /\ held'[t] = held[t] /\ write'[t] = write[t]

LEMMA OthersKeep ==
    ASSUME TypeOK, NEW t \in Tx, NEW u \in Tx, t # u, End(u)
    PROVE  Same(t)
BY DEF TypeOK, End, Same

\* Ending, as it will read the rows after the step.
EndingAfter(pairs) ==
    [NoWrite EXCEPT
        !.ends = pairs,
        !.closes = {g \in {h \in {p[1] : p \in pairs} \ Colleague :
                            \A c \in Child : <<h, c>> \notin live' \ pairs} : account'[g] = "open"},
        !.prunes = {p \in bell' : p[1] \in {q[1] : q \in pairs} /\ p \notin live' \ pairs}]

LEMMA EndingStays ==
    ASSUME TypeOK, TypeOK', NEW t \in Tx, Undisturbed(t), NEW pairs \in SUBSET live,
           \A p \in pairs : Holds(t, GuardianRow(p[1]))
    PROVE  EndingAfter(pairs) = Ending(pairs)
<1> DEFINE who == {p[1] : p \in pairs}
<1>0. bell \subseteq Pair /\ bell' \subseteq Pair /\ pairs \subseteq Pair
  BY DEF TypeOK
<1>1. ASSUME NEW g \in who PROVE g \in Guardian /\ Holds(t, GuardianRow(g))
  BY <1>0, <1>1 DEF Pair
<1>2. ASSUME NEW g \in who, NEW c \in Child PROVE <<g, c>> \in live' <=> <<g, c>> \in live
  <2>1. <<g, c>> \in Pair /\ <<g, c>>[1] = g
    BY <1>1 DEF Pair
  <2> QED BY <1>1, <2>1 DEF Undisturbed
<1>3. ASSUME NEW p \in Pair, p[1] \in who
      PROVE  (p \in live' <=> p \in live) /\ (p \in bell' <=> p \in bell)
  BY <1>1, <1>3 DEF Undisturbed
<1>4. \A g \in who : account'[g] = account[g]
  BY <1>1 DEF Undisturbed
<1> HIDE DEF who
<1>5. {p \in bell' : p[1] \in who /\ p \notin live' \ pairs} = {p \in bell : p[1] \in who /\ p \notin live \ pairs}
  BY <1>0, <1>3
<1>6. {h \in who \ Colleague : \A c \in Child : <<h, c>> \notin live' \ pairs}
        = {h \in who \ Colleague : \A c \in Child : <<h, c>> \notin live \ pairs}
  BY <1>2
<1>7. {g \in {h \in who \ Colleague : \A c \in Child : <<h, c>> \notin live' \ pairs} : account'[g] = "open"}
        = {g \in {h \in who \ Colleague : \A c \in Child : <<h, c>> \notin live \ pairs} : account[g] = "open"}
  BY <1>4, <1>6
<1> QED BY <1>5, <1>7 DEF EndingAfter, Ending, who

LEMMA LinkerKeeps ==
    ASSUME TInv, TInv', NEW t \in Tx, Same(t), Undisturbed(t), op[t].kind = "add", Linker(t)
    PROVE  Linker(t)'
<1> DEFINE g == op[t].g
           c == op[t].c
<1>1. g \in Guardian /\ c \in Child
  BY DEF TInv, Fits
<1>2. \A row : Asks(t, row)' = Asks(t, row) /\ Holds(t, row)' = Holds(t, row)
  BY DEF Same, Asks, Asked, Holds
<1>3. ASSUME pc[t] = "write" PROVE write'[t] = Linking(g, c)'
  <2>1. Holds(t, GuardianRow(g)) /\ write[t] = Linking(g, c)
    BY <1>3 DEF Linker
  <2>2. <<g, c>> \in Pair /\ <<g, c>>[1] = g
    BY <1>1 DEF Pair
  <2>3. (<<g, c>> \in live' <=> <<g, c>> \in live) /\ account'[g] = account[g]
    BY <1>1, <2>1, <2>2 DEF Undisturbed
  <2>4. \A p \in Pair : p[1] = g => (p \in live' <=> p \in live) /\ (p \in bell' <=> p \in bell)
    BY <2>1 DEF Undisturbed
  <2>5. {<<g, c>>} \ live' = {<<g, c>>} \ live
    BY <2>3
  <2>6. {p \in bell' : (g \notin Colleague /\ account'[g] = "closed") /\ p[1] = g /\ p # <<g, c>> /\ p \notin live'}
        = {p \in bell : (g \notin Colleague /\ account[g] = "closed") /\ p[1] = g /\ p # <<g, c>> /\ p \notin live}
    BY <2>3, <2>4 DEF TInv, TypeOK
  <2>7. Linking(g, c)' = Linking(g, c)
    BY <2>3, <2>5, <2>6 DEF Linking, Same
  <2> QED BY <2>1, <2>7 DEF Same
<1>4. \A row : Holds(t, row) /\ Here(row) => Here(row)'
  BY DEF Undisturbed, Here
<1> QED BY <1>2, <1>3, <1>4 DEF Linker, Same

LEMMA SameLocks ==
    ASSUME NEW t \in Tx, Same(t)
    PROVE  /\ \A row : Asks(t, row)' = Asks(t, row) /\ Holds(t, row)' = Holds(t, row)
           /\ \A p : Ender(t, p)' = Ender(t, p)
<1>1. \A row : Asks(t, row)' = Asks(t, row) /\ Holds(t, row)' = Holds(t, row)
  BY DEF Same, Asks, Asked, Holds
<1> QED BY <1>1 DEF Ender, Same

LEMMA UnlinkerKeeps ==
    ASSUME TInv, TInv', NEW t \in Tx, Same(t), Undisturbed(t), op[t].kind = "unlink", Unlinker(t)
    PROVE  Unlinker(t)'
<1> DEFINE p == <<op[t].g, op[t].c>>
<1>1. p \in Pair /\ p[1] = op[t].g
  BY DEF TInv, Fits, Pair
<1>2. Ender(t, p) /\ p' = p
  BY DEF Unlinker, Same
<1>3. Ender(t, p)'
  BY <1>2, SameLocks
<1>4. ASSUME pc[t] = "write" PROVE write'[t] = Ending({p} \intersect live)'
  <2> DEFINE pairs == {p} \intersect live
  <2>1. Holds(t, GuardianRow(p[1])) /\ write[t] = Ending(pairs)
    BY <1>2, <1>4 DEF Unlinker, Ender
  <2>2. p \in live' <=> p \in live
    BY <1>1, <2>1 DEF Undisturbed
  <2>3. pairs' = pairs
    BY <1>2, <2>2
  <2>4. EndingAfter(pairs) = Ending(pairs)
    BY <2>1, EndingStays DEF TInv
  <2>5. Ending(pairs)' = EndingAfter(pairs)
    BY <2>3 DEF Ending, EndingAfter
  <2> QED BY <2>1, <2>4, <2>5 DEF Same
<1> QED BY <1>3, <1>4 DEF Unlinker, Same

LEMMA StudentRemoverKeeps ==
    ASSUME TInv, TInv', NEW t \in Tx, Same(t), Undisturbed(t),
           op[t].kind = "remove_student", StudentRemover(t)
    PROVE  StudentRemover(t)'
<1> DEFINE c == op[t].c
           theirs == {p \in live : p[2] = c}
<1>1. c' = c
  BY DEF Same
<1>2. ASSUME NEW p \in theirs' PROVE Ender(t, p)'
  <2>1. pc[t] \in {"guardian", "link", "write"} => p \in theirs
    <3> SUFFICES ASSUME pc[t] \in {"guardian", "link", "write"} PROVE p \in theirs
      OBVIOUS
    <3>1. Holds(t, ChildRow(c))
      BY DEF StudentRemover, Holds, Strong
    <3>2. p \in live' /\ p[2] = c
      BY <1>1
    <3> QED BY <3>1, <3>2 DEF Undisturbed
  <2>2. Ender(t, p)
    <3>1. CASE pc[t] \in {"guardian", "link", "write"}
      BY <2>1, <3>1 DEF StudentRemover
    <3>2. CASE pc[t] \notin {"guardian", "link", "write"}
      BY <3>2 DEF Ender
    <3> QED BY <3>1, <3>2
  <2> QED BY <2>2, SameLocks
<1>3. ASSUME pc[t] = "write"
      PROVE  write'[t] = [Ending(theirs) EXCEPT !.gone = {ChildRow(c)}]'
  <2>1. /\ Holds(t, ChildRow(c))
        /\ write[t] = [Ending(theirs) EXCEPT !.gone = {ChildRow(c)}]
    BY <1>3 DEF StudentRemover, Holds, Strong
  <2>2. ASSUME NEW p \in theirs PROVE Holds(t, GuardianRow(p[1])) /\ p \in Pair
    BY <1>3 DEF StudentRemover, Ender, TInv, TypeOK
  <2>3. theirs' = theirs
    <3>1. \A p \in theirs : p \in live'
      BY <2>2 DEF Undisturbed
    <3>2. \A p \in live' : p[2] = c => p \in live
      BY <2>1 DEF Undisturbed
    <3> QED BY <1>1, <3>1, <3>2
  <2>4. EndingAfter(theirs) = Ending(theirs)
    BY <2>2, EndingStays DEF TInv
  <2>5. Ending(theirs)' = EndingAfter(theirs)
    BY <2>3 DEF Ending, EndingAfter
  <2> QED BY <1>1, <2>1, <2>4, <2>5 DEF Same
<1> QED BY <1>2, <1>3 DEF StudentRemover, Same, Asked

LEMMA StaffRemoverKeeps ==
    ASSUME TInv, TInv', NEW t \in Tx, Same(t), Undisturbed(t),
           op[t].kind = "remove_staff", StaffRemover(t)
    PROVE  StaffRemover(t)'
<1> DEFINE g == op[t].g
           theirs == {p \in live : p[1] = g}
<1>1. g' = g
  BY DEF Same
<1>2. ASSUME pc[t] \in {"link", "write"} PROVE theirs' = theirs
  <2>1. Holds(t, GuardianRow(g))
    BY <1>2 DEF StaffRemover, Holds, Strong
  <2>2. \A p \in Pair : p[1] = g => (p \in live' <=> p \in live)
    BY <2>1 DEF Undisturbed
  <2> QED BY <1>1, <2>2 DEF TInv, TypeOK
<1>3. ASSUME pc[t] \in {"link", "write"}, NEW p \in theirs' PROVE Ender(t, p)'
  <2>1. Ender(t, p)
    BY <1>2, <1>3 DEF StaffRemover
  <2> QED BY <2>1, SameLocks
<1>4. ASSUME pc[t] = "write"
      PROVE  write'[t] = [Ending(theirs) EXCEPT !.closes = {g}, !.gone = {GuardianRow(g)}]'
  <2>1. write[t] = [Ending(theirs) EXCEPT !.closes = {g}, !.gone = {GuardianRow(g)}]
    BY <1>4 DEF StaffRemover
  <2>2. ASSUME NEW p \in theirs PROVE Holds(t, GuardianRow(p[1]))
    BY <1>4 DEF StaffRemover, Holds, Strong
  <2>4. EndingAfter(theirs) = Ending(theirs)
    BY <2>2, EndingStays DEF TInv
  <2>5. Ending(theirs)' = EndingAfter(theirs)
    BY <1>2, <1>4 DEF Ending, EndingAfter
  <2> QED BY <1>1, <2>1, <2>4, <2>5 DEF Same
<1> QED BY <1>3, <1>4 DEF StaffRemover, Same, Asked

LEMMA TellerKeeps ==
    ASSUME NEW t \in Tx, Same(t), Undisturbed(t), Teller(t)
    PROVE  Teller(t)'
BY DEF Teller, Same, Undisturbed, Asked, LinksLeft

LEMMA AskerKeeps ==
    ASSUME TInv, NEW t \in Tx, Same(t), Undisturbed(t), op[t].kind = "ask", Asker(t),
           \A r \in DOMAIN write[t].leave : r \in Leave /\ leave[r] = NoLeave => leave'[r] = NoLeave
    PROVE  Asker(t)'
<1> DEFINE o == op[t]
<1>1. o.g \in Guardian /\ o.c \in Child /\ o.span \in Span /\ o' = o
  BY DEF TInv, Fits, Same
<1>2. <<o.g, o.c>>[1] = o.g /\ <<o.g, o.c>>[2] = o.c
  OBVIOUS
<1>3. pc[t] \in {"profile", "guardian", "write"} => <<o.g, o.c>> \in live'
  BY <1>2 DEF Asker, Undisturbed
<1>4. pc[t] \in {"guardian", "write"} => MayAsk(o.c, o.span)'
  BY <1>1 DEF Asker, Undisturbed
<1>5. ASSUME pc[t] = "write"
      PROVE  \E r \in Leave : leave'[r] = NoLeave /\ write'[t].leave = [q \in {r} |-> NewLeave(o)]
  <2>1. PICK r \in Leave : leave[r] = NoLeave /\ write[t].leave = [q \in {r} |-> NewLeave(o)]
    BY <1>5 DEF Asker
  <2> QED BY <2>1 DEF Same
<1>6. pc[t] = "write" => LinksLeft(write[t])' /\ write'[t].rings = {}
  BY DEF Asker, LinksLeft, Same
<1>7. NewLeave(o)' = NewLeave(o)
  BY <1>1 DEF NewLeave
<1> QED BY <1>1, <1>3, <1>4, <1>5, <1>6, <1>7, SameLocks DEF Asker, Same

LEMMA AnswererKeeps ==
    ASSUME TInv, NEW t \in Tx, Same(t), Undisturbed(t), op[t].kind \in {"cancel", "decide"}, Answerer(t)
    PROVE  Answerer(t)'
<1> DEFINE r == op[t].leave
<1>1. r \in Leave /\ r' = r
  BY DEF TInv, Fits, Same
<1>2. pc[t] \in {"guardian", "write"} => leave'[r] = leave[r]
  BY <1>1 DEF Answerer, Undisturbed
<1>3. pc[t] \in {"guardian", "write"} => StillPending(r)'
  BY <1>1, <1>2 DEF Answerer, StillPending
<1>4. pc[t] = "write" => write'[t].leave = Decided(t)' /\ LinksLeft(write[t])'
  BY <1>1, <1>2 DEF Answerer, Decided, LinksLeft, Same
<1> QED BY <1>1, <1>3, <1>4, SameLocks DEF Answerer, Same

LEMMA KnowsStays ==
    ASSUME TInv, TInv', NEW t \in Tx, Same(t), Undisturbed(t), Knows(t),
           \A r \in DOMAIN write[t].leave : r \in Leave /\ leave[r] = NoLeave => leave'[r] = NoLeave
    PROVE  Knows(t)'
<1>1. op'[t] = op[t] /\ pc'[t] = pc[t] /\ write'[t] = write[t]
      /\ held'[t] = held[t] /\ want'[t] = want[t]
  BY DEF Same
<1>2. op[t].kind = "add" => Linker(t)'
  BY LinkerKeeps DEF Knows
<1>3. op[t].kind = "unlink" => Unlinker(t)'
  BY UnlinkerKeeps DEF Knows
<1>4. op[t].kind = "remove_student" => StudentRemover(t)'
  BY StudentRemoverKeeps DEF Knows
<1>5. op[t].kind = "remove_staff" => StaffRemover(t)'
  BY StaffRemoverKeeps DEF Knows
<1>6. op[t].kind \in {"tell", "cancel", "decide"} => Teller(t)'
  BY TellerKeeps DEF Knows
<1>7. op[t].kind = "ask" => Asker(t)'
  BY AskerKeeps DEF Knows
<1>8. op[t].kind \in {"cancel", "decide"} => Answerer(t)'
  BY AnswererKeeps DEF Knows
<1> QED BY <1>1, <1>2, <1>3, <1>4, <1>5, <1>6, <1>7, <1>8 DEF Knows, NoWrite

-----------------------------------------------------------------------------
(* A transaction's own steps.                                              *)

LEMMA ReadyHolds ==
    ASSUME NEW t \in Tx, want[t] = {}
    PROVE  \A row : Asks(t, row) <=> Holds(t, row)
BY DEF Asks, Holds, Asked

\* Where a request begins, it holds nothing and asks for its first locks.
LEMMA Begins ==
    ASSUME TInv, NEW t \in Tx, Knows(t), NEW o, NEW phase, NEW locks, Begin(t, o, phase, locks)
    PROVE  /\ pc'[t] = phase /\ op'[t] = o /\ want'[t] = locks /\ held'[t] = {}
           /\ write'[t] = NoWrite /\ UNCHANGED dbVars
           /\ \A row, m : m \in Strong /\ locks = {Lock(row, m)} => Asks(t, row)'
<1>1. pc[t] = "idle" /\ held[t] = {} /\ write[t] = NoWrite
  BY DEF Begin, Knows
<1>2. /\ pc'[t] = phase /\ op'[t] = o /\ want'[t] = locks /\ held'[t] = {}
      /\ write'[t] = NoWrite /\ UNCHANGED dbVars
  BY <1>1 DEF Begin, TInv, TypeOK
<1> QED BY <1>2 DEF Asks, Asked

LEMMA LinksKnow ==
    ASSUME TInv, NEW t \in Tx, Knows(t), Links(t)
    PROVE  Knows(t)' /\ UNCHANGED dbVars
<1> DEFINE o == op[t]
<1>1. CASE AddGuardian(t)
  <2>1. PICK p \in Family :
          Begin(t, [NoOp EXCEPT !.kind = "add", !.g = p[1], !.c = p[2]], "student",
                {Lock(ChildRow(p[2]), "no_key_update")})
    BY <1>1 DEF AddGuardian
  <2> DEFINE n == [NoOp EXCEPT !.kind = "add", !.g = p[1], !.c = p[2]]
  <2>2. n.kind = "add" /\ n.c = p[2]
    BY DEF NoOp
  <2> HIDE DEF n
  <2>3. /\ pc'[t] = "student" /\ op'[t] = n /\ write'[t] = NoWrite /\ UNCHANGED dbVars
        /\ Asks(t, ChildRow(p[2]))'
    BY <2>1, Begins DEF n, Strong
  <2> QED BY <2>2, <2>3 DEF Knows, Linker
<1>2. CASE UnlinkGuardian(t)
  <2>1. PICK p \in live :
          Begin(t, [NoOp EXCEPT !.kind = "unlink", !.g = p[1], !.c = p[2]], "student",
                {Lock(ChildRow(p[2]), "no_key_update")})
    BY <1>2 DEF UnlinkGuardian
  <2> DEFINE n == [NoOp EXCEPT !.kind = "unlink", !.g = p[1], !.c = p[2]]
  <2>2. n.kind = "unlink"
    BY DEF NoOp
  <2> HIDE DEF n
  <2>3. pc'[t] = "student" /\ op'[t] = n /\ write'[t] = NoWrite /\ UNCHANGED dbVars
    BY <2>1, Begins DEF n
  <2> QED BY <2>2, <2>3 DEF Knows, Unlinker, Ender
<1>3. CASE AddFindsGuardian(t)
  <2>1. /\ o.kind = "add" /\ pc[t] = "student" /\ want[t] = {}
        /\ Holds(t, ChildRow(o.c)) /\ Here(ChildRow(o.c))
        /\ Then(t, "guardian", {Lock(GuardianRow(o.g), NewGuardian(t))})
    BY <1>3, ReadyHolds DEF AddFindsGuardian, At, Knows, Linker
  <2>2. /\ pc'[t] = "guardian" /\ op'[t] = o /\ held'[t] = held[t] /\ write'[t] = NoWrite
        /\ want'[t] = {Lock(GuardianRow(o.g), NewGuardian(t))} /\ UNCHANGED dbVars
    BY <2>1 DEF Then, TInv, TypeOK, Knows
  <2>3. Asks(t, GuardianRow(o.g))' /\ Holds(t, ChildRow(o.c))' /\ Here(ChildRow(o.c))'
    BY <2>1, <2>2 DEF Asks, Asked, Holds, Strong, NewGuardian, Here, dbVars
  <2> QED BY <2>1, <2>2, <2>3 DEF Knows, Linker
<1>4. CASE AddFindsLink(t)
  <2>1. /\ o.kind = "add" /\ pc[t] = "guardian" /\ want[t] = {}
        /\ Holds(t, ChildRow(o.c)) /\ Here(ChildRow(o.c))
        /\ Holds(t, GuardianRow(o.g)) /\ Here(GuardianRow(o.g))
        /\ \E locks : Then(t, "link", locks)
    BY <1>4, ReadyHolds DEF AddFindsLink, At, Knows, Linker
  <2>2. /\ pc'[t] = "link" /\ op'[t] = o /\ held'[t] = held[t] /\ write'[t] = NoWrite /\ UNCHANGED dbVars
    BY <2>1 DEF Then, TInv, TypeOK, Knows
  <2>3. /\ Holds(t, ChildRow(o.c))' /\ Here(ChildRow(o.c))'
        /\ Holds(t, GuardianRow(o.g))' /\ Here(GuardianRow(o.g))'
    BY <2>1, <2>2 DEF Holds, Here, dbVars
  <2> QED BY <2>1, <2>2, <2>3 DEF Knows, Linker
<1>5. CASE AddWrites(t)
  <2>1. /\ o.kind = "add" /\ pc[t] = "link"
        /\ Holds(t, ChildRow(o.c)) /\ Here(ChildRow(o.c))
        /\ Holds(t, GuardianRow(o.g)) /\ Here(GuardianRow(o.g))
        /\ Write(t, Linking(o.g, o.c))
    BY <1>5 DEF AddWrites, At, Knows, Linker
  <2>2. /\ pc'[t] = "write" /\ op'[t] = o /\ held'[t] = held[t] /\ UNCHANGED dbVars
        /\ write'[t] = Linking(o.g, o.c)
    BY <2>1 DEF Write, TInv, TypeOK
  <2>3. /\ Holds(t, ChildRow(o.c))' /\ Here(ChildRow(o.c))'
        /\ Holds(t, GuardianRow(o.g))' /\ Here(GuardianRow(o.g))'
    BY <2>1, <2>2 DEF Holds, Here, dbVars
  <2>4. Linking(o.g, o.c)' = Linking(o.g, o.c)
    BY <2>2 DEF Linking, dbVars
  <2> QED BY <2>1, <2>2, <2>3, <2>4 DEF Knows, Linker
<1>6. CASE UnlinkLocksGuardian(t)
  <2>1. o.kind = "unlink" /\ Then(t, "guardian", {Lock(GuardianRow(o.g), "no_key_update")})
    BY <1>6 DEF UnlinkLocksGuardian, At
  <2>2. /\ pc'[t] = "guardian" /\ op'[t] = o /\ write'[t] = NoWrite /\ UNCHANGED dbVars
        /\ want'[t] = {Lock(GuardianRow(o.g), "no_key_update")}
    BY <1>6, <2>1 DEF UnlinkLocksGuardian, At, Then, TInv, TypeOK, Knows
  <2>3. Asks(t, GuardianRow(o.g))'
    BY <2>2 DEF Asks, Asked, Strong
  <2> QED BY <2>1, <2>2, <2>3 DEF Knows, Unlinker, Ender
<1>7. CASE UnlinkLocksLink(t)
  <2>1. /\ o.kind = "unlink" /\ Holds(t, GuardianRow(o.g))
        /\ Then(t, "link", {Lock(LinkRow(o.g, o.c), "no_key_update")})
    BY <1>7, ReadyHolds DEF UnlinkLocksLink, At, Knows, Unlinker, Ender
  <2>2. /\ pc'[t] = "link" /\ op'[t] = o /\ write'[t] = NoWrite /\ UNCHANGED dbVars /\ held'[t] = held[t]
        /\ want'[t] = {Lock(LinkRow(o.g, o.c), "no_key_update")}
    BY <1>7, <2>1 DEF UnlinkLocksLink, At, Then, TInv, TypeOK, Knows
  <2>3. Asks(t, LinkRow(o.g, o.c))' /\ Holds(t, GuardianRow(o.g))'
    BY <2>1, <2>2 DEF Asks, Asked, Holds, Strong
  <2> QED BY <2>1, <2>2, <2>3 DEF Knows, Unlinker, Ender
<1>8. CASE UnlinkWrites(t)
  <2> DEFINE pairs == {<<o.g, o.c>>} \intersect live
  <2>1. /\ o.kind = "unlink" /\ Holds(t, GuardianRow(o.g)) /\ Holds(t, LinkRow(o.g, o.c))
        /\ Write(t, Ending(pairs))
    BY <1>8, ReadyHolds DEF UnlinkWrites, At, Knows, Unlinker, Ender
  <2>2. /\ pc'[t] = "write" /\ op'[t] = o /\ held'[t] = held[t] /\ UNCHANGED dbVars
        /\ write'[t] = Ending(pairs)
    BY <2>1 DEF Write, TInv, TypeOK
  <2>3. Holds(t, GuardianRow(o.g))' /\ Holds(t, LinkRow(o.g, o.c))'
    BY <2>1, <2>2 DEF Holds
  <2>4. Ending(pairs)' = Ending(pairs)
    BY <2>2 DEF Ending, dbVars
  <2> QED BY <2>1, <2>2, <2>3, <2>4 DEF Knows, Unlinker, Ender
<1> QED BY <1>1, <1>2, <1>3, <1>4, <1>5, <1>6, <1>7, <1>8 DEF Links

LEMMA RemovalsKnow ==
    ASSUME TInv, NEW t \in Tx, Knows(t), Removals(t)
    PROVE  Knows(t)' /\ UNCHANGED dbVars
<1> DEFINE o == op[t]
           ofChild == {p \in live : p[2] = o.c}
           ofGuardian == {p \in live : p[1] = o.g}
           childLock == Lock(ChildRow(o.c), "update")
           guardianLock == Lock(GuardianRow(o.g), "update")
<1>1. CASE RemoveStudent(t)
  <2>1. PICK c \in Child :
          Begin(t, [NoOp EXCEPT !.kind = "remove_student", !.c = c], "student",
                {Lock(ChildRow(c), "update")})
    BY <1>1 DEF RemoveStudent
  <2> DEFINE n == [NoOp EXCEPT !.kind = "remove_student", !.c = c]
  <2>2. n.kind = "remove_student" /\ n.c = c
    BY DEF NoOp
  <2> HIDE DEF n
  <2>3. /\ pc'[t] = "student" /\ op'[t] = n /\ write'[t] = NoWrite /\ UNCHANGED dbVars
        /\ want'[t] = {Lock(ChildRow(c), "update")}
    BY <2>1, Begins DEF n
  <2> QED BY <2>2, <2>3 DEF Knows, StudentRemover, Ender, Asked
<1>2. CASE RemoveStaff(t)
  <2>1. PICK g \in Colleague :
          Begin(t, [NoOp EXCEPT !.kind = "remove_staff", !.g = g], "guardian",
                {Lock(GuardianRow(g), "update")})
    BY <1>2 DEF RemoveStaff
  <2> DEFINE n == [NoOp EXCEPT !.kind = "remove_staff", !.g = g]
  <2>2. n.kind = "remove_staff" /\ n.g = g
    BY DEF NoOp
  <2> HIDE DEF n
  <2>3. /\ pc'[t] = "guardian" /\ op'[t] = n /\ write'[t] = NoWrite /\ UNCHANGED dbVars
        /\ want'[t] = {Lock(GuardianRow(g), "update")}
    BY <2>1, Begins DEF n
  <2> QED BY <2>2, <2>3 DEF Knows, StaffRemover, Asked
<1>3. CASE RemoveStudentLocksProfile(t)
  <2>1. /\ o.kind = "remove_student" /\ childLock \in held[t]
        /\ \E locks : Then(t, "profile", locks)
    BY <1>3 DEF RemoveStudentLocksProfile, At, Knows, StudentRemover, Asked
  <2>2. /\ pc'[t] = "profile" /\ op'[t] = o /\ held'[t] = held[t] /\ write'[t] = NoWrite /\ UNCHANGED dbVars
    BY <1>3, <2>1 DEF RemoveStudentLocksProfile, At, Then, TInv, TypeOK, Knows
  <2> QED BY <2>1, <2>2 DEF Knows, StudentRemover, Ender
<1>4. CASE RemoveStudentLocksGuardians(t)
  <2>1. /\ o.kind = "remove_student" /\ childLock \in held[t]
        /\ Then(t, "guardian", GuardiansOf(o.c))
    BY <1>4 DEF RemoveStudentLocksGuardians, At, Knows, StudentRemover
  <2>2. /\ pc'[t] = "guardian" /\ op'[t] = o /\ held'[t] = held[t] /\ write'[t] = NoWrite /\ UNCHANGED dbVars
        /\ want'[t] = GuardiansOf(o.c)
    BY <1>4, <2>1 DEF RemoveStudentLocksGuardians, At, Then, TInv, TypeOK, Knows
  <2>3. ASSUME NEW p \in ofChild PROVE Asks(t, GuardianRow(p[1]))'
    <3>1. Lock(GuardianRow(p[1]), "no_key_update") \in GuardiansOf(o.c)
      BY DEF GuardiansOf
    <3> QED BY <2>2, <3>1 DEF Asks, Asked, Strong
  <2>4. ofChild' = ofChild
    BY <2>2 DEF dbVars
  <2>5. \A p \in ofChild' : Ender(t, p)'
    BY <2>2, <2>3, <2>4 DEF Ender
  <2> QED BY <2>1, <2>2, <2>5 DEF Knows, StudentRemover
<1>5. CASE RemoveStudentLocksLinks(t)
  <2>1. /\ o.kind = "remove_student" /\ childLock \in held[t]
        /\ \A p \in ofChild : Holds(t, GuardianRow(p[1]))
        /\ Then(t, "link", LinkLocks(ofChild))
    BY <1>5, ReadyHolds DEF RemoveStudentLocksLinks, At, Knows, StudentRemover, Ender
  <2>2. /\ pc'[t] = "link" /\ op'[t] = o /\ held'[t] = held[t] /\ write'[t] = NoWrite /\ UNCHANGED dbVars
        /\ want'[t] = LinkLocks(ofChild)
    BY <1>5, <2>1 DEF RemoveStudentLocksLinks, At, Then, TInv, TypeOK, Knows
  <2>3. ASSUME NEW p \in ofChild PROVE Asks(t, LinkRow(p[1], p[2]))' /\ Holds(t, GuardianRow(p[1]))'
    <3>1. Lock(LinkRow(p[1], p[2]), "no_key_update") \in LinkLocks(ofChild)
      BY DEF LinkLocks
    <3> QED BY <2>1, <2>2, <3>1 DEF Asks, Asked, Holds, Strong
  <2>4. ofChild' = ofChild
    BY <2>2 DEF dbVars
  <2>5. \A p \in ofChild' : Ender(t, p)'
    BY <2>2, <2>3, <2>4 DEF Ender
  <2> QED BY <2>1, <2>2, <2>5 DEF Knows, StudentRemover
<1>6. CASE RemoveStudentWrites(t)
  <2>1. /\ o.kind = "remove_student" /\ childLock \in held[t]
        /\ \A p \in ofChild : Holds(t, GuardianRow(p[1])) /\ Holds(t, LinkRow(p[1], p[2]))
        /\ Write(t, [Ending(ofChild) EXCEPT !.gone = {ChildRow(o.c)}])
    BY <1>6, ReadyHolds DEF RemoveStudentWrites, At, Knows, StudentRemover, Ender
  <2>2. /\ pc'[t] = "write" /\ op'[t] = o /\ held'[t] = held[t] /\ UNCHANGED dbVars
        /\ write'[t] = [Ending(ofChild) EXCEPT !.gone = {ChildRow(o.c)}]
    BY <2>1 DEF Write, TInv, TypeOK
  <2>3. ofChild' = ofChild /\ Ending(ofChild)' = Ending(ofChild)
    BY <2>2 DEF dbVars, Ending
  <2>4. \A p \in ofChild' : Ender(t, p)'
    BY <2>1, <2>2, <2>3 DEF Ender, Holds
  <2> QED BY <2>1, <2>2, <2>3, <2>4 DEF Knows, StudentRemover
<1>7. CASE RemoveStaffLocksLinks(t)
  <2>1. /\ o.kind = "remove_staff" /\ guardianLock \in held[t]
        /\ Then(t, "link", LinkLocks(ofGuardian))
    BY <1>7 DEF RemoveStaffLocksLinks, At, Knows, StaffRemover, Asked
  <2>2. /\ pc'[t] = "link" /\ op'[t] = o /\ held'[t] = held[t] /\ write'[t] = NoWrite /\ UNCHANGED dbVars
        /\ want'[t] = LinkLocks(ofGuardian)
    BY <1>7, <2>1 DEF RemoveStaffLocksLinks, At, Then, TInv, TypeOK, Knows
  <2>3. ASSUME NEW p \in ofGuardian PROVE Asks(t, LinkRow(p[1], p[2]))' /\ Holds(t, GuardianRow(p[1]))'
    <3>1. Lock(LinkRow(p[1], p[2]), "no_key_update") \in LinkLocks(ofGuardian)
      BY DEF LinkLocks
    <3> QED BY <2>1, <2>2, <3>1 DEF Asks, Asked, Holds, Strong
  <2>4. ofGuardian' = ofGuardian
    BY <2>2 DEF dbVars
  <2>5. \A p \in ofGuardian' : Ender(t, p)'
    BY <2>2, <2>3, <2>4 DEF Ender
  <2> QED BY <2>1, <2>2, <2>5 DEF Knows, StaffRemover
<1>8. CASE RemoveStaffWrites(t)
  <2>1. /\ o.kind = "remove_staff" /\ guardianLock \in held[t]
        /\ \A p \in ofGuardian : Holds(t, GuardianRow(p[1])) /\ Holds(t, LinkRow(p[1], p[2]))
        /\ Write(t, [Ending(ofGuardian) EXCEPT !.closes = {o.g}, !.gone = {GuardianRow(o.g)}])
    BY <1>8, ReadyHolds DEF RemoveStaffWrites, At, Knows, StaffRemover, Ender
  <2>2. /\ pc'[t] = "write" /\ op'[t] = o /\ held'[t] = held[t] /\ UNCHANGED dbVars
        /\ write'[t] = [Ending(ofGuardian) EXCEPT !.closes = {o.g}, !.gone = {GuardianRow(o.g)}]
    BY <2>1 DEF Write, TInv, TypeOK
  <2>3. ofGuardian' = ofGuardian /\ Ending(ofGuardian)' = Ending(ofGuardian)
    BY <2>2 DEF dbVars, Ending
  <2>4. \A p \in ofGuardian' : Ender(t, p)'
    BY <2>1, <2>2, <2>3 DEF Ender, Holds
  <2> QED BY <2>1, <2>2, <2>3, <2>4 DEF Knows, StaffRemover
<1> QED BY <1>1, <1>2, <1>3, <1>4, <1>5, <1>6, <1>7, <1>8 DEF Removals

LEMMA ToldShares ==
    ASSUME NEW c, NEW a, NEW w \in Told(c, a)
    PROVE  w[2] = "share"
BY DEF Told, Lock, ToldMode

\* Whoever is rung is linked, and locked in the mode of a bell.
LEMMA RingsKnown ==
    ASSUME NEW t \in Tx, NEW c \in Child, NEW p \in Rings(t, c),
           \A w \in Asked(t) : w[1][1] = "guardian" => w[2] = "share"
    PROVE  p \in live /\ Lock(GuardianRow(p[1]), "share") \in held[t]
<1>1. PICK g \in LiveGuardians(c, op[t].g) \intersect Locked(t) : p = <<g, c>>
  BY DEF Rings
<1>2. PICK m \in Mode : Lock(GuardianRow(g), m) \in held[t]
  BY <1>1 DEF Locked
<1>3. m = "share"
  BY <1>2 DEF Asked, Lock, GuardianRow
<1> QED BY <1>1, <1>2, <1>3 DEF LiveGuardians

LEMMA TellsKnow ==
    ASSUME TInv, NEW t \in Tx, Knows(t), Tell(t) \/ TellWrites(t)
    PROVE  Knows(t)' /\ UNCHANGED dbVars
<1> DEFINE o == op[t]
<1>1. CASE Tell(t)
  <2>1. PICK c \in Child, a \in {0} \union Colleague :
          Begin(t, [NoOp EXCEPT !.kind = "tell", !.g = a, !.c = c], "guardian", Told(c, a))
    BY <1>1 DEF Tell
  <2> DEFINE n == [NoOp EXCEPT !.kind = "tell", !.g = a, !.c = c]
  <2>2. n.kind = "tell"
    BY DEF NoOp
  <2> HIDE DEF n
  <2>3. /\ pc'[t] = "guardian" /\ op'[t] = n /\ write'[t] = NoWrite /\ UNCHANGED dbVars
        /\ want'[t] = Told(c, a) /\ held'[t] = {}
    BY <2>1, Begins DEF n
  <2>4. \A w \in Asked(t)' : w[2] = "share"
    BY <2>3, ToldShares DEF Asked
  <2> QED BY <2>2, <2>3, <2>4 DEF Knows, Teller
<1>2. CASE TellWrites(t)
  <2> DEFINE w == [NoWrite EXCEPT !.rings = Rings(t, o.c)]
  <2>1. /\ o.kind = "tell" /\ o.c \in Child /\ Teller(t)
        /\ Write(t, w)
    BY <1>2 DEF TellWrites, At, Knows, TInv, Fits
  <2>2. w.rings = Rings(t, o.c) /\ w.leave = NoWrite.leave /\ LinksLeft(w)
    BY DEF NoWrite, LinksLeft
  <2> HIDE DEF w
  <2>3. /\ pc'[t] = "write" /\ op'[t] = o /\ held'[t] = held[t] /\ want'[t] = want[t] /\ UNCHANGED dbVars
        /\ write'[t] = w
    BY <2>1 DEF Write, TInv, TypeOK
  <2>4. \A p \in w.rings : p \in live' /\ Lock(GuardianRow(p[1]), "share") \in held'[t]
    BY <2>1, <2>2, <2>3, RingsKnown DEF Teller, dbVars
  <2>5. LinksLeft(write[t])'
    BY <2>2, <2>3 DEF LinksLeft
  <2>6. \A v \in Asked(t)' : v[1][1] = "guardian" => v[2] = "share"
    BY <2>1, <2>3 DEF Teller, Asked
  <2> QED BY <2>1, <2>2, <2>3, <2>4, <2>5, <2>6 DEF Knows, Teller, NoWrite
<1> QED BY <1>1, <1>2

LEMMA AsksKnow ==
    ASSUME TInv, NEW t \in Tx, Knows(t), AskLeave(t) \/ AskLocksProfile(t) \/ AskInserts(t) \/ AskWrites(t)
    PROVE  Knows(t)' /\ UNCHANGED dbVars
<1> DEFINE o == op[t]
<1>1. CASE AskLeave(t)
  <2>1. PICK g \in Guardian, c \in Child, s \in Span :
          Begin(t, [NoOp EXCEPT !.kind = "ask", !.g = g, !.c = c, !.span = s], "link", AskedLink(g, c))
    BY <1>1 DEF AskLeave
  <2> DEFINE n == [NoOp EXCEPT !.kind = "ask", !.g = g, !.c = c, !.span = s]
  <2>2. n.kind = "ask" /\ n.g = g /\ n.c = c
    BY DEF NoOp
  <2> HIDE DEF n
  <2>3. /\ pc'[t] = "link" /\ op'[t] = n /\ write'[t] = NoWrite /\ UNCHANGED dbVars
        /\ Asks(t, LinkRow(g, c))'
    BY <2>1, Begins DEF n, AskedLink, Strong
  <2> QED BY <2>2, <2>3 DEF Knows, Asker
<1>2. CASE AskLocksProfile(t)
  <2>1. /\ o.kind = "ask" /\ Holds(t, LinkRow(o.g, o.c)) /\ <<o.g, o.c>> \in live
        /\ Then(t, "profile", AskedProfile(o.c))
    BY <1>2, ReadyHolds DEF AskLocksProfile, At, Knows, Asker
  <2>2. /\ pc'[t] = "profile" /\ op'[t] = o /\ held'[t] = held[t] /\ write'[t] = NoWrite /\ UNCHANGED dbVars
        /\ want'[t] = {Lock(ProfileRow(o.c), "no_key_update")}
    BY <1>2, <2>1 DEF AskLocksProfile, At, Then, TInv, TypeOK, Knows, AskedProfile
  <2>3. Asks(t, ProfileRow(o.c))' /\ Holds(t, LinkRow(o.g, o.c))' /\ <<o.g, o.c>> \in live'
    BY <2>1, <2>2 DEF Asks, Asked, Holds, Strong, dbVars
  <2> QED BY <2>1, <2>2, <2>3 DEF Knows, Asker
<1>3. CASE AskInserts(t)
  <2>1. /\ o.kind = "ask" /\ Holds(t, LinkRow(o.g, o.c)) /\ <<o.g, o.c>> \in live
        /\ Holds(t, ProfileRow(o.c)) /\ MayAsk(o.c, o.span)
        /\ \E locks : Then(t, "guardian", locks)
    BY <1>3, ReadyHolds DEF AskInserts, At, Knows, Asker
  <2>2. /\ pc'[t] = "guardian" /\ op'[t] = o /\ held'[t] = held[t] /\ write'[t] = NoWrite /\ UNCHANGED dbVars
    BY <1>3, <2>1 DEF AskInserts, At, Then, TInv, TypeOK, Knows
  <2>3. /\ Holds(t, LinkRow(o.g, o.c))' /\ <<o.g, o.c>> \in live'
        /\ Holds(t, ProfileRow(o.c))' /\ MayAsk(o.c, o.span)'
    BY <2>1, <2>2 DEF Holds, MayAsk, LeavesOf, dbVars
  <2> QED BY <2>1, <2>2, <2>3 DEF Knows, Asker
<1>4. CASE AskWrites(t)
  <2>1. PICK r \in Leave : leave[r] = NoLeave /\ Write(t, [NoWrite EXCEPT !.leave = [q \in {r} |-> NewLeave(o)]])
    BY <1>4 DEF AskWrites
  <2> DEFINE w == [NoWrite EXCEPT !.leave = [q \in {r} |-> NewLeave(o)]]
  <2>2. w.rings = {} /\ w.leave = [q \in {r} |-> NewLeave(o)] /\ LinksLeft(w)
    BY DEF NoWrite, LinksLeft
  <2> HIDE DEF w
  <2>3. /\ o.kind = "ask" /\ Holds(t, LinkRow(o.g, o.c)) /\ <<o.g, o.c>> \in live
        /\ Holds(t, ProfileRow(o.c)) /\ MayAsk(o.c, o.span)
    BY <1>4 DEF AskWrites, At, Knows, Asker
  <2>4. /\ pc'[t] = "write" /\ op'[t] = o /\ held'[t] = held[t] /\ UNCHANGED dbVars /\ write'[t] = w
    BY <2>1 DEF Write, TInv, TypeOK, w
  <2>5. /\ Holds(t, LinkRow(o.g, o.c))' /\ <<o.g, o.c>> \in live'
        /\ Holds(t, ProfileRow(o.c))' /\ MayAsk(o.c, o.span)'
    BY <2>3, <2>4 DEF Holds, MayAsk, LeavesOf, dbVars
  <2>6. LinksLeft(write[t])' /\ write'[t].rings = {}
    BY <2>2, <2>4 DEF LinksLeft
  <2>7. leave'[r] = NoLeave /\ write'[t].leave = [q \in {r} |-> NewLeave(op'[t])]
    BY <2>1, <2>2, <2>4 DEF dbVars
  <2>8. NewLeave(op[t])' = NewLeave(op'[t])
    BY DEF NewLeave
  <2>9. Asker(t)'
    BY <2>4, <2>5, <2>6, <2>7, <2>8 DEF Asker
  <2> QED BY <2>3, <2>4, <2>9 DEF Knows
<1> QED BY <1>1, <1>2, <1>3, <1>4

\* The first phase of an answer: the leave request's row.
LEMMA AnswerBegins ==
    ASSUME TInv, NEW t \in Tx, Knows(t), NEW n, n.kind \in {"cancel", "decide"},
           Begin(t, n, "leave", {Lock(LeaveRow(n.leave), "no_key_update")})
    PROVE  Knows(t)' /\ UNCHANGED dbVars
<1>1. /\ pc'[t] = "leave" /\ op'[t] = n /\ write'[t] = NoWrite /\ UNCHANGED dbVars
      /\ want'[t] = {Lock(LeaveRow(n.leave), "no_key_update")} /\ held'[t] = {}
      /\ Asks(t, LeaveRow(n.leave))'
  BY Begins DEF Strong
<1>2. \A w \in Asked(t)' : w[1][1] # "guardian"
  BY <1>1 DEF Asked, Lock, LeaveRow
<1> QED BY <1>1, <1>2 DEF Knows, Teller, Answerer

LEMMA AnswersKnow ==
    ASSUME TInv, NEW t \in Tx, Knows(t),
           CancelLeave(t) \/ CancelWrites(t) \/ DecideLeave(t) \/ DecideTells(t) \/ DecideWrites(t)
    PROVE  Knows(t)' /\ UNCHANGED dbVars
<1> DEFINE o == op[t]
<1>1. CASE CancelLeave(t)
  <2>1. PICK r \in Leave :
          Begin(t, [NoOp EXCEPT !.kind = "cancel", !.g = leave[r].by, !.c = leave[r].child,
                                !.leave = r, !.to = "cancelled"],
                "leave", {Lock(LeaveRow(r), "no_key_update")})
    BY <1>1 DEF CancelLeave
  <2> DEFINE n == [NoOp EXCEPT !.kind = "cancel", !.g = leave[r].by, !.c = leave[r].child,
                               !.leave = r, !.to = "cancelled"]
  <2>2. n.kind = "cancel" /\ n.leave = r
    BY DEF NoOp
  <2>3. Begin(t, n, "leave", {Lock(LeaveRow(r), "no_key_update")})
    BY <2>1
  <2> HIDE DEF n
  <2> QED BY <2>2, <2>3, AnswerBegins
<1>2. CASE DecideLeave(t)
  <2>1. PICK r \in Leave, to \in {"approved", "rejected"}, a \in {0} \union Colleague :
          Begin(t, [NoOp EXCEPT !.kind = "decide", !.g = a, !.c = leave[r].child,
                                !.leave = r, !.to = to],
                "leave", {Lock(LeaveRow(r), "no_key_update")})
    BY <1>2 DEF DecideLeave
  <2> DEFINE n == [NoOp EXCEPT !.kind = "decide", !.g = a, !.c = leave[r].child,
                               !.leave = r, !.to = to]
  <2>2. n.kind = "decide" /\ n.leave = r
    BY DEF NoOp
  <2>3. Begin(t, n, "leave", {Lock(LeaveRow(r), "no_key_update")})
    BY <2>1
  <2> HIDE DEF n
  <2> QED BY <2>2, <2>3, AnswerBegins
<1>3. CASE CancelWrites(t)
  <2> DEFINE w == [NoWrite EXCEPT !.leave = Decided(t)]
  <2>1. /\ o.kind = "cancel" /\ Teller(t) /\ Holds(t, LeaveRow(o.leave)) /\ StillPending(o.leave)
        /\ Write(t, w)
    BY <1>3, ReadyHolds DEF CancelWrites, At, Knows, Answerer
  <2>2. w.rings = {} /\ w.leave = Decided(t) /\ LinksLeft(w)
    BY DEF NoWrite, LinksLeft
  <2> HIDE DEF w
  <2>3. /\ pc'[t] = "write" /\ op'[t] = o /\ held'[t] = held[t] /\ want'[t] = want[t]
        /\ UNCHANGED dbVars /\ write'[t] = w
    BY <2>1 DEF Write, TInv, TypeOK
  <2>4. LinksLeft(write[t])'
    BY <2>2, <2>3 DEF LinksLeft
  <2>5. Teller(t)'
    BY <2>1, <2>2, <2>3, <2>4 DEF Teller, Asked
  <2>6. Decided(t)' = Decided(t) /\ Holds(t, LeaveRow(o.leave))' /\ StillPending(o.leave)'
    BY <2>1, <2>3 DEF Decided, Holds, StillPending, dbVars
  <2>7. Answerer(t)'
    BY <2>2, <2>3, <2>4, <2>6 DEF Answerer
  <2> QED BY <2>1, <2>3, <2>5, <2>7 DEF Knows
<1>4. CASE DecideTells(t)
  <2>1. /\ o.kind = "decide" /\ Teller(t) /\ Holds(t, LeaveRow(o.leave)) /\ StillPending(o.leave)
        /\ want[t] = {} /\ pc[t] = "leave" /\ Then(t, "guardian", Told(o.c, o.g))
    BY <1>4, ReadyHolds DEF DecideTells, At, Knows, Answerer
  <2>2. /\ pc'[t] = "guardian" /\ op'[t] = o /\ held'[t] = held[t] /\ want'[t] = Told(o.c, o.g)
        /\ UNCHANGED dbVars /\ write'[t] = NoWrite
    BY <2>1 DEF Then, TInv, TypeOK, Knows
  <2>3. Teller(t)'
    BY <2>1, <2>2, ToldShares DEF Teller, Asked
  <2>4. Holds(t, LeaveRow(o.leave))' /\ StillPending(o.leave)'
    BY <2>1, <2>2 DEF Holds, StillPending, dbVars
  <2> QED BY <2>1, <2>2, <2>3, <2>4 DEF Knows, Answerer
<1>5. CASE DecideWrites(t)
  <2> DEFINE w == [NoWrite EXCEPT !.leave = Decided(t), !.rings = Rings(t, o.c)]
  <2>1. /\ o.kind = "decide" /\ Teller(t) /\ Holds(t, LeaveRow(o.leave)) /\ StillPending(o.leave)
        /\ Write(t, w) /\ o.c \in Child
    BY <1>5 DEF DecideWrites, At, Knows, Answerer, TInv, Fits
  <2>2. w.rings = Rings(t, o.c) /\ w.leave = Decided(t) /\ LinksLeft(w)
    BY DEF NoWrite, LinksLeft
  <2> HIDE DEF w
  <2>3. /\ pc'[t] = "write" /\ op'[t] = o /\ held'[t] = held[t] /\ want'[t] = want[t]
        /\ UNCHANGED dbVars /\ write'[t] = w
    BY <2>1 DEF Write, TInv, TypeOK
  <2>4. LinksLeft(write[t])'
    BY <2>2, <2>3 DEF LinksLeft
  <2>5. \A p \in w.rings : p \in live' /\ Lock(GuardianRow(p[1]), "share") \in held'[t]
    BY <2>1, <2>2, <2>3, RingsKnown DEF Teller, dbVars
  <2>6. Teller(t)'
    BY <2>1, <2>3, <2>4, <2>5 DEF Teller, Asked
  <2>7. Decided(t)' = Decided(t) /\ Holds(t, LeaveRow(o.leave))' /\ StillPending(o.leave)'
    BY <2>1, <2>3 DEF Decided, Holds, StillPending, dbVars
  <2>8. Answerer(t)'
    BY <2>2, <2>3, <2>4, <2>7 DEF Answerer
  <2> QED BY <2>1, <2>3, <2>6, <2>8 DEF Knows
<1> QED BY <1>1, <1>2, <1>3, <1>4, <1>5

LEMMA TakeLockKnows ==
    ASSUME TInv, NEW t \in Tx, Knows(t), TakeLock(t)
    PROVE  Knows(t)' /\ UNCHANGED dbVars
<1>1. PICK w \in want[t] : /\ want' = [want EXCEPT ![t] = @ \ {w}]
                           /\ held' = [held EXCEPT ![t] = @ \union {w}]
                           /\ UNCHANGED <<pc, op, write>> /\ UNCHANGED dbVars
  BY DEF TakeLock
<1>2. want'[t] = want[t] \ {w} /\ held'[t] = held[t] \union {w}
  BY <1>1 DEF TInv, TypeOK
<1>3. Asked(t)' = Asked(t) /\ held[t] \subseteq held'[t]
  BY <1>2 DEF Asked
<1>4. /\ \A row : Asks(t, row)' = Asks(t, row)
      /\ \A row : Holds(t, row) => Holds(t, row)'
  BY <1>3 DEF Asks, Holds
<1>5. pc[t] \notin {"idle", "ended"}
  <2>1. ASSUME pc[t] \in {"idle", "ended"} PROVE FALSE
    <3>1. want[t] # {}
      OBVIOUS
    <3> QED BY <2>1, <3>1 DEF Knows
  <2> QED BY <2>1
<1>6. op[t].kind = "add" => Linker(t)'
  BY <1>1, <1>4 DEF Knows, Linker, Linking, Here, dbVars
<1>7. \A p : Ender(t, p) => Ender(t, p)'
  BY <1>1, <1>4 DEF Ender
<1>8. op[t].kind = "unlink" => Unlinker(t)'
  BY <1>1, <1>7 DEF Knows, Unlinker, Ending, dbVars
<1>9. op[t].kind = "remove_student" => StudentRemover(t)'
  BY <1>1, <1>3, <1>7 DEF Knows, StudentRemover, Ending, dbVars
<1>10. op[t].kind = "remove_staff" => StaffRemover(t)'
  BY <1>1, <1>3, <1>7 DEF Knows, StaffRemover, Ending, dbVars
<1>11. op[t].kind \in {"tell", "cancel", "decide"} => Teller(t)'
  BY <1>1, <1>3 DEF Knows, Teller, LinksLeft, dbVars
<1>12. op[t].kind = "ask" => Asker(t)'
  BY <1>1, <1>4 DEF Knows, Asker, LinksLeft, MayAsk, LeavesOf, NewLeave, dbVars
<1>13. op[t].kind \in {"cancel", "decide"} => Answerer(t)'
  BY <1>1, <1>4 DEF Knows, Answerer, LinksLeft, Decided, StillPending, dbVars
<1> QED BY <1>1, <1>5, <1>6, <1>8, <1>9, <1>10, <1>11, <1>12, <1>13 DEF Knows

LEMMA EndKnows ==
    ASSUME TInv, NEW t \in Tx, End(t)
    PROVE  Knows(t)'
<1>1. /\ op'[t] = NoOp /\ write'[t] = NoWrite /\ held'[t] = {} /\ want'[t] = {}
      /\ pc'[t] \in {"idle", "ended"}
  BY DEF End, TInv, TypeOK
<1> QED BY <1>1 DEF Knows, NoOp

\* A step of one transaction leaves the others as they are.
LEMMA OneMoves ==
    ASSUME TInv, NEW u \in Tx, NEW t \in Tx, t # u,
           \/ Links(u) \/ Removals(u) \/ Leaves(u) \/ Tell(u) \/ TellWrites(u)
           \/ TakeLock(u) \/ Commit(u) \/ Abort(u)
    PROVE  Same(t)
<1>1. CASE TakeLock(u)
  BY <1>1 DEF TakeLock, Same, TInv, TypeOK
<1>2. CASE Commit(u) \/ Abort(u)
  BY <1>2, OthersKeep DEF Commit, Abort, TInv
<1>3. ASSUME NEW o, NEW phase, NEW locks, Begin(u, o, phase, locks) PROVE Same(t)
  BY <1>3 DEF Begin, Same, TInv, TypeOK
<1>4. ASSUME NEW phase, NEW locks, Then(u, phase, locks) PROVE Same(t)
  BY <1>4 DEF Then, Same, TInv, TypeOK
<1>5. ASSUME NEW w, Write(u, w) PROVE Same(t)
  BY <1>5 DEF Write, Same, TInv, TypeOK
<1>6. CASE Links(u)
  BY <1>3, <1>4, <1>5, <1>6 DEF Links, AddGuardian, AddFindsGuardian, AddFindsLink, AddWrites,
       UnlinkGuardian, UnlinkLocksGuardian, UnlinkLocksLink, UnlinkWrites
<1>7. CASE Removals(u)
  BY <1>3, <1>4, <1>5, <1>7 DEF Removals, RemoveStudent, RemoveStudentLocksProfile,
       RemoveStudentLocksGuardians, RemoveStudentLocksLinks, RemoveStudentWrites, RemoveStaff,
       RemoveStaffLocksLinks, RemoveStaffWrites
<1>8. CASE Leaves(u) \/ Tell(u) \/ TellWrites(u)
  BY <1>3, <1>4, <1>5, <1>8 DEF Leaves, AskLeave, AskLocksProfile, AskInserts, AskWrites, CancelLeave,
       CancelWrites, DecideLeave, DecideTells, DecideWrites, Tell, TellWrites
<1> QED BY <1>1, <1>2, <1>6, <1>7, <1>8

LEMMA NothingDisturbsNobody ==
    ASSUME UNCHANGED dbVars, NEW t \in Tx
    PROVE  Undisturbed(t)
BY DEF dbVars, Undisturbed, MayAsk, LeavesOf

\* A commit keeps what the others know.
LEMMA CommitKeepsKnowing ==
    ASSUME GInv, NEW u \in Tx, NEW t \in Tx, t # u, Commit(u)
    PROVE  Knows(t)'
<1>1. TInv' /\ Covered(u) /\ Same(t)
  BY CommitType, WritersCover, OneMoves DEF GInv, Commit
<1>2. Undisturbed(t)
  BY <1>1, CommitDisturbsNobody DEF GInv
<1>3. ASSUME NEW r \in DOMAIN write[t].leave, r \in Leave, leave[r] = NoLeave
      PROVE  leave'[r] = NoLeave
  <2>1. r \notin DOMAIN write[u].leave
    BY DEF GInv, SlotsApart
  <2> QED BY <1>3, <2>1 DEF Commit
<1> QED BY <1>1, <1>2, <1>3, KnowsStays DEF GInv

LEMMA KnowsStep == GInv /\ [Next]_vars => \A t \in Tx : Knows(t)'
<1> SUFFICES ASSUME GInv, [Next]_vars, NEW t \in Tx PROVE Knows(t)'
  OBVIOUS
<1> USE DEF GInv
<1>0. TInv'
  BY TypeStep
<1>1. CASE UNCHANGED vars
  <2>1. Same(t) /\ UNCHANGED dbVars
    BY <1>1 DEF vars, dbVars, Same
  <2>2. \A r \in DOMAIN write[t].leave : r \in Leave /\ leave[r] = NoLeave => leave'[r] = NoLeave
    BY <1>1 DEF vars
  <2> QED BY <1>0, <2>1, <2>2, NothingDisturbsNobody, KnowsStays
<1>2. ASSUME NEW u \in Tx, Commit(u) PROVE Knows(t)'
  <2>1. CASE t = u
    BY <1>2, <2>1, EndKnows DEF Commit
  <2> QED BY <1>2, <2>1, CommitKeepsKnowing
<1>3. ASSUME NEW u \in Tx,
             \/ Links(u) \/ Removals(u) \/ Leaves(u) \/ Tell(u) \/ TellWrites(u)
             \/ TakeLock(u) \/ Abort(u)
      PROVE  Knows(t)'
  <2>1. Knows(u)' /\ UNCHANGED dbVars
    BY <1>3, LinksKnow, RemovalsKnow, TellsKnow, AsksKnow, AnswersKnow, TakeLockKnows, EndKnows
       DEF Leaves, Abort
  <2>2. CASE t # u
    <3>1. Same(t) /\ Undisturbed(t)
      BY <1>3, <2>1, <2>2, OneMoves, NothingDisturbsNobody
    <3>2. \A r \in DOMAIN write[t].leave : r \in Leave /\ leave[r] = NoLeave => leave'[r] = NoLeave
      BY <2>1 DEF dbVars
    <3> QED BY <1>0, <3>1, <3>2, KnowsStays
  <2> QED BY <2>1, <2>2
<1> QED BY <1>1, <1>2, <1>3 DEF Next

-----------------------------------------------------------------------------
(* One writer of a leave request.                                          *)

LEMMA OthersSlot ==
    ASSUME GInv, NEW t \in Tx, NEW u \in Tx, t # u, NEW r \in Leave,
           StillPending(r), Holds(u, LeaveRow(r))
    PROVE  r \notin DOMAIN write[t].leave
<1> SUFFICES ASSUME r \in DOMAIN write[t].leave PROVE FALSE
  OBVIOUS
<1>1. pc[t] = "write"
  BY DEF GInv, Knows, NoWrite
<1>2. AsksNow(t, r) \/ AnswersNow(t, r)
  BY <1>1, WritersCover DEF GInv, Covered
<1>3. CASE AsksNow(t, r)
  BY <1>3 DEF AsksNow, StillPending, NoLeave
<1>4. CASE AnswersNow(t, r)
  BY <1>4, HeldAlone DEF AnswersNow, GInv
<1> QED BY <1>2, <1>3, <1>4

LEMMA SlotsStep == GInv /\ [Next]_vars => SlotsApart'
<1> SUFFICES ASSUME GInv, [Next]_vars PROVE SlotsApart'
  OBVIOUS
<1> USE DEF GInv
<1>1. ASSUME NEW u \in Tx,
             \A t \in Tx : t # u => write'[t] = write[t],
             \A t \in Tx : t # u => DOMAIN write'[u].leave \intersect DOMAIN write[t].leave = {}
      PROVE  SlotsApart'
  BY <1>1 DEF SlotsApart
<1>2. CASE UNCHANGED write
  BY <1>2 DEF SlotsApart
<1>3. ASSUME NEW u \in Tx, End(u) PROVE SlotsApart'
  <2>1. \A t \in Tx : t # u => write'[t] = write[t]
    BY <1>3 DEF End, TInv, TypeOK
  <2>2. DOMAIN write'[u].leave = {}
    BY <1>3 DEF End, TInv, TypeOK, NoWrite
  <2> QED BY <1>1, <2>1, <2>2
<1>4. ASSUME NEW u \in Tx, NEW w, Write(u, w),
             \A t \in Tx : t # u => DOMAIN w.leave \intersect DOMAIN write[t].leave = {}
      PROVE  SlotsApart'
  <2>1. write'[u] = w /\ \A t \in Tx : t # u => write'[t] = write[t]
    BY <1>4 DEF Write, TInv, TypeOK
  <2> QED BY <1>1, <1>4, <2>1
<1>5. ASSUME NEW u \in Tx, NEW w, Write(u, w), DOMAIN w.leave = {} PROVE SlotsApart'
  BY <1>4, <1>5
<1>6. ASSUME NEW u \in Tx, Links(u) PROVE SlotsApart'
  <2>1. ASSUME NEW g, NEW c PROVE DOMAIN Linking(g, c).leave = {}
    BY DEF Linking, NoWrite
  <2>2. ASSUME NEW pairs PROVE DOMAIN Ending(pairs).leave = {}
    BY DEF Ending, NoWrite
  <2> QED BY <1>2, <1>5, <1>6, <2>1, <2>2 DEF Links, AddGuardian, AddFindsGuardian, AddFindsLink, AddWrites,
       UnlinkGuardian, UnlinkLocksGuardian, UnlinkLocksLink, UnlinkWrites, Begin, Then
<1>7. ASSUME NEW u \in Tx, Removals(u) PROVE SlotsApart'
  <2>1. ASSUME NEW pairs, NEW gone PROVE DOMAIN [Ending(pairs) EXCEPT !.gone = gone].leave = {}
    BY DEF Ending, NoWrite
  <2>2. ASSUME NEW pairs, NEW closes, NEW gone
        PROVE  DOMAIN [Ending(pairs) EXCEPT !.closes = closes, !.gone = gone].leave = {}
    BY DEF Ending, NoWrite
  <2>3. CASE RemoveStudentWrites(u)
    BY <1>5, <2>1, <2>3 DEF RemoveStudentWrites
  <2>4. CASE RemoveStaffWrites(u)
    BY <1>5, <2>2, <2>4 DEF RemoveStaffWrites
  <2> QED BY <1>2, <1>7, <2>3, <2>4 DEF Removals, RemoveStudent, RemoveStudentLocksProfile,
       RemoveStudentLocksGuardians, RemoveStudentLocksLinks, RemoveStaff, RemoveStaffLocksLinks, Begin, Then
<1>8. ASSUME NEW u \in Tx, Tell(u) \/ TellWrites(u) PROVE SlotsApart'
  <2>1. ASSUME NEW rings PROVE DOMAIN [NoWrite EXCEPT !.rings = rings].leave = {}
    BY DEF NoWrite
  <2> QED BY <1>2, <1>5, <1>8, <2>1 DEF Tell, TellWrites, Begin
<1>9. ASSUME NEW u \in Tx, AskWrites(u) PROVE SlotsApart'
  <2>1. PICK r \in Leave : /\ \A t \in Tx : r \notin DOMAIN write[t].leave
                           /\ Write(u, [NoWrite EXCEPT !.leave = [q \in {r} |-> NewLeave(op[u])]])
    BY <1>9 DEF AskWrites
  <2> DEFINE w == [NoWrite EXCEPT !.leave = [q \in {r} |-> NewLeave(op[u])]]
  <2>2. DOMAIN w.leave = {r}
    BY DEF NoWrite
  <2>3. Write(u, w)
    BY <2>1
  <2> HIDE DEF w
  <2>4. \A t \in Tx : t # u => DOMAIN w.leave \intersect DOMAIN write[t].leave = {}
    BY <2>1, <2>2
  <2> QED BY <1>4, <2>3, <2>4
<1>10. ASSUME NEW u \in Tx, CancelWrites(u) \/ DecideWrites(u) PROVE SlotsApart'
  <2>1. PICK w : Write(u, w) /\ w.leave = Decided(u)
    <3>1. CASE CancelWrites(u)
      <4>1. [NoWrite EXCEPT !.leave = Decided(u)].leave = Decided(u)
        BY DEF NoWrite
      <4> QED BY <3>1, <4>1 DEF CancelWrites
    <3>2. CASE DecideWrites(u)
      <4>1. [NoWrite EXCEPT !.leave = Decided(u), !.rings = Rings(u, op[u].c)].leave = Decided(u)
        BY DEF NoWrite
      <4> QED BY <3>2, <4>1 DEF DecideWrites
    <3> QED BY <1>10, <3>1, <3>2
  <2>2. DOMAIN w.leave = {op[u].leave}
    BY <2>1 DEF Decided
  <2>3. op[u].leave \in Leave /\ StillPending(op[u].leave) /\ Holds(u, LeaveRow(op[u].leave))
    BY <1>10, ReadyHolds DEF CancelWrites, DecideWrites, At, TInv, Fits, Knows, Answerer
  <2>4. \A t \in Tx : t # u => op[u].leave \notin DOMAIN write[t].leave
    BY <2>3, OthersSlot
  <2> QED BY <1>4, <2>1, <2>2, <2>4
<1>11. ASSUME NEW u \in Tx, Leaves(u) PROVE SlotsApart'
  BY <1>2, <1>9, <1>10, <1>11 DEF Leaves, AskLeave, AskLocksProfile, AskInserts, CancelLeave, DecideLeave,
       DecideTells, Begin, Then
<1>12. CASE UNCHANGED vars
  BY <1>2, <1>12 DEF vars
<1> QED BY <1>2, <1>3, <1>6, <1>7, <1>8, <1>11, <1>12 DEF Next, TakeLock, Commit, Abort

-----------------------------------------------------------------------------
(* What a commit does to the promises.                                     *)

\* Links that end: the login of whoever has none left closes, and the bell
\* loses the child; whoever is archived has no live link.
LEMMA EndingKeepsPromise ==
    ASSUME TInv, AccessFollowsLinks, NoFormerChild, NEW u \in Tx, Commit(u), NEW pairs \in SUBSET live,
           NEW w, w = write[u],
           w.ends = pairs, w.starts = {}, w.opens = {}, w.rings = {},
           w.prunes = Ending(pairs).prunes,
           w.closes \ Colleague = Ending(pairs).closes,
           \A p \in live \ pairs : GuardianRow(p[1]) \notin w.gone /\ ChildRow(p[2]) \notin w.gone
    PROVE  AccessFollowsLinks' /\ NoFormerChild'
<1>0. pairs \subseteq Pair /\ \A p \in pairs : p[1] \in Guardian
  BY DEF TInv, TypeOK, Pair
<1>1. /\ live' = live \ pairs
      /\ removed' = removed \union w.gone
      /\ bell' = bell \ w.prunes
      /\ \A g \in Guardian : account'[g] = IF g \in w.closes THEN "closed" ELSE account[g]
  BY DEF Commit
<1>3. Ending(pairs).prunes = {p \in bell : p[1] \in {q[1] : q \in pairs} /\ p \notin live \ pairs}
  BY EndingFields
<1>4. ASSUME NEW g \in Guardian \ Colleague
      PROVE  account'[g] = "open" <=> \E c \in Child : <<g, c>> \in live'
  <2>1. account[g] = "open" <=> \E c \in Child : <<g, c>> \in live
    BY DEF AccessFollowsLinks
  <2>2. g \in w.closes <=> /\ g \in {p[1] : p \in pairs}
                           /\ \A c \in Child : <<g, c>> \notin live \ pairs
                           /\ account[g] = "open"
    <3>1. g \in w.closes <=> g \in Ending(pairs).closes
      OBVIOUS
    <3> QED BY <3>1, EndingCloses
  <2>3. ASSUME account[g] = "open", \A c \in Child : <<g, c>> \notin live \ pairs
        PROVE  g \in {p[1] : p \in pairs}
    <3>1. PICK c \in Child : <<g, c>> \in live
      BY <2>1, <2>3
    <3>2. <<g, c>> \in pairs /\ <<g, c>>[1] = g
      BY <2>3, <3>1
    <3> QED BY <3>2
  <2>4. ASSUME account[g] # "open" PROVE ~\E c \in Child : <<g, c>> \in live'
    BY <1>1, <2>1, <2>4
  <2>5. CASE account[g] # "open"
    BY <1>1, <2>4, <2>5
  <2>6. CASE account[g] = "open" /\ \E c \in Child : <<g, c>> \in live \ pairs
    BY <1>1, <2>2, <2>6
  <2>7. CASE account[g] = "open" /\ \A c \in Child : <<g, c>> \notin live \ pairs
    BY <1>1, <2>2, <2>3, <2>7
  <2> QED BY <2>5, <2>6, <2>7
<1>5. ASSUME NEW p \in live' PROVE Here(GuardianRow(p[1]))' /\ Here(ChildRow(p[2]))'
  BY <1>1 DEF AccessFollowsLinks, Here
<1>6. ASSUME NEW p \in bell' PROVE p \in live'
  <2>1. p \in live /\ p \notin w.prunes /\ p \in bell
    BY <1>1 DEF NoFormerChild
  <2>2. p \in pairs => p[1] \in {q[1] : q \in pairs}
    OBVIOUS
  <2> QED BY <1>1, <1>3, <2>1, <2>2
<1> QED BY <1>4, <1>5, <1>6 DEF AccessFollowsLinks, NoFormerChild

LEMMA LinkingKeepsPromise ==
    ASSUME TInv, AccessFollowsLinks, NoFormerChild, NEW u \in Tx, Commit(u),
           op[u].kind = "add", Linker(u)
    PROVE  AccessFollowsLinks' /\ NoFormerChild'
<1> DEFINE g == op[u].g
           c == op[u].c
           w == write[u]
           reopens == g \notin Colleague /\ account[g] = "closed"
<1>0. g \in Guardian /\ c \in Child /\ <<g, c>>[1] = g /\ <<g, c>>[2] = c
  BY DEF TInv, Fits
<1>1. w = Linking(g, c) /\ Here(GuardianRow(g)) /\ Here(ChildRow(c))
  BY DEF Commit, Linker
<1>2. /\ w.starts = {<<g, c>>} \ live /\ w.ends = {} /\ w.closes = {} /\ w.rings = {} /\ w.gone = {}
      /\ w.opens = IF account[g] = "none" \/ reopens THEN {g} ELSE {}
  BY <1>1 DEF Linking, NoWrite
<1>3. /\ live' = live \union {<<g, c>>}
      /\ removed' = removed
      /\ bell' \subseteq bell
      /\ \A h \in Guardian : account'[h] = IF h \in w.opens THEN "open" ELSE account[h]
  BY <1>2 DEF Commit
<1>4. ASSUME NEW h \in Guardian \ Colleague
      PROVE  account'[h] = "open" <=> \E d \in Child : <<h, d>> \in live'
  <2>1. account[h] = "open" <=> \E d \in Child : <<h, d>> \in live
    BY DEF AccessFollowsLinks
  <2>2. CASE h = g
    <3>1. account[g] \in {"none", "open", "closed"}
      BY <1>0 DEF TInv, TypeOK
    <3>2. account'[g] = "open"
      BY <1>0, <1>2, <1>3, <1>4, <2>2, <3>1
    <3> QED BY <1>0, <1>3, <2>2, <3>2
  <2>3. CASE h # g
    <3>1. \A d \in Child : <<h, d>> \in live' <=> <<h, d>> \in live
      BY <1>3, <2>3
    <3> QED BY <1>2, <1>3, <2>1, <2>3, <3>1
  <2> QED BY <2>2, <2>3
<1>5. ASSUME NEW p \in live' PROVE Here(GuardianRow(p[1]))' /\ Here(ChildRow(p[2]))'
  BY <1>0, <1>1, <1>3 DEF AccessFollowsLinks, Here
<1>6. bell' \subseteq live'
  BY <1>3 DEF NoFormerChild
<1> QED BY <1>4, <1>5, <1>6 DEF AccessFollowsLinks, NoFormerChild

LEMMA BellsKeepPromise ==
    ASSUME TInv, AccessFollowsLinks, NoFormerChild, NEW u \in Tx, Commit(u),
           LinksLeft(write[u]), \A p \in write[u].rings : p \in live
    PROVE  AccessFollowsLinks' /\ NoFormerChild'
<1>1. /\ live' = live /\ removed' = removed
      /\ \A g \in Guardian : account'[g] = account[g]
      /\ bell' = bell \union write[u].rings
  BY DEF Commit, LinksLeft
<1> QED BY <1>1 DEF AccessFollowsLinks, NoFormerChild, Here

LEMMA CommitKeepsLinks ==
    ASSUME GInv, NEW u \in Tx, Commit(u)
    PROVE  AccessFollowsLinks' /\ NoFormerChild'
<1> DEFINE o == op[u]
           w == write[u]
<1>0. /\ TInv /\ Knows(u) /\ AccessFollowsLinks /\ NoFormerChild /\ pc[u] = "write"
      /\ o.kind \in Kind \ {"none"}
  BY DEF GInv, Promise, Commit, TInv, TypeOK, Op
<1>1. CASE o.kind = "add"
  BY <1>0, <1>1, LinkingKeepsPromise DEF Knows
<1>2. CASE o.kind = "unlink"
  <2> DEFINE pairs == {<<o.g, o.c>>} \intersect live
  <2>1. w = Ending(pairs)
    BY <1>0, <1>2 DEF Knows, Unlinker
  <2>2. pairs \in SUBSET live
    OBVIOUS
  <2> HIDE DEF pairs
  <2>3. /\ w.ends = pairs /\ w.starts = {} /\ w.opens = {} /\ w.rings = {} /\ w.gone = {}
        /\ w.prunes = Ending(pairs).prunes /\ w.closes = Ending(pairs).closes
    BY <2>1, EndingFields
  <2>4. w.closes \ Colleague = Ending(pairs).closes
    BY <2>3, EndingCloses
  <2> QED BY <1>0, <2>2, <2>3, <2>4, EndingKeepsPromise
<1>3. CASE o.kind = "remove_student"
  <2> DEFINE pairs == {p \in live : p[2] = o.c}
  <2>1. w = [Ending(pairs) EXCEPT !.gone = {ChildRow(o.c)}]
    BY <1>0, <1>3 DEF Knows, StudentRemover
  <2>2. \A p \in live \ pairs : GuardianRow(p[1]) # ChildRow(o.c) /\ ChildRow(p[2]) # ChildRow(o.c)
    BY DEF GuardianRow, ChildRow
  <2>3. pairs \in SUBSET live
    OBVIOUS
  <2> HIDE DEF pairs
  <2>4. Ending(pairs) \in Writes
    BY <1>0, <2>3, EndingType DEF TInv
  <2>5. /\ w.ends = pairs /\ w.starts = {} /\ w.opens = {} /\ w.rings = {} /\ w.gone = {ChildRow(o.c)}
        /\ w.prunes = Ending(pairs).prunes /\ w.closes = Ending(pairs).closes
    BY <2>1, <2>4, EndingFields DEF Writes
  <2>6. w.closes \ Colleague = Ending(pairs).closes
    BY <2>5, EndingCloses
  <2>7. \A p \in live \ pairs : GuardianRow(p[1]) \notin w.gone /\ ChildRow(p[2]) \notin w.gone
    BY <2>2, <2>5
  <2> QED BY <1>0, <2>3, <2>5, <2>6, <2>7, EndingKeepsPromise
<1>4. CASE o.kind = "remove_staff"
  <2> DEFINE pairs == {p \in live : p[1] = o.g}
  <2>1. w = [Ending(pairs) EXCEPT !.closes = {o.g}, !.gone = {GuardianRow(o.g)}]
    BY <1>0, <1>4 DEF Knows, StaffRemover
  <2>2. \A p \in live \ pairs : GuardianRow(p[1]) # GuardianRow(o.g) /\ ChildRow(p[2]) # GuardianRow(o.g)
    BY DEF GuardianRow, ChildRow
  <2>3. pairs \in SUBSET live /\ o.g \in Colleague /\ \A p \in pairs : p[1] = o.g
    BY <1>0, <1>4 DEF TInv, Fits
  <2> HIDE DEF pairs
  <2>4. Ending(pairs) \in Writes
    BY <1>0, <2>3, EndingType DEF TInv
  <2>5. /\ w.ends = pairs /\ w.starts = {} /\ w.opens = {} /\ w.rings = {} /\ w.gone = {GuardianRow(o.g)}
        /\ w.prunes = Ending(pairs).prunes /\ w.closes = {o.g}
    BY <2>1, <2>4, EndingFields DEF Writes
  <2>6. Ending(pairs).closes = {}
    BY <2>3, EndingCloses
  <2>7. \A p \in live \ pairs : GuardianRow(p[1]) \notin w.gone /\ ChildRow(p[2]) \notin w.gone
    BY <2>2, <2>5
  <2>8. w.closes \ Colleague = Ending(pairs).closes
    BY <2>3, <2>5, <2>6
  <2> QED BY <1>0, <2>3, <2>5, <2>7, <2>8, EndingKeepsPromise
<1>5. CASE o.kind \in {"tell", "ask", "cancel", "decide"}
  <2>1. LinksLeft(w) /\ \A p \in w.rings : p \in live
    BY <1>0, <1>5 DEF Knows, Teller, Asker
  <2> QED BY <1>0, <2>1, BellsKeepPromise
<1> QED BY <1>0, <1>1, <1>2, <1>3, <1>4, <1>5 DEF Kind

LEMMA LeavesFinite ==
    ASSUME NEW S \in SUBSET Leave
    PROVE  IsFiniteSet(S) /\ Cardinality(S) \in Nat
<1>1. IsFiniteSet(Leave)
  <2>1. 1 \in Int /\ NLeave \in Int
    BY GuardiansAssumption
  <2> QED BY <2>1, FS_Interval DEF Leave
<1>2. IsFiniteSet(S)
  BY <1>1, FS_Subset
<1> QED BY <1>2, FS_CardinalityType

\* A new leave request was checked against the ones there still are.
LEMMA AskKeepsApart ==
    ASSUME TInv, LeavesKeepApart, NEW u \in Tx, Commit(u), op[u].kind = "ask", pc[u] = "write", Asker(u)
    PROVE  LeavesKeepApart'
<1> DEFINE o == op[u]
           live2 == {"pending", "approved"}
<1>1. PICK r \in Leave : leave[r] = NoLeave /\ write[u].leave = [q \in {r} |-> NewLeave(o)]
  BY DEF Asker
<1>2. MayAsk(o.c, o.span) /\ o.c \in Child
  BY DEF Asker, TInv, Fits
<1>3. leave'[r] = NewLeave(o) /\ \A q \in Leave : q # r => leave'[q] = leave[q]
  BY <1>1 DEF Commit
<1>4. ASSUME NEW c \in Child, NEW statuses, "pending" \in statuses, "none" \notin statuses
      PROVE  LeavesOf(c, statuses)' = IF c = o.c THEN LeavesOf(c, statuses) \union {r}
                                                 ELSE LeavesOf(c, statuses)
  <2>1. r \notin LeavesOf(c, statuses)
    BY <1>1, <1>4 DEF LeavesOf, NoLeave
  <2>2. r \in LeavesOf(c, statuses)' <=> c = o.c
    BY <1>3, <1>4 DEF LeavesOf, NewLeave
  <2>3. \A q \in Leave : q # r => (q \in LeavesOf(c, statuses)' <=> q \in LeavesOf(c, statuses))
    BY <1>3 DEF LeavesOf
  <2>4. LeavesOf(c, statuses)' \subseteq Leave /\ LeavesOf(c, statuses) \subseteq Leave
    BY DEF LeavesOf
  <2> QED BY <2>1, <2>2, <2>3, <2>4
<1>5. ASSUME NEW c \in Child
      PROVE  /\ LeavesOf(c, live2)' = IF c = o.c THEN LeavesOf(c, live2) \union {r} ELSE LeavesOf(c, live2)
             /\ LeavesOf(c, {"pending"})' = IF c = o.c THEN LeavesOf(c, {"pending"}) \union {r}
                                                       ELSE LeavesOf(c, {"pending"})
  <2>1. "pending" \in live2 /\ "none" \notin live2
    OBVIOUS
  <2>2. "pending" \in {"pending"} /\ "none" \notin {"pending"}
    OBVIOUS
  <2> QED BY <1>4, <2>1, <2>2
<1>6. ASSUME NEW c \in Child, NEW q, q \in LeavesOf(c, live2)', q # r
      PROVE  q \in LeavesOf(c, live2) /\ leave'[q] = leave[q]
  <2>1. q \in LeavesOf(c, live2)
    BY <1>5, <1>6
  <2>2. q \in Leave
    BY <2>1 DEF LeavesOf
  <2> QED BY <1>3, <1>6, <2>1, <2>2
<1>7. ASSUME NEW c \in Child, r \in LeavesOf(c, live2)'
      PROVE  c = o.c /\ leave'[r].span = o.span
  <2>1. r \notin LeavesOf(c, live2)
    BY <1>1 DEF LeavesOf, NoLeave
  <2>2. c = o.c
    BY <1>5, <1>7, <2>1
  <2>3. leave'[r].span = o.span
    BY <1>3 DEF NewLeave
  <2> QED BY <2>2, <2>3
<1>8. ASSUME NEW q \in LeavesOf(o.c, live2)
      PROVE  leave[q].span \intersect o.span = {}
  BY <1>2 DEF MayAsk
<1>9. ASSUME NEW c \in Child, NEW p \in LeavesOf(c, live2)', NEW q \in LeavesOf(c, live2)', p # q
      PROVE  leave'[p].span \intersect leave'[q].span = {}
  <2>1. CASE p # r /\ q # r
    BY <1>6, <1>9, <2>1 DEF LeavesKeepApart
  <2>2. CASE p = r
    BY <1>6, <1>7, <1>8, <1>9, <2>2
  <2>3. CASE q = r
    BY <1>6, <1>7, <1>8, <1>9, <2>3
  <2> QED BY <2>1, <2>2, <2>3
<1>10. ASSUME NEW c \in Child PROVE Cardinality(LeavesOf(c, {"pending"})') <= MaxPending
  <2> DEFINE S == LeavesOf(c, {"pending"})
  <2>1. IsFiniteSet(S) /\ Cardinality(S) \in Nat
    BY LeavesFinite DEF LeavesOf
  <2>2. CASE c # o.c
    BY <1>5, <2>2 DEF LeavesKeepApart
  <2>3. CASE c = o.c
    <3>1. S' = S \union {r}
      BY <1>5, <2>3
    <3>2. Cardinality(S) < MaxPending
      BY <1>2, <2>3 DEF MayAsk
    <3> HIDE DEF S
    <3>3. Cardinality(S \union {r}) = IF r \in S THEN Cardinality(S) ELSE Cardinality(S) + 1
      BY <2>1, FS_AddElement
    <3>4. Cardinality(S \union {r}) <= MaxPending
      BY <2>1, <3>2, <3>3, GuardiansAssumption
    <3> QED BY <3>1, <3>4 DEF S
  <2> QED BY <2>2, <2>3
<1> QED BY <1>9, <1>10 DEF LeavesKeepApart

\* An answer only takes a request out of those that wait.
LEMMA AnswerKeepsApart ==
    ASSUME TInv, LeavesKeepApart, NEW u \in Tx, Commit(u), Covered(u),
           \A r \in DOMAIN write[u].leave : ~AsksNow(u, r)
    PROVE  LeavesKeepApart'
<1>1. \A r \in Leave :
        \/ leave'[r] = leave[r]
        \/ /\ leave[r].status = "pending"
           /\ leave'[r].child = leave[r].child /\ leave'[r].span = leave[r].span
           /\ leave'[r].status \in {"cancelled", "approved", "rejected"}
  BY LeaveAfter DEF AnswersNow, StillPending
<1>2. ASSUME NEW c \in Child
      PROVE  /\ LeavesOf(c, {"pending"})' \subseteq LeavesOf(c, {"pending"})
             /\ \A r \in LeavesOf(c, {"pending", "approved"})' :
                  r \in LeavesOf(c, {"pending", "approved"}) /\ leave'[r].span = leave[r].span
  BY <1>1 DEF LeavesOf
<1>3. ASSUME NEW c \in Child PROVE Cardinality(LeavesOf(c, {"pending"})') <= MaxPending
  <2>1. LeavesOf(c, {"pending"}) \in SUBSET Leave /\ LeavesOf(c, {"pending"})' \in SUBSET Leave
    BY DEF LeavesOf
  <2>2. /\ IsFiniteSet(LeavesOf(c, {"pending"})) /\ Cardinality(LeavesOf(c, {"pending"})) \in Nat
        /\ Cardinality(LeavesOf(c, {"pending"})') \in Nat
    BY <2>1, LeavesFinite
  <2>3. Cardinality(LeavesOf(c, {"pending"})') <= Cardinality(LeavesOf(c, {"pending"}))
    BY <1>2, <2>2, FS_Subset
  <2>4. Cardinality(LeavesOf(c, {"pending"})) <= MaxPending
    BY DEF LeavesKeepApart
  <2> QED BY <2>2, <2>3, <2>4, GuardiansAssumption
<1>4. ASSUME NEW c \in Child, NEW p \in LeavesOf(c, {"pending", "approved"})',
             NEW q \in LeavesOf(c, {"pending", "approved"})', p # q
      PROVE  leave'[p].span \intersect leave'[q].span = {}
  BY <1>2, <1>4 DEF LeavesKeepApart
<1> QED BY <1>3, <1>4 DEF LeavesKeepApart

LEMMA CommitKeepsApart ==
    ASSUME GInv, NEW u \in Tx, Commit(u)
    PROVE  LeavesKeepApart'
<1>0. /\ TInv /\ Knows(u) /\ Covered(u) /\ LeavesKeepApart
      /\ pc[u] = "write" /\ op[u].kind \in Kind \ {"none"}
  BY WritersCover DEF GInv, Promise, Commit, TInv, TypeOK, Op
<1>1. CASE op[u].kind = "ask"
  BY <1>0, <1>1, AskKeepsApart DEF Knows
<1>2. CASE DOMAIN write[u].leave = {}
  BY <1>0, <1>2, AnswerKeepsApart
<1>3. DOMAIN NoWrite.leave = {}
  BY DEF NoWrite
<1>4. \A pairs : Ending(pairs).leave = NoWrite.leave
  BY EndingFields
<1>5. \A g, c : Linking(g, c).leave = NoWrite.leave
  BY DEF Linking, NoWrite
<1>6. CASE op[u].kind = "add"
  BY <1>0, <1>2, <1>3, <1>5, <1>6 DEF Knows, Linker
<1>7. CASE op[u].kind = "unlink"
  BY <1>0, <1>2, <1>3, <1>4, <1>7 DEF Knows, Unlinker
<1>8. CASE op[u].kind = "remove_student"
  <2> DEFINE w == Ending({p \in live : p[2] = op[u].c})
  <2>1. [w EXCEPT !.gone = {ChildRow(op[u].c)}].leave = w.leave
    BY DEF Ending, NoWrite
  <2> QED BY <1>0, <1>2, <1>3, <1>4, <1>8, <2>1 DEF Knows, StudentRemover
<1>9. CASE op[u].kind = "remove_staff"
  <2> DEFINE w == Ending({p \in live : p[1] = op[u].g})
  <2>1. [w EXCEPT !.closes = {op[u].g}, !.gone = {GuardianRow(op[u].g)}].leave = w.leave
    BY DEF Ending, NoWrite
  <2> QED BY <1>0, <1>2, <1>3, <1>4, <1>9, <2>1 DEF Knows, StaffRemover
<1>10. CASE op[u].kind = "tell"
  BY <1>0, <1>2, <1>3, <1>10 DEF Knows
<1>11. CASE op[u].kind \in {"cancel", "decide"}
  <2>1. DOMAIN write[u].leave = {op[u].leave} /\ StillPending(op[u].leave)
    BY <1>0, <1>11 DEF Knows, Answerer, Decided
  <2>2. ~AsksNow(u, op[u].leave)
    BY <2>1 DEF AsksNow, StillPending, NoLeave
  <2> QED BY <1>0, <2>1, <2>2, AnswerKeepsApart
<1> QED BY <1>0, <1>1, <1>6, <1>7, <1>8, <1>9, <1>10, <1>11 DEF Kind

-----------------------------------------------------------------------------
(* The theorems.                                                           *)

\* Only a commit writes the database.
LEMMA OnlyCommits ==
    ASSUME GInv, [Next]_vars
    PROVE  UNCHANGED dbVars \/ \E u \in Tx : Commit(u)
<1>1. ASSUME NEW u \in Tx,
             \/ Links(u) \/ Removals(u) \/ Leaves(u) \/ Tell(u) \/ TellWrites(u)
             \/ TakeLock(u) \/ Abort(u)
      PROVE  UNCHANGED dbVars
  BY <1>1, LinksKnow, RemovalsKnow, TellsKnow, AsksKnow, AnswersKnow, TakeLockKnows
     DEF Leaves, Abort, GInv
<1>2. CASE UNCHANGED vars
  BY <1>2 DEF vars, dbVars
<1> QED BY <1>1, <1>2 DEF Next

LEMMA PromiseStep == GInv /\ [Next]_vars => Promise'
<1> SUFFICES ASSUME GInv, [Next]_vars PROVE Promise'
  OBVIOUS
<1>1. CASE UNCHANGED dbVars
  BY <1>1 DEF GInv, Promise, dbVars, AccessFollowsLinks, NoFormerChild, LeavesKeepApart, LeavesOf, Here
<1>2. ASSUME NEW u \in Tx, Commit(u) PROVE Promise'
  BY <1>2, CommitKeepsLinks, CommitKeepsApart DEF Promise
<1> QED BY <1>1, <1>2, OnlyCommits

LEMMA InitGInv == Init => GInv
<1> SUFFICES ASSUME Init PROVE GInv
  OBVIOUS
<1>1. TInv
  BY InitType
<1>2. LocksExclude
  BY DEF Init, LocksExclude
<1>3. ASSUME NEW t \in Tx PROVE Knows(t)
  BY DEF Init, Knows, NoOp
<1>4. SlotsApart
  BY DEF Init, SlotsApart, NoWrite
<1>5. AccessFollowsLinks
  BY <1>1 DEF Init, AccessFollowsLinks, Here, TInv, TypeOK, Pair
<1>6. NoFormerChild
  BY DEF Init, NoFormerChild
<1>7. LeavesKeepApart
  <2>1. \A c \in Child : LeavesOf(c, {"pending", "approved"}) = {} /\ LeavesOf(c, {"pending"}) = {}
    BY DEF Init, LeavesOf, NoLeave
  <2>2. Cardinality({}) <= MaxPending
    BY FS_EmptySet, GuardiansAssumption
  <2>3. \A c \in Child : Cardinality(LeavesOf(c, {"pending"})) <= MaxPending
    BY <2>1, <2>2
  <2> QED BY <2>1, <2>3 DEF LeavesKeepApart
<1> QED BY <1>1, <1>2, <1>3, <1>4, <1>5, <1>6, <1>7 DEF GInv, Promise

LEMMA GInvStep == GInv /\ [Next]_vars => GInv'
<1> SUFFICES ASSUME GInv, [Next]_vars PROVE GInv'
  OBVIOUS
<1>1. TInv' /\ LocksExclude' /\ SlotsApart' /\ Promise'
  BY TypeStep, LocksExcludeStep, SlotsStep, PromiseStep DEF GInv
<1>2. \A t \in Tx : Knows(t)'
  BY KnowsStep
<1> QED BY <1>1, <1>2 DEF GInv

LEMMA Invariant == Spec => []GInv
BY InitGInv, GInvStep, PTL DEF Spec

\* The login of a guardian who is no colleague is open exactly while a live
\* link is theirs, and no live link points at a removed person, whichever of
\* unlinking, linking and removing commits first.
THEOREM AccessFollows == Spec => []AccessFollowsLinks
<1>1. GInv => AccessFollowsLinks
  BY DEF GInv, Promise
<1> QED BY <1>1, Invariant, PTL

\* No guardian's bell keeps anything about a child who is theirs no more.
THEOREM FormerChildGone == Spec => []NoFormerChild
<1>1. GInv => NoFormerChild
  BY DEF GInv, Promise
<1> QED BY <1>1, Invariant, PTL

\* A child's live leave requests never overlap, and never more than the cap
\* wait, however many guardians ask at once.
THEOREM LeavesApart == Spec => []LeavesKeepApart
<1>1. GInv => LeavesKeepApart
  BY DEF GInv, Promise
<1> QED BY <1>1, Invariant, PTL

\* What changes about a leave request was asked or answered under its locks.
LEMMA LeaveChanges ==
    ASSUME GInv, [Next]_vars, NEW r \in Leave, leave'[r] # leave[r]
    PROVE  \E u \in Tx :
             \/ AsksNow(u, r) /\ leave'[r] = NewLeave(op[u])
             \/ AnswersNow(u, r)
<1>1. PICK u \in Tx : Commit(u)
  BY OnlyCommits DEF dbVars
<1>2. Covered(u) /\ TInv
  BY <1>1, WritersCover DEF GInv, Commit
<1> QED BY <1>1, <1>2, LeaveAfter

\* A leave request enters only under a live link of the guardian who asks.
THEOREM AsksLinked == Spec => AskedWhileLinked
<1>1. ASSUME GInv, [Next]_vars, NEW r \in Leave, leave[r] = NoLeave, leave'[r] # NoLeave
      PROVE  <<leave'[r].by, leave'[r].child>> \in live
  <2>1. PICK u \in Tx : \/ AsksNow(u, r) /\ leave'[r] = NewLeave(op[u])
                        \/ AnswersNow(u, r)
    BY <1>1, LeaveChanges
  <2>2. ~AnswersNow(u, r)
    BY <1>1 DEF AnswersNow, StillPending, NoLeave
  <2> QED BY <2>1, <2>2 DEF AsksNow, NewLeave
<1>2. GInv /\ [Next]_vars =>
        [\A r \in Leave :
           leave[r] = NoLeave /\ leave'[r] # NoLeave => <<leave'[r].by, leave'[r].child>> \in live]_leave
  BY <1>1
<1> QED BY <1>2, Invariant, PTL DEF Spec, AskedWhileLinked

\* A leave request that was answered or cancelled never changes again.
THEOREM FirstStands == Spec => FirstAnswerStands
<1>1. ASSUME GInv, [Next]_vars, NEW r \in Leave, leave'[r] # leave[r]
      PROVE  leave[r] = NoLeave \/ leave[r].status = "pending"
  BY <1>1, LeaveChanges DEF AsksNow, AnswersNow, StillPending
<1>2. GInv /\ [Next]_vars =>
        [\A r \in Leave :
           leave'[r] # leave[r] => leave[r] = NoLeave \/ leave[r].status = "pending"]_leave
  BY <1>1
<1> QED BY <1>2, Invariant, PTL DEF Spec, FirstAnswerStands
=============================================================================
