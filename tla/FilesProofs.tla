---------------------------- MODULE FilesProofs ----------------------------
(***************************************************************************)
(* Theorems about Files, for any number of uploads, persons, holders and   *)
(* editing requests and any limits.  The inductive invariant adds what the *)
(* code's order of steps gives: how far an upload's row and bytes are in   *)
(* each phase of its request, that every deletion of bytes has a reason    *)
(* which cannot go away again, and what the row locks keep apart.          *)
(***************************************************************************)
EXTENDS Files, FiniteSetTheorems, TLAPS

\* The row comes last, the id is told after it, and bytes grow old only when
\* their request is over.
RowAfterBytes ==
    \A f \in File :
        /\ row[f].status # "none" => up[f].phase \in {"committed", "failed", "over"}
        /\ up[f].phase = "placed" => Stored(f)
        /\ up[f].phase = "committed" => row[f].status # "none" /\ (Live(f) => Stored(f))
        /\ f \in told => up[f].phase = "over" /\ row[f].status # "none"
        /\ disk[f] \in {"old", "beyond"} => up[f].phase = "over"

\* Bytes about to be deleted belong to an archived row, or to no row and to a
\* request that can no longer write one.
DeletionsDecided ==
    /\ \A f \in removing : row[f].status = "archived"
    /\ \A f \in File : up[f].phase = "committed" =>
         \A g \in up[f].expired : row[g].status = "archived"
    /\ \A g \in sweep.files : up[g].phase = "over"
    /\ sweep.phase = "deleting" => \A g \in sweep.files : ~Live(g)

\* What a transaction that expires uploads has locked stays pending and is in
\* nobody else's hands.
ExpiredHeld ==
    \A f \in File : InFlight(f) =>
        /\ \A g \in up[f].expired : row[g].status = "pending"
        /\ \A g \in File \ {f} : InFlight(g) => up[f].expired \intersect up[g].expired = {}
        /\ \A e \in Editor : Editing(e) => up[f].expired \intersect edit[e].add = {}

\* What an edit has locked is still what it read, and no two edits share it.
EditsHeld ==
    \A e \in Editor : Editing(e) =>
        /\ edit[e].add \subseteq told
        /\ \A f \in edit[e].add : row[f].status = "pending"
        /\ edit[e].remove \subseteq content[edit[e].holder]
        /\ Cardinality((content[edit[e].holder] \ edit[e].remove) \union edit[e].add) <= MaxFiles
        /\ \A d \in Editor \ {e} : Editing(d) =>
             edit[d].holder # edit[e].holder /\ edit[d].add \intersect edit[e].add = {}

\* The files of a person that count now or will once their upload commits.
Counted(p) == UsedToday(p) \union {f \in File : Uploader[f] = p /\ InFlight(f)}

\* One upload of a person at a time is past the quota check, and it fits.
QuotaKept ==
    /\ \A f, g \in File : (InFlight(f) /\ InFlight(g) /\ Uploader[f] = Uploader[g]) => f = g
    /\ \A p \in Person : Cardinality(Counted(p)) <= DailyFiles

IInv ==
    /\ TypeOK
    /\ KnownHasBytes
    /\ RowAfterBytes
    /\ DeletionsDecided
    /\ ExpiredHeld
    /\ EditsHeld
    /\ OneHome
    /\ SetWithinLimit
    /\ QuotaKept

-----------------------------------------------------------------------------
LEMMA NoneTyped == NoRow \in Row /\ NoEdit \in Edit /\ NoSweep \in Sweep
BY DEF NoRow, Row, NoEdit, Edit, NoSweep, Sweep, Target

\* The files of a person are finitely many, so fewer of them count less.
LEMMA CountedLess ==
    ASSUME NEW p, NEW S \in SUBSET File, NEW T \in SUBSET S, Cardinality(S) <= DailyFiles
    PROVE  Cardinality(T) <= DailyFiles
<1>1. IsFiniteSet(S) BY FS_Subset, FileAssumption
<1>2. IsFiniteSet(T) /\ Cardinality(T) <= Cardinality(S) BY <1>1, FS_Subset
<1>3. Cardinality(S) \in Nat /\ Cardinality(T) \in Nat BY <1>1, <1>2, FS_CardinalityType
<1> QED BY <1>2, <1>3, LimitAssumption

\* A step after which no more files count, and no other upload is past the
\* quota check, keeps the quota.
LEMMA QuotaKeptIf ==
    ASSUME IInv, \A p \in Person : Counted(p)' \subseteq Counted(p),
           \A f \in File : InFlight(f)' => InFlight(f)
    PROVE  QuotaKept'
<1>1. \A p \in Person : Counted(p) \subseteq File BY DEF Counted, UsedToday
<1>2. \A p \in Person : Cardinality(Counted(p)') <= DailyFiles
    BY <1>1, CountedLess DEF IInv, QuotaKept
<1> QED BY <1>2 DEF IInv, QuotaKept

LEMMA InitIInv == Init => IInv
<1> SUFFICES ASSUME Init PROVE IInv OBVIOUS
<1> USE DEF Init
<1>1. TypeOK BY NoneTyped DEF TypeOK, Upload
<1>2. KnownHasBytes /\ RowAfterBytes BY DEF KnownHasBytes, RowAfterBytes, NoRow
<1>3. DeletionsDecided BY DEF DeletionsDecided, NoSweep
<1>4. ExpiredHeld /\ EditsHeld BY DEF ExpiredHeld, InFlight, EditsHeld, Editing, NoEdit
<1>5. OneHome BY DEF OneHome, NoRow
<1>6. SetWithinLimit BY FS_EmptySet, LimitAssumption DEF SetWithinLimit
<1>7. QuotaKept
    <2>1. \A p \in Person : Counted(p) = {} BY DEF Counted, UsedToday, InFlight, NoRow
    <2>2. Cardinality({}) <= DailyFiles BY FS_EmptySet, LimitAssumption
    <2>3. \A f \in File : ~InFlight(f) BY DEF InFlight
    <2> QED BY <2>1, <2>2, <2>3 DEF QuotaKept
<1> QED BY <1>1, <1>2, <1>3, <1>4, <1>5, <1>6, <1>7 DEF IInv

-----------------------------------------------------------------------------
LEMMA ReceiveIInv == ASSUME NEW f \in File PROVE IInv /\ Receive(f) => IInv'
<1> SUFFICES ASSUME IInv, Receive(f) PROVE IInv' OBVIOUS
<1> USE DEF IInv, Receive, InFlight
<1>1. TypeOK' BY DEF TypeOK, Upload, Target
<1>2. KnownHasBytes' BY DEF KnownHasBytes, RowAfterBytes, Live, Stored, TypeOK
<1>3. RowAfterBytes' BY DEF RowAfterBytes, Live, Stored, TypeOK
<1>4. DeletionsDecided' BY DEF DeletionsDecided, Live, TypeOK
<1>5. ExpiredHeld' BY DEF ExpiredHeld, Editing, TypeOK
<1>6. EditsHeld' /\ OneHome' /\ SetWithinLimit'
    BY DEF EditsHeld, Editing, OneHome, SetWithinLimit
<1>7. QuotaKept'
    <2>1. \A g \in File : InFlight(g)' => InFlight(g) BY DEF TypeOK
    <2> QED BY <2>1, QuotaKeptIf DEF Counted, UsedToday
<1> QED BY <1>1, <1>2, <1>3, <1>4, <1>5, <1>6, <1>7

LEMMA RecordIInv == ASSUME NEW f \in File PROVE IInv /\ Record(f) => IInv'
<1> SUFFICES ASSUME IInv, Record(f) PROVE IInv' OBVIOUS
<1> PICK stale \in ExpireBatches :
      up' = [up EXCEPT ![f].phase = "open", ![f].expired = stale]
    BY DEF Record
<1>1. stale \subseteq Stale BY DEF ExpireBatches
<1>2. \A g \in stale : g \in File /\ row[g].status = "pending" /\ ~RowLocked(g)
    BY <1>1 DEF Stale
<1>3. /\ up \in [File -> Upload]
      /\ up[f].phase = "received"
      /\ up'[f].phase = "open" /\ up'[f].expired = stale /\ up'[f].for = up[f].for
      /\ \A g \in File \ {f} : up'[g] = up[g]
    BY DEF IInv, TypeOK, Upload, Record
<1> USE DEF IInv, Record, InFlight
<1>4. TypeOK'
    <2>1. up'[f] \in Upload BY <1>2, <1>3 DEF Upload
    <2> QED BY <2>1 DEF TypeOK
<1>5. KnownHasBytes' BY DEF KnownHasBytes, Live, Stored
<1>6. RowAfterBytes'
    <2>1. disk[f] \notin {"old", "beyond"} /\ f \notin told BY <1>3 DEF RowAfterBytes
    <2>2. row[f].status = "none" BY <1>3 DEF RowAfterBytes
    <2> QED BY <1>3, <2>1, <2>2 DEF RowAfterBytes, Live, Stored
<1>7. DeletionsDecided'
    <2>1. row' = row /\ removing' = removing /\ sweep' = sweep OBVIOUS
    <2>2. sweep.files \subseteq File /\ f \notin sweep.files BY <1>3 DEF DeletionsDecided, TypeOK, Sweep
    <2> QED BY <1>3, <2>1, <2>2 DEF DeletionsDecided, Live
<1>8. ExpiredHeld'
    <2>1. \A g \in File \ {f} : InFlight(g) => stale \intersect up[g].expired = {}
        BY <1>2 DEF RowLocked
    <2>2. \A e \in Editor : Editing(e) => stale \intersect edit[e].add = {}
        BY <1>2 DEF RowLocked
    <2> QED BY <1>2, <1>3, <2>1, <2>2 DEF ExpiredHeld, Editing
<1>9. EditsHeld' /\ OneHome' /\ SetWithinLimit'
    BY DEF EditsHeld, Editing, OneHome, SetWithinLimit
<1>10. QuotaKept'
    <2> DEFINE p == Uploader[f]
    <2>1. \A q \in Person \ {p} : Counted(q)' = Counted(q)
        BY <1>3 DEF Counted, UsedToday
    <2>2. Counted(p)' = UsedToday(p) \union {f}
        BY <1>3 DEF Counted, UsedToday, UploadLocked
    <2>3. Cardinality(UsedToday(p)) + 1 <= DailyFiles BY DEF WithinDailyQuota
    <2>4. IsFiniteSet(UsedToday(p)) BY FS_Subset, FileAssumption DEF UsedToday
    <2>5. Cardinality(UsedToday(p)) \in Nat BY <2>4, FS_CardinalityType
    <2>6. Cardinality(UsedToday(p) \union {f}) <= Cardinality(UsedToday(p)) + 1
        <3>1. CASE f \in UsedToday(p)
            <4>1. UsedToday(p) \union {f} = UsedToday(p) BY <3>1
            <4>2. Cardinality(UsedToday(p) \union {f}) = Cardinality(UsedToday(p)) BY <4>1, Zenon
            <4> QED BY <4>2, <2>5
        <3>2. CASE f \notin UsedToday(p)
            <4>1. Cardinality(UsedToday(p) \union {f}) = Cardinality(UsedToday(p)) + 1
                BY <2>4, <3>2, FS_AddElement
            <4> QED BY <4>1, <2>5
        <3> QED BY <3>1, <3>2
    <2>7. Cardinality(UsedToday(p) \union {f}) \in Nat
        BY <2>4, FS_AddElement, FS_CardinalityType
    <2>8. Cardinality(Counted(p)') <= DailyFiles
        BY <2>2, <2>3, <2>5, <2>6, <2>7, LimitAssumption
    <2>9. \A q \in Person : Cardinality(Counted(q)') <= DailyFiles
        BY <2>1, <2>8 DEF QuotaKept
    <2>10. \A g, h \in File : (InFlight(g)' /\ InFlight(h)' /\ Uploader[g] = Uploader[h]) => g = h
        BY <1>3 DEF QuotaKept, UploadLocked
    <2> QED BY <2>9, <2>10 DEF QuotaKept
<1> QED BY <1>4, <1>5, <1>6, <1>7, <1>8, <1>9, <1>10

LEMMA PublishIInv == ASSUME NEW f \in File PROVE IInv /\ Publish(f) => IInv'
<1> SUFFICES ASSUME IInv, Publish(f) PROVE IInv' OBVIOUS
<1>1. /\ up \in [File -> Upload]
      /\ up[f].phase = "open"
      /\ up'[f].phase = "placed" /\ up'[f].expired = up[f].expired /\ up'[f].for = up[f].for
      /\ \A g \in File \ {f} : up'[g] = up[g]
    BY DEF IInv, TypeOK, Upload, Publish
<1>2. disk'[f] = "fresh" /\ \A g \in File \ {f} : disk'[g] = disk[g]
    BY DEF IInv, TypeOK, Publish
<1> USE DEF IInv, Publish, InFlight
<1>3. TypeOK'
    <2>1. up'[f] \in Upload BY <1>1 DEF Upload
    <2> QED BY <2>1 DEF TypeOK
<1>4. KnownHasBytes' BY <1>2 DEF KnownHasBytes, Live, Stored
<1>5. RowAfterBytes' BY <1>1, <1>2 DEF RowAfterBytes, Live, Stored
<1>6. DeletionsDecided' BY <1>1 DEF DeletionsDecided, Live, TypeOK
<1>7. ExpiredHeld' BY <1>1 DEF ExpiredHeld, Editing
<1>8. EditsHeld' /\ OneHome' /\ SetWithinLimit'
    BY DEF EditsHeld, Editing, OneHome, SetWithinLimit
<1>9. QuotaKept' BY <1>1, QuotaKeptIf DEF Counted, UsedToday
<1> QED BY <1>3, <1>4, <1>5, <1>6, <1>7, <1>8, <1>9

LEMMA CommitUploadIInv == ASSUME NEW f \in File PROVE IInv /\ CommitUpload(f) => IInv'
<1> SUFFICES ASSUME IInv, CommitUpload(f) PROVE IInv' OBVIOUS
<1> DEFINE stale == up[f].expired
<1>1. /\ up \in [File -> Upload] /\ row \in [File -> Row]
      /\ up[f].phase = "placed"
      /\ up'[f].phase \in {"committed", "failed"} /\ up'[f].expired = stale /\ up'[f].for = up[f].for
      /\ \A g \in File \ {f} : up'[g] = up[g]
    BY DEF IInv, TypeOK, Upload, CommitUpload
<1>2. stale \subseteq File /\ up[f].for \in Target \union {NoHolder} BY <1>1 DEF Upload
<1>3. row[f].status = "none" BY <1>1 DEF IInv, RowAfterBytes
<1>4. \A g \in stale : row[g].status = "pending" /\ g # f
    BY <1>1, <1>3 DEF IInv, ExpiredHeld, InFlight
<1>5. /\ row'[f] = [status |-> "pending", recent |-> TRUE, for |-> up[f].for]
      /\ \A g \in File \ {f} : row'[g] = IF g \in stale THEN [row[g] EXCEPT !.status = "archived"] ELSE row[g]
      /\ row' \in [File -> Row]
    <2>1. Archived(stale) \in [File -> Row] BY <1>1, <1>2 DEF Archived, Row
    <2>2. row' = [Archived(stale) EXCEPT ![f] = [status |-> "pending", recent |-> TRUE, for |-> up[f].for]]
        BY DEF CommitUpload
    <2>3. [status |-> "pending", recent |-> TRUE, for |-> up[f].for] \in Row BY <1>2 DEF Row
    <2> QED BY <2>1, <2>2, <2>3 DEF Archived
<1>6. \A g \in stale : row'[g].status = "archived" /\ row'[g].recent = row[g].recent
    BY <1>1, <1>2, <1>4, <1>5 DEF Row
<1>7. \A g \in File : g # f /\ g \notin stale => row'[g] = row[g] BY <1>5
<1> USE DEF IInv, CommitUpload, InFlight
<1>8. TypeOK'
    <2>1. up'[f] \in Upload BY <1>1 DEF Upload
    <2> QED BY <1>5, <2>1 DEF TypeOK
<1>9. KnownHasBytes'
    <2>1. f \notin told /\ row[f].status # "attached" BY <1>1, <1>3 DEF RowAfterBytes
    <2>2. \A g \in File : g # f /\ Live(g)' => Live(g) BY <1>6, <1>7 DEF Live
    <2>3. \A g \in File : row'[g].status = "attached" => row[g].status = "attached"
        BY <1>5, <1>6, <1>7
    <2>4. \A g \in told : g \in File /\ g # f BY <2>1 DEF TypeOK
    <2>5. \A g \in File : Stored(g)' <=> Stored(g) BY DEF Stored
    <2>6. told' = told OBVIOUS
    <2> QED BY <2>2, <2>3, <2>4, <2>5, <2>6 DEF KnownHasBytes
<1>10. RowAfterBytes'
    <2>1. Stored(f)' BY <1>1 DEF RowAfterBytes, Stored
    <2>2. f \notin told /\ disk[f] \notin {"old", "beyond"} BY <1>1 DEF RowAfterBytes
    <2>3. \A g \in File : (row'[g].status # "none" <=> row[g].status # "none") \/ g = f
        BY <1>4, <1>6, <1>7
    <2>4. row'[f].status # "none" BY <1>5
    <2>5. \A g \in File : g # f /\ Live(g)' => Live(g) BY <1>6, <1>7 DEF Live
    <2>6. \A g \in File : Stored(g)' <=> Stored(g) BY DEF Stored
    <2>7. disk' = disk /\ told' = told OBVIOUS
    <2> QED BY <1>1, <2>1, <2>2, <2>3, <2>4, <2>5, <2>6, <2>7 DEF RowAfterBytes
<1>11. DeletionsDecided'
    <2>1. \A g \in File : row[g].status = "archived" => row'[g] = row[g]
        BY <1>3, <1>4, <1>7
    <2>2. \A g \in sweep.files : g \in File /\ g # f BY <1>1 DEF DeletionsDecided, TypeOK, Sweep
    <2>3. \A g \in File : g # f /\ ~Live(g) => ~Live(g)' BY <1>6, <1>7 DEF Live
    <2>4. \A g \in File : up[g].expired \subseteq File BY <1>1 DEF Upload
    <2>5. \A g \in removing : row'[g].status = "archived" BY <2>1 DEF DeletionsDecided, TypeOK
    <2>6. \A g \in File : up'[g].phase = "committed" => \A k \in up'[g].expired : row'[k].status = "archived"
        <3>1. \A k \in up'[f].expired : row'[k].status = "archived" BY <1>1, <1>6
        <3>2. \A g \in File \ {f} : up[g].phase = "committed" =>
                \A k \in up[g].expired : row'[k].status = "archived"
            BY <2>1, <2>4 DEF DeletionsDecided
        <3> QED BY <1>1, <3>1, <3>2
    <2>7. removing' = removing /\ sweep' = sweep OBVIOUS
    <2>8. \A g \in sweep.files : up'[g].phase = "over" BY <1>1, <2>2 DEF DeletionsDecided
    <2> QED BY <2>2, <2>3, <2>5, <2>6, <2>7, <2>8 DEF DeletionsDecided
<1>12. ExpiredHeld'
    <2>1. \A g \in File : InFlight(g)' => g # f /\ InFlight(g) /\ up'[g] = up[g] BY <1>1
    <2>2. \A g \in File \ {f} : InFlight(g) => \A k \in up[g].expired : k \in File /\ k # f /\ k \notin stale
        BY <1>1, <1>3 DEF ExpiredHeld, Upload
    <2> QED BY <1>7, <2>1, <2>2 DEF ExpiredHeld, Editing
<1>13. EditsHeld'
    <2>1. \A e \in Editor : Editing(e) => \A g \in edit[e].add : g \in File /\ g # f /\ g \notin stale
        BY <1>1, <1>3 DEF EditsHeld, ExpiredHeld, TypeOK
    <2> QED BY <1>7, <2>1 DEF EditsHeld, Editing
<1>14. OneHome' /\ SetWithinLimit'
    <2>1. \A g \in File : row'[g].status = "attached" <=> row[g].status = "attached"
        BY <1>3, <1>4, <1>5, <1>6, <1>7
    <2>2. \A h \in Holder : content[h] \subseteq File BY DEF TypeOK
    <2> QED BY <2>1, <2>2 DEF OneHome, SetWithinLimit
<1>15. QuotaKept'
    <2>1. \A g \in File : g # f => (row'[g].status # "none" => row[g].status # "none")
                                    /\ row'[g].recent = row[g].recent
        BY <1>4, <1>6, <1>7
    <2>2. \A p \in Person : Counted(p)' \subseteq Counted(p)
        BY <1>1, <2>1 DEF Counted, UsedToday
    <2> QED BY <1>1, <2>2, QuotaKeptIf
<1> QED BY <1>8, <1>9, <1>10, <1>11, <1>12, <1>13, <1>14, <1>15

LEMMA FailUploadIInv == ASSUME NEW f \in File PROVE IInv /\ FailUpload(f) => IInv'
<1> SUFFICES ASSUME IInv, FailUpload(f) PROVE IInv' OBVIOUS
<1>1. /\ up \in [File -> Upload]
      /\ up[f].phase \in {"received", "open", "placed"}
      /\ up'[f].phase = "failed" /\ up'[f].expired = up[f].expired /\ up'[f].for = up[f].for
      /\ \A g \in File \ {f} : up'[g] = up[g]
    BY DEF IInv, TypeOK, Upload, FailUpload
<1> USE DEF IInv, FailUpload, InFlight
<1>2. TypeOK'
    <2>1. up'[f] \in Upload BY <1>1 DEF Upload
    <2> QED BY <2>1 DEF TypeOK
<1>3. KnownHasBytes' BY DEF KnownHasBytes, Live, Stored
<1>4. RowAfterBytes' BY <1>1 DEF RowAfterBytes, Live, Stored
<1>5. DeletionsDecided' BY <1>1 DEF DeletionsDecided, Live, TypeOK
<1>6. ExpiredHeld' BY <1>1 DEF ExpiredHeld, Editing
<1>7. EditsHeld' /\ OneHome' /\ SetWithinLimit'
    BY DEF EditsHeld, Editing, OneHome, SetWithinLimit
<1>8. QuotaKept'
    <2>1. \A p \in Person : Counted(p)' \subseteq Counted(p) BY <1>1 DEF Counted, UsedToday
    <2> QED BY <1>1, <2>1, QuotaKeptIf
<1> QED BY <1>2, <1>3, <1>4, <1>5, <1>6, <1>7, <1>8

LEMMA EndUploadIInv == ASSUME NEW f \in File PROVE IInv /\ EndUpload(f) => IInv'
<1> SUFFICES ASSUME IInv, EndUpload(f) PROVE IInv' OBVIOUS
<1> DEFINE mine == IF up[f].phase = "committed" THEN up[f].expired \union LeftoverTemp ELSE {f}
<1> PICK gone \in SUBSET mine : disk' = Without(gone) BY DEF EndUpload
<1>1. /\ up \in [File -> Upload] /\ disk \in [File -> {"none", "temp", "fresh", "old", "beyond"}]
      /\ up[f].phase \in {"committed", "failed"}
      /\ up'[f].phase = "over" /\ up'[f].expired = {} /\ up'[f].for = up[f].for
      /\ \A g \in File \ {f} : up'[g] = up[g]
    BY DEF IInv, TypeOK, Upload, EndUpload
<1>2. \A g \in File : disk'[g] = IF g \in gone THEN "none" ELSE disk[g] BY DEF Without
<1>3. told \subseteq told' /\ (told' # told => up[f].phase = "committed" /\ told' = told \union {f})
    BY DEF EndUpload, Told
<1>4. \A g \in gone :
          (g = f /\ up[f].phase = "failed") \/ row[g].status = "archived"
          \/ (disk[g] = "temp" /\ up[g].phase = "over")
    <2>1. CASE up[f].phase = "committed"
        <3>1. gone \subseteq up[f].expired \union LeftoverTemp BY <2>1
        <3>2. \A g \in up[f].expired : row[g].status = "archived" BY <2>1 DEF IInv, DeletionsDecided
        <3> QED BY <3>1, <3>2 DEF LeftoverTemp
    <2>2. CASE up[f].phase = "failed" BY <2>2
    <2> QED BY <1>1, <2>1, <2>2
<1>5. row' = row BY DEF EndUpload
<1> USE DEF IInv, EndUpload, InFlight
<1>6. TypeOK'
    <2>1. up'[f] \in Upload BY <1>1 DEF Upload
    <2>2. disk' \in [File -> {"none", "temp", "fresh", "old", "beyond"}] BY <1>1 DEF Without
    <2> QED BY <1>3, <2>1, <2>2 DEF TypeOK
<1>7. KnownHasBytes'
    <2>1. \A g \in told' : g \in File /\ (Live(g) => Stored(g) /\ g \notin gone)
        <3> SUFFICES ASSUME NEW g \in told' PROVE g \in File /\ (Live(g) => Stored(g) /\ g \notin gone)
            OBVIOUS
        <3>1. g \in File BY <1>3 DEF TypeOK
        <3>2. Live(g) => Stored(g) BY <1>3 DEF KnownHasBytes, RowAfterBytes
        <3>3. Live(g) => g \notin gone BY <1>1, <1>3, <1>4, <3>2 DEF RowAfterBytes, Live, Stored
        <3> QED BY <3>1, <3>2, <3>3
    <2> QED BY <1>2, <1>3, <2>1 DEF KnownHasBytes, Live, Stored
<1>8. RowAfterBytes'
    <2>1. \A g \in File : up'[g].phase = "placed" => Stored(g)'
        BY <1>1, <1>2, <1>4 DEF RowAfterBytes, Stored
    <2>2. \A g \in File : up'[g].phase = "committed" => row[g].status # "none" /\ (Live(g) => Stored(g)')
        BY <1>1, <1>2, <1>4 DEF RowAfterBytes, Live, Stored
    <2>3. \A g \in File : g \in told' => up'[g].phase = "over" /\ row[g].status # "none"
        BY <1>1, <1>3 DEF RowAfterBytes
    <2>4. \A g \in File : disk'[g] \in {"old", "beyond"} => up'[g].phase = "over"
        BY <1>1, <1>2 DEF RowAfterBytes
    <2>5. \A g \in File : row[g].status # "none" => up'[g].phase \in {"committed", "failed", "over"}
        BY <1>1 DEF RowAfterBytes
    <2> QED BY <1>5, <2>1, <2>2, <2>3, <2>4, <2>5 DEF RowAfterBytes, Live
<1>9. DeletionsDecided' BY <1>1 DEF DeletionsDecided, Live, TypeOK, Sweep
<1>10. ExpiredHeld' BY <1>1 DEF ExpiredHeld, Editing
<1>11. EditsHeld' /\ OneHome' /\ SetWithinLimit'
    BY <1>3 DEF EditsHeld, Editing, OneHome, SetWithinLimit
<1>12. QuotaKept'
    <2>1. \A p \in Person : Counted(p)' \subseteq Counted(p) BY <1>1, <1>5 DEF Counted, UsedToday
    <2> QED BY <1>1, <2>1, QuotaKeptIf
<1> QED BY <1>6, <1>7, <1>8, <1>9, <1>10, <1>11, <1>12

-----------------------------------------------------------------------------
LEMMA BeginEditIInv == ASSUME NEW e \in Editor PROVE IInv /\ BeginEdit(e) => IInv'
<1> SUFFICES ASSUME IInv, BeginEdit(e) PROVE IInv' OBVIOUS
<1> PICK h \in Holder, p \in Person :
      \E add \in SUBSET {f \in told : Takable(f, p, IF h \in made THEN h ELSE NewHolder)},
         remove \in SUBSET content[h] :
        /\ ~Editing(e) /\ ~HolderLocked(h)
        /\ \A f \in add \union content[h] : ~RowLocked(f)
        /\ Cardinality((content[h] \ remove) \union add) <= MaxFiles
        /\ edit' = [edit EXCEPT ![e] = [holder |-> h, add |-> add, remove |-> remove]]
        /\ UNCHANGED <<row, disk, up, told, made, content, removing, sweep>>
    BY DEF BeginEdit
<1> PICK add \in SUBSET {f \in told : Takable(f, p, IF h \in made THEN h ELSE NewHolder)},
         remove \in SUBSET content[h] :
        /\ ~Editing(e) /\ ~HolderLocked(h)
        /\ \A f \in add \union content[h] : ~RowLocked(f)
        /\ Cardinality((content[h] \ remove) \union add) <= MaxFiles
        /\ edit' = [edit EXCEPT ![e] = [holder |-> h, add |-> add, remove |-> remove]]
        /\ UNCHANGED <<row, disk, up, told, made, content, removing, sweep>>
    OBVIOUS
<1>1. \A f \in add : f \in told /\ f \in File /\ row[f].status = "pending" /\ ~RowLocked(f)
    BY DEF Takable, IInv, TypeOK
<1>2. /\ edit'[e] = [holder |-> h, add |-> add, remove |-> remove]
      /\ \A d \in Editor \ {e} : edit'[d] = edit[d]
      /\ h # NoHolder
    BY HolderAssumption DEF IInv, TypeOK
<1>3. \A f \in File : InFlight(f)' <=> InFlight(f) BY DEF InFlight
<1>4. TypeOK'
    <2>1. [holder |-> h, add |-> add, remove |-> remove] \in Edit BY <1>1 DEF Edit, IInv, TypeOK
    <2> QED BY <2>1 DEF IInv, TypeOK
<1>5. KnownHasBytes' /\ RowAfterBytes' /\ DeletionsDecided'
    BY DEF IInv, KnownHasBytes, RowAfterBytes, DeletionsDecided, Live, Stored
<1>6. ExpiredHeld'
    <2>1. \A f \in File : InFlight(f) => up[f].expired \intersect add = {}
        BY <1>1 DEF RowLocked
    <2>2. \A f \in File, d \in Editor : InFlight(f) /\ Editing(d)' => up[f].expired \intersect edit'[d].add = {}
        BY <1>2, <2>1 DEF IInv, ExpiredHeld, Editing
    <2> QED BY <1>3, <2>2 DEF IInv, ExpiredHeld
<1>7. EditsHeld'
    <2>1. \A d \in Editor : Editing(d) => edit[d].holder # h /\ edit[d].add \intersect add = {}
        BY <1>1 DEF HolderLocked, RowLocked
    <2>2. \A d \in Editor \ {e} : Editing(d)' <=> Editing(d) BY <1>2 DEF Editing
    <2>3. told' = told /\ row' = row /\ content' = content OBVIOUS
    <2>4. /\ edit'[e].add \subseteq told
          /\ \A f \in edit'[e].add : row[f].status = "pending"
          /\ edit'[e].remove \subseteq content[edit'[e].holder]
          /\ Cardinality((content[edit'[e].holder] \ edit'[e].remove) \union edit'[e].add) <= MaxFiles
        <3>1. edit'[e].holder = h /\ edit'[e].add = add /\ edit'[e].remove = remove BY <1>2
        <3>2. Cardinality((content[edit'[e].holder] \ edit'[e].remove) \union edit'[e].add) <= MaxFiles
            BY <3>1, Zenon
        <3> QED BY <1>1, <3>1, <3>2
    <2>5. \A d \in Editor \ {e} : Editing(d)' =>
             edit'[d].holder # edit'[e].holder /\ edit'[d].add \intersect edit'[e].add = {}
        BY <1>2, <2>1, <2>2
    <2>6. \A c, d \in Editor \ {e} : Editing(c)' /\ Editing(d)' /\ c # d =>
             edit'[d].holder # edit'[c].holder /\ edit'[d].add \intersect edit'[c].add = {}
        <3>1. \A c, d \in Editor \ {e} : Editing(c) /\ Editing(d) /\ c # d =>
                 edit[d].holder # edit[c].holder /\ edit[d].add \intersect edit[c].add = {}
            BY Zenon DEF IInv, EditsHeld
        <3> QED BY <1>2, <2>2, <3>1
    <2>7. \A d \in Editor \ {e} : Editing(d)' =>
            /\ edit'[d].add \subseteq told
            /\ \A f \in edit'[d].add : row[f].status = "pending"
            /\ edit'[d].remove \subseteq content[edit'[d].holder]
            /\ Cardinality((content[edit'[d].holder] \ edit'[d].remove) \union edit'[d].add) <= MaxFiles
        <3> SUFFICES ASSUME NEW d \in Editor \ {e}, Editing(d)'
                     PROVE  /\ edit'[d].add \subseteq told
                            /\ \A f \in edit'[d].add : row[f].status = "pending"
                            /\ edit'[d].remove \subseteq content[edit'[d].holder]
                            /\ Cardinality((content[edit'[d].holder] \ edit'[d].remove) \union edit'[d].add) <= MaxFiles
            OBVIOUS
        <3>1. Editing(d) /\ edit'[d] = edit[d] BY <1>2, <2>2
        <3> QED BY <3>1, Zenon DEF IInv, EditsHeld
    <2> QED BY <2>3, <2>4, <2>5, <2>6, <2>7 DEF EditsHeld
<1>8. OneHome' /\ SetWithinLimit' BY DEF IInv, OneHome, SetWithinLimit
<1>9. QuotaKept' BY <1>3, QuotaKeptIf DEF Counted, UsedToday, InFlight
<1> QED BY <1>4, <1>5, <1>6, <1>7, <1>8, <1>9 DEF IInv

LEMMA CommitEditIInv == ASSUME NEW e \in Editor PROVE IInv /\ CommitEdit(e) => IInv'
<1> SUFFICES ASSUME IInv, CommitEdit(e) PROVE IInv' OBVIOUS
<1> DEFINE h == edit[e].holder
           add == edit[e].add
           remove == edit[e].remove
<1>1. /\ Editing(e) /\ h \in Holder /\ add \subseteq File /\ remove \subseteq File
      /\ row \in [File -> Row] /\ content \in [Holder -> SUBSET File] /\ edit \in [Editor -> Edit]
    BY DEF CommitEdit, Editing, IInv, TypeOK, Edit
<1>2. /\ add \subseteq told /\ \A f \in add : row[f].status = "pending"
      /\ remove \subseteq content[h]
      /\ Cardinality((content[h] \ remove) \union add) <= MaxFiles
      /\ \A d \in Editor \ {e} : Editing(d) => edit[d].holder # h /\ edit[d].add \intersect add = {}
    BY <1>1 DEF IInv, EditsHeld
<1>3. \A k \in Holder : \A f \in content[k] : f \in File /\ row[f].status = "attached" /\ f \notin add
    BY <1>1, <1>2 DEF IInv, OneHome
<1>4. \A f \in File : row'[f] = IF f \in add THEN [row[f] EXCEPT !.status = "attached"]
                                ELSE IF f \in remove THEN [row[f] EXCEPT !.status = "archived"] ELSE row[f]
    BY DEF CommitEdit, Archived
<1>5. row' \in [File -> Row]
    <2>1. row' = [f \in File |-> row'[f]] BY DEF CommitEdit
    <2>2. \A f \in File : row'[f] \in Row BY <1>1, <1>4 DEF Row
    <2> QED BY <2>1, <2>2
<1>6. \A f \in File : /\ f \in add => row'[f].status = "attached"
                      /\ f \in remove => row'[f].status = "archived"
                      /\ f \notin add /\ f \notin remove => row'[f] = row[f]
                      /\ row'[f].recent = row[f].recent
    BY <1>1, <1>2, <1>3, <1>4 DEF Row
<1>7. /\ content'[h] = (content[h] \ remove) \union add
      /\ \A k \in Holder \ {h} : content'[k] = content[k]
      /\ content' \in [Holder -> SUBSET File]
    BY <1>1 DEF CommitEdit
<1>8. edit'[e] = NoEdit /\ ~Editing(e)' /\ \A d \in Editor \ {e} : edit'[d] = edit[d]
    BY <1>1 DEF CommitEdit, Editing, NoEdit
<1>9. disk' = disk /\ up' = up /\ told' = told /\ sweep' = sweep /\ removing' = removing \union remove
    BY DEF CommitEdit
<1>10. \A f \in File : (Live(f)' => Live(f)) /\ (Stored(f)' <=> Stored(f)) /\ (InFlight(f)' <=> InFlight(f))
    BY <1>2, <1>6, <1>9 DEF Live, Stored, InFlight
<1>11. \A f \in remove : row[f].status = "attached" BY <1>1, <1>2, <1>3
<1>12. TypeOK'
    <2>1. made' \subseteq Holder BY <1>1 DEF CommitEdit, IInv, TypeOK
    <2>2. edit' \in [Editor -> Edit] BY NoneTyped DEF CommitEdit, IInv, TypeOK
    <2> QED BY <1>1, <1>5, <1>7, <1>9, <2>1, <2>2 DEF IInv, TypeOK
<1>13. KnownHasBytes'
    <2>1. told \subseteq File BY DEF IInv, TypeOK
    <2>2. \A f \in File : row'[f].status = "attached" => f \in told
        BY <1>2, <1>6 DEF IInv, KnownHasBytes
    <2> QED BY <1>9, <1>10, <2>1, <2>2 DEF IInv, KnownHasBytes
<1>14. RowAfterBytes'
    <2>1. \A f \in File : row'[f].status # "none" <=> row[f].status # "none" BY <1>2, <1>6, <1>11
    <2> QED BY <1>9, <1>10, <2>1 DEF IInv, RowAfterBytes
<1>15. DeletionsDecided'
    <2>1. \A f \in File : row[f].status = "archived" => row'[f].status = "archived"
        BY <1>2, <1>6, <1>11
    <2>2. removing \subseteq File /\ sweep.files \subseteq File /\ \A f \in File : up[f].expired \subseteq File
        BY DEF IInv, TypeOK, Sweep, Upload
    <2>3. \A f \in removing' : row'[f].status = "archived"
        BY <1>1, <1>6, <1>9, <2>1, <2>2 DEF IInv, DeletionsDecided
    <2>4. \A f \in File : up[f].phase = "committed" => \A g \in up[f].expired : row'[g].status = "archived"
        BY <2>1, <2>2 DEF IInv, DeletionsDecided
    <2>5. sweep.phase = "deleting" => \A g \in sweep.files : ~Live(g)'
        BY <1>10, <2>2 DEF IInv, DeletionsDecided
    <2>6. \A g \in sweep.files : up[g].phase = "over" BY DEF IInv, DeletionsDecided
    <2> QED BY <1>9, <2>3, <2>4, <2>5, <2>6 DEF DeletionsDecided
<1>16. ExpiredHeld'
    <2>1. \A f \in File : InFlight(f) => \A g \in up[f].expired :
             g \in File /\ row[g].status = "pending" /\ g \notin add
        BY <1>1 DEF IInv, TypeOK, Upload, ExpiredHeld
    <2>2. \A f \in File : InFlight(f) => \A g \in up[f].expired : row'[g].status = "pending"
        BY <1>6, <1>11, <2>1
    <2>3. \A d \in Editor : Editing(d)' => Editing(d) /\ edit'[d] = edit[d] BY <1>8 DEF Editing
    <2> QED BY <1>9, <1>10, <2>2, <2>3 DEF IInv, ExpiredHeld
<1>17. EditsHeld'
    <2>1. \A d \in Editor : Editing(d)' => d # e /\ Editing(d) /\ edit'[d] = edit[d] BY <1>8 DEF Editing
    <2>2. \A d \in Editor : Editing(d)' => edit[d].holder \in Holder /\ edit[d].holder # h
        BY <1>1, <1>2, <2>1 DEF Editing, Edit
    <2>3. \A d \in Editor : Editing(d)' => content'[edit[d].holder] = content[edit[d].holder]
        BY <1>7, <2>2
    <2>4. \A d \in Editor : Editing(d)' => \A f \in edit[d].add : row'[f].status = "pending"
        <3>1. \A d \in Editor : Editing(d)' => \A f \in edit[d].add :
                 f \in File /\ row[f].status = "pending" /\ f \notin add
            BY <1>1, <1>2, <2>1 DEF IInv, EditsHeld, Edit
        <3> QED BY <1>6, <1>11, <3>1
    <2> QED BY <1>9, <2>1, <2>3, <2>4 DEF IInv, EditsHeld
<1>18. OneHome'
    <2>1. \A k \in Holder \ {h} : \A f \in content[k] : f \notin remove
        BY <1>1, <1>2, <1>3 DEF IInv, OneHome
    <2>2. \A k \in Holder : \A f \in content'[k] : row'[f].status = "attached"
        BY <1>1, <1>3, <1>6, <1>7, <2>1
    <2>3. ASSUME NEW f \in File, row'[f].status = "attached"
          PROVE  \E k \in Holder : f \in content'[k] /\ \A g \in Holder \ {k} : f \notin content'[g]
        <3>1. CASE f \in add
            <4>1. f \in content'[h] /\ \A g \in Holder \ {h} : f \notin content'[g]
                BY <1>3, <1>7, <3>1
            <4> QED BY <1>1, <4>1
        <3>2. CASE f \notin add
            <4>1. f \notin remove /\ row[f].status = "attached" BY <1>6, <2>3, <3>2
            <4>2. PICK k \in Holder : f \in content[k] /\ \A g \in Holder \ {k} : f \notin content[g]
                BY <4>1 DEF IInv, OneHome
            <4>3. \A g \in Holder : f \in content'[g] <=> f \in content[g] BY <1>1, <1>7, <3>2, <4>1
            <4> QED BY <4>2, <4>3
        <3> QED BY <3>1, <3>2
    <2> QED BY <2>2, <2>3 DEF OneHome
<1>19. SetWithinLimit' BY <1>1, <1>2, <1>7 DEF IInv, SetWithinLimit
<1>20. QuotaKept'
    <2>1. \A p \in Person : Counted(p)' \subseteq Counted(p)
        BY <1>2, <1>6, <1>10, <1>11 DEF Counted, UsedToday
    <2> QED BY <1>10, <2>1, QuotaKeptIf
<1> QED BY <1>12, <1>13, <1>14, <1>15, <1>16, <1>17, <1>18, <1>19, <1>20 DEF IInv

LEMMA AbortEditIInv == ASSUME NEW e \in Editor PROVE IInv /\ AbortEdit(e) => IInv'
<1> SUFFICES ASSUME IInv, AbortEdit(e) PROVE IInv' OBVIOUS
<1> USE DEF IInv, AbortEdit
<1>1. \A d \in Editor : Editing(d)' => d # e /\ Editing(d) /\ edit'[d] = edit[d]
    BY DEF Editing, NoEdit, TypeOK
<1>2. TypeOK' BY NoneTyped DEF TypeOK
<1>3. KnownHasBytes' /\ RowAfterBytes' /\ DeletionsDecided'
    BY DEF KnownHasBytes, RowAfterBytes, DeletionsDecided, Live, Stored
<1>4. ExpiredHeld' BY <1>1 DEF ExpiredHeld, InFlight
<1>5. EditsHeld' BY <1>1 DEF EditsHeld
<1>6. OneHome' /\ SetWithinLimit' BY DEF OneHome, SetWithinLimit
<1>7. QuotaKept' BY QuotaKeptIf DEF Counted, UsedToday, InFlight
<1> QED BY <1>2, <1>3, <1>4, <1>5, <1>6, <1>7

-----------------------------------------------------------------------------
LEMMA RemoveStoredIInv == ASSUME NEW f \in File PROVE IInv /\ RemoveStored(f) => IInv'
<1> SUFFICES ASSUME IInv, RemoveStored(f) PROVE IInv' OBVIOUS
<1>1. row[f].status = "archived" BY DEF IInv, RemoveStored, DeletionsDecided
<1>2. /\ disk \in [File -> {"none", "temp", "fresh", "old", "beyond"}]
      /\ disk'[f] \in {"none", disk[f]} /\ \A g \in File \ {f} : disk'[g] = disk[g]
      /\ disk' \in [File -> {"none", "temp", "fresh", "old", "beyond"}]
    BY DEF IInv, TypeOK, RemoveStored, Without
<1>3. removing' \subseteq removing BY DEF RemoveStored
<1> USE DEF IInv, RemoveStored
<1>4. TypeOK' BY <1>2, <1>3 DEF TypeOK
<1>5. KnownHasBytes' BY <1>1, <1>2 DEF KnownHasBytes, Live, Stored, TypeOK
<1>6. RowAfterBytes' BY <1>1, <1>2 DEF RowAfterBytes, Live, Stored
<1>7. DeletionsDecided' BY <1>3 DEF DeletionsDecided, Live
<1>8. ExpiredHeld' /\ EditsHeld' /\ OneHome' /\ SetWithinLimit'
    BY DEF ExpiredHeld, InFlight, EditsHeld, Editing, OneHome, SetWithinLimit
<1>9. QuotaKept' BY QuotaKeptIf DEF Counted, UsedToday, InFlight
<1> QED BY <1>4, <1>5, <1>6, <1>7, <1>8, <1>9

LEMMA ExpireUploadsIInv == IInv /\ ExpireUploads => IInv'
<1> SUFFICES ASSUME IInv, ExpireUploads PROVE IInv' OBVIOUS
<1> PICK stale \in ExpireBatches : row' = Archived(stale) /\ removing' = removing \union stale
    BY DEF ExpireUploads
<1>1. \A g \in stale : g \in File /\ row[g].status = "pending" /\ ~RowLocked(g)
    BY DEF ExpireBatches, Stale
<1>2. row \in [File -> Row] BY DEF IInv, TypeOK
<1>3. \A g \in File : /\ g \in stale => row'[g].status = "archived"
                      /\ g \notin stale => row'[g] = row[g]
                      /\ row'[g].recent = row[g].recent
    BY <1>2 DEF Archived, Row
<1>4. /\ disk' = disk /\ up' = up /\ told' = told /\ made' = made /\ content' = content
      /\ edit' = edit /\ sweep' = sweep
    BY DEF ExpireUploads
<1>5. \A g \in File : (Live(g)' => Live(g)) /\ (Stored(g)' <=> Stored(g)) /\ (InFlight(g)' <=> InFlight(g))
    BY <1>3, <1>4 DEF Live, Stored, InFlight
<1> USE DEF IInv
<1>6. TypeOK'
    <2>1. row' \in [File -> Row] BY <1>1, <1>2 DEF Archived, Row
    <2> QED BY <1>1, <1>4, <2>1 DEF TypeOK
<1>7. KnownHasBytes' BY <1>1, <1>3, <1>4, <1>5 DEF KnownHasBytes, TypeOK
<1>8. RowAfterBytes'
    <2>1. \A g \in File : row'[g].status # "none" <=> row[g].status # "none" BY <1>1, <1>3
    <2> QED BY <1>4, <1>5, <2>1 DEF RowAfterBytes
<1>9. DeletionsDecided'
    <2>1. \A g \in File : row[g].status = "archived" => row'[g].status = "archived" BY <1>3
    <2>2. removing \subseteq File /\ sweep.files \subseteq File /\ \A f \in File : up[f].expired \subseteq File
        BY DEF TypeOK, Sweep, Upload
    <2>3. \A f \in removing' : row'[f].status = "archived" BY <1>1, <1>3, <2>1, <2>2 DEF DeletionsDecided
    <2>4. \A f \in File : up[f].phase = "committed" => \A g \in up[f].expired : row'[g].status = "archived"
        BY <2>1, <2>2 DEF DeletionsDecided
    <2>5. sweep.phase = "deleting" => \A g \in sweep.files : ~Live(g)' BY <1>5, <2>2 DEF DeletionsDecided
    <2>6. \A g \in sweep.files : up[g].phase = "over" BY DEF DeletionsDecided
    <2> QED BY <1>4, <2>3, <2>4, <2>5, <2>6 DEF DeletionsDecided
<1>10. ExpiredHeld'
    <2>1. \A f \in File : InFlight(f) => \A g \in up[f].expired : g \in File /\ g \notin stale
        BY <1>1 DEF RowLocked, TypeOK, Upload
    <2>2. \A f \in File : InFlight(f) => \A g \in up[f].expired : row'[g].status = "pending"
        BY <1>3, <2>1 DEF ExpiredHeld
    <2> QED BY <1>4, <1>5, <2>2 DEF ExpiredHeld, Editing
<1>11. EditsHeld'
    <2>1. \A e \in Editor : Editing(e) => \A g \in edit[e].add : g \in File /\ g \notin stale
        BY <1>1 DEF RowLocked, TypeOK, Edit
    <2>2. \A e \in Editor : Editing(e) => \A g \in edit[e].add : row'[g].status = "pending"
        <3>1. \A e \in Editor : Editing(e) => \A g \in edit[e].add : row[g].status = "pending"
            BY DEF EditsHeld
        <3> QED BY <1>3, <2>1, <3>1
    <2> QED BY <1>4, <2>2 DEF EditsHeld, Editing
<1>12. OneHome' /\ SetWithinLimit'
    <2>1. \A g \in File : row'[g].status = "attached" <=> row[g].status = "attached" BY <1>1, <1>3
    <2>2. \A h \in Holder : content[h] \subseteq File BY DEF TypeOK
    <2> QED BY <1>4, <2>1, <2>2 DEF OneHome, SetWithinLimit
<1>13. QuotaKept'
    <2>1. \A p \in Person : Counted(p)' \subseteq Counted(p) BY <1>1, <1>3, <1>5 DEF Counted, UsedToday
    <2> QED BY <1>5, <2>1, QuotaKeptIf
<1> QED BY <1>6, <1>7, <1>8, <1>9, <1>10, <1>11, <1>12, <1>13

\* A step of the sweep that deletes no bytes.
LEMMA SweepOnly ==
    ASSUME IInv, UNCHANGED <<row, disk, up, told, made, content, edit, removing>>,
           sweep' \in Sweep,
           \A g \in sweep'.files : g \in File /\ up[g].phase = "over",
           sweep'.phase = "deleting" => \A g \in sweep'.files : ~Live(g)
    PROVE  IInv'
<1> USE DEF IInv
<1>1. TypeOK' BY DEF TypeOK
<1>2. KnownHasBytes' /\ RowAfterBytes' BY DEF KnownHasBytes, RowAfterBytes, Live, Stored
<1>3. DeletionsDecided' BY DEF DeletionsDecided, Live
<1>4. ExpiredHeld' /\ EditsHeld' /\ OneHome' /\ SetWithinLimit'
    BY DEF ExpiredHeld, InFlight, EditsHeld, Editing, OneHome, SetWithinLimit
<1>5. QuotaKept' BY QuotaKeptIf DEF Counted, UsedToday, InFlight
<1> QED BY <1>1, <1>2, <1>3, <1>4, <1>5

LEMMA ListOrphansIInv == IInv /\ ListOrphans => IInv'
<1> SUFFICES ASSUME IInv, ListOrphans PROVE IInv' OBVIOUS
<1>1. IsFiniteSet({f \in File : Stored(f)}) BY FS_Subset, FileAssumption
<1>2. Cardinality({f \in File : Stored(f)}) \in Nat BY <1>1, FS_CardinalityType
<1>3. \A g \in Candidates : g \in File /\ up[g].phase = "over" BY DEF Candidates, IInv, RowAfterBytes
<1>4. sweep' = [phase |-> "listed", seen |-> Cardinality({f \in File : Stored(f)}), files |-> Candidates]
    BY DEF ListOrphans
<1>5. sweep' \in Sweep BY <1>2, <1>3, <1>4 DEF Sweep
<1>6. UNCHANGED <<row, disk, up, told, made, content, edit, removing>> BY DEF ListOrphans
<1> QED BY <1>3, <1>4, <1>5, <1>6, SweepOnly

LEMMA AskLiveIInv == IInv /\ AskLive => IInv'
<1> SUFFICES ASSUME IInv, AskLive PROVE IInv' OBVIOUS
<1> DEFINE orphans == {f \in sweep.files : ~Named(f)}
<1>1. /\ sweep \in Sweep /\ sweep.files \subseteq File /\ \A g \in sweep.files : up[g].phase = "over"
      /\ UNCHANGED <<row, disk, up, told, made, content, edit, removing>>
    BY DEF IInv, TypeOK, Sweep, DeletionsDecided, AskLive
<1>2. \A g \in orphans : ~Live(g) BY DEF Named, Live
<1>3. CASE sweep' = NoSweep BY <1>1, <1>3, NoneTyped, SweepOnly DEF NoSweep
<1>4. CASE sweep' = [sweep EXCEPT !.phase = "deleting", !.files = orphans]
    <2>1. sweep' \in Sweep /\ sweep'.files = orphans BY <1>1, <1>4 DEF Sweep
    <2> QED BY <1>1, <1>2, <2>1, SweepOnly
<1> QED BY <1>3, <1>4 DEF AskLive

LEMMA StopSweepIInv == IInv /\ StopSweep => IInv'
BY NoneTyped, SweepOnly DEF StopSweep, NoSweep

LEMMA DeleteOrphanIInv == ASSUME NEW f \in File PROVE IInv /\ DeleteOrphan(f) => IInv'
<1> SUFFICES ASSUME IInv, DeleteOrphan(f) PROVE IInv' OBVIOUS
<1>1. ~Live(f) /\ up[f].phase = "over" BY DEF IInv, DeletionsDecided, DeleteOrphan
<1>2. /\ disk \in [File -> {"none", "temp", "fresh", "old", "beyond"}]
      /\ disk'[f] = "none" /\ \A g \in File \ {f} : disk'[g] = disk[g]
      /\ disk' \in [File -> {"none", "temp", "fresh", "old", "beyond"}]
    BY DEF IInv, TypeOK, DeleteOrphan, Without
<1>3. sweep' \in Sweep /\ sweep'.files \subseteq sweep.files /\ sweep'.phase \in {"idle", "deleting"}
    BY NoneTyped DEF IInv, TypeOK, Sweep, NoSweep, DeleteOrphan
<1>4. /\ row' = row /\ up' = up /\ told' = told /\ made' = made /\ content' = content
      /\ edit' = edit /\ removing' = removing /\ sweep.phase = "deleting"
    BY DEF DeleteOrphan
<1> USE DEF IInv
<1>5. TypeOK' BY <1>2, <1>3, <1>4 DEF TypeOK
<1>6. KnownHasBytes' BY <1>1, <1>2, <1>4 DEF KnownHasBytes, Live, Stored, TypeOK
<1>7. RowAfterBytes' BY <1>1, <1>2, <1>4 DEF RowAfterBytes, Live, Stored
<1>8. DeletionsDecided' BY <1>3, <1>4 DEF DeletionsDecided, Live
<1>9. ExpiredHeld' /\ EditsHeld' /\ OneHome' /\ SetWithinLimit'
    BY <1>4 DEF ExpiredHeld, InFlight, EditsHeld, Editing, OneHome, SetWithinLimit
<1>10. QuotaKept' BY <1>4, QuotaKeptIf DEF Counted, UsedToday, InFlight
<1> QED BY <1>5, <1>6, <1>7, <1>8, <1>9, <1>10

-----------------------------------------------------------------------------
LEMMA RowAgesIInv == ASSUME NEW f \in File PROVE IInv /\ RowAges(f) => IInv'
<1> SUFFICES ASSUME IInv, RowAges(f) PROVE IInv' OBVIOUS
<1>1. /\ row \in [File -> Row] /\ row' = [row EXCEPT ![f].recent = FALSE]
      /\ row' \in [File -> Row]
    BY DEF IInv, TypeOK, RowAges, Row
<1>2. \A g \in File : row'[g].status = row[g].status /\ (row'[g].recent => row[g].recent)
    BY <1>1 DEF Row
<1>3. /\ disk' = disk /\ up' = up /\ told' = told /\ made' = made /\ content' = content
      /\ edit' = edit /\ removing' = removing /\ sweep' = sweep
    BY DEF RowAges
<1> USE DEF IInv
<1>4. TypeOK' BY <1>1, <1>3 DEF TypeOK
<1>5. KnownHasBytes' BY <1>2, <1>3 DEF KnownHasBytes, Live, Stored, TypeOK
<1>6. RowAfterBytes' BY <1>2, <1>3 DEF RowAfterBytes, Live, Stored
<1>7. DeletionsDecided'
    <2>1. removing \subseteq File /\ sweep.files \subseteq File /\ \A g \in File : up[g].expired \subseteq File
        BY DEF TypeOK, Sweep, Upload
    <2> QED BY <1>2, <1>3, <2>1 DEF DeletionsDecided, Live
<1>8. ExpiredHeld'
    <2>1. \A g \in File : up[g].expired \subseteq File BY DEF TypeOK, Upload
    <2> QED BY <1>2, <1>3, <2>1 DEF ExpiredHeld, InFlight, Editing
<1>9. EditsHeld'
    <2>1. \A e \in Editor : edit[e].add \subseteq File BY DEF TypeOK, Edit
    <2> QED BY <1>2, <1>3, <2>1 DEF EditsHeld, Editing
<1>10. OneHome' /\ SetWithinLimit'
    <2>1. \A h \in Holder : content[h] \subseteq File BY DEF TypeOK
    <2> QED BY <1>2, <1>3, <2>1 DEF OneHome, SetWithinLimit
<1>11. QuotaKept'
    <2>1. \A p \in Person : Counted(p)' \subseteq Counted(p) BY <1>2, <1>3 DEF Counted, UsedToday, InFlight
    <2> QED BY <1>3, <2>1, QuotaKeptIf DEF InFlight
<1> QED BY <1>4, <1>5, <1>6, <1>7, <1>8, <1>9, <1>10, <1>11

LEMMA BytesAgeIInv == ASSUME NEW f \in File PROVE IInv /\ (BytesAge(f) \/ YearsPass(f)) => IInv'
<1> SUFFICES ASSUME IInv, BytesAge(f) \/ YearsPass(f) PROVE IInv' OBVIOUS
<1> USE DEF IInv, BytesAge, YearsPass
<1>1. Stored(f) /\ up[f].phase = "over" BY DEF RowAfterBytes, Stored
<1>2. /\ disk'[f] \in {"old", "beyond"} /\ \A g \in File \ {f} : disk'[g] = disk[g]
      /\ disk' \in [File -> {"none", "temp", "fresh", "old", "beyond"}]
    BY DEF TypeOK
<1>3. \A g \in File : Stored(g)' <=> Stored(g) BY <1>1, <1>2 DEF Stored
<1>4. TypeOK' BY <1>2 DEF TypeOK
<1>5. KnownHasBytes' BY <1>3 DEF KnownHasBytes, Live, TypeOK
<1>6. RowAfterBytes' BY <1>1, <1>2, <1>3 DEF RowAfterBytes, Live
<1>7. DeletionsDecided' BY DEF DeletionsDecided, Live
<1>8. ExpiredHeld' /\ EditsHeld' /\ OneHome' /\ SetWithinLimit'
    BY DEF ExpiredHeld, InFlight, EditsHeld, Editing, OneHome, SetWithinLimit
<1>9. QuotaKept' BY QuotaKeptIf DEF Counted, UsedToday, InFlight
<1> QED BY <1>4, <1>5, <1>6, <1>7, <1>8, <1>9

LEMMA CrashIInv == IInv /\ Crash => IInv'
<1> SUFFICES ASSUME IInv, Crash PROVE IInv' OBVIOUS
<1>1. \A f \in File : /\ up[f].phase = "none" => up'[f] = up[f]
                      /\ up[f].phase # "none" => up'[f].phase = "over" /\ up'[f].expired = {}
    <2>1. \A f \in File : up'[f] = IF up[f].phase = "none" THEN up[f]
                                   ELSE [up[f] EXCEPT !.phase = "over", !.expired = {}]
        BY DEF Crash
    <2>2. \A f \in File : up[f] \in Upload BY DEF IInv, TypeOK
    <2> QED BY <2>1, <2>2 DEF Upload
<1>2. up' \in [File -> Upload]
    <2>1. up' = [f \in File |-> up'[f]] BY DEF Crash
    <2>2. \A f \in File : up'[f] \in Upload BY DEF Crash, IInv, TypeOK, Upload
    <2> QED BY <2>1, <2>2
<1>3. edit' = [e \in Editor |-> NoEdit] /\ \A e \in Editor : ~Editing(e)' BY DEF Crash, Editing, NoEdit
<1>4. /\ row' = row /\ disk' = disk /\ told' = told /\ made' = made /\ content' = content
      /\ removing' = {} /\ sweep' = sweep
    BY DEF Crash
<1>5. \A f \in File : ~InFlight(f)' BY <1>1 DEF InFlight
<1> USE DEF IInv
<1>6. TypeOK' BY <1>2, <1>3, <1>4, NoneTyped DEF TypeOK
<1>7. KnownHasBytes' BY <1>4 DEF KnownHasBytes, Live, Stored
<1>8. RowAfterBytes' BY <1>1, <1>4 DEF RowAfterBytes, Live, Stored
<1>9. DeletionsDecided'
    <2>1. sweep.files \subseteq File BY DEF TypeOK, Sweep
    <2> QED BY <1>1, <1>4, <2>1 DEF DeletionsDecided, Live
<1>10. ExpiredHeld' /\ EditsHeld' BY <1>3, <1>5 DEF ExpiredHeld, EditsHeld
<1>11. OneHome' /\ SetWithinLimit' BY <1>4 DEF OneHome, SetWithinLimit
<1>12. QuotaKept'
    <2>1. \A p \in Person : Counted(p)' \subseteq Counted(p) BY <1>4, <1>5 DEF Counted, UsedToday
    <2> QED BY <1>5, <2>1, QuotaKeptIf
<1> QED BY <1>6, <1>7, <1>8, <1>9, <1>10, <1>11, <1>12

LEMMA StutterIInv == IInv /\ UNCHANGED vars => IInv'
<1> SUFFICES ASSUME IInv, UNCHANGED vars PROVE IInv' OBVIOUS
<1> USE DEF IInv, vars
<1>1. sweep \in Sweep /\ sweep.files \subseteq File BY DEF TypeOK, Sweep
<1> QED BY <1>1, SweepOnly DEF DeletionsDecided

-----------------------------------------------------------------------------
LEMMA NextIInv == IInv /\ [Next]_vars => IInv'
<1> SUFFICES ASSUME IInv, [Next]_vars PROVE IInv' OBVIOUS
<1>1. ASSUME NEW f \in File, Uploading(f) PROVE IInv'
    BY <1>1, ReceiveIInv, RecordIInv, PublishIInv, CommitUploadIInv, FailUploadIInv, EndUploadIInv
       DEF Uploading
<1>2. ASSUME NEW f \in File, RemoveStored(f) PROVE IInv' BY <1>2, RemoveStoredIInv
<1>3. ASSUME NEW f \in File, RowAges(f) PROVE IInv' BY <1>3, RowAgesIInv
<1>4. ASSUME NEW f \in File, BytesAge(f) \/ YearsPass(f) PROVE IInv' BY <1>4, BytesAgeIInv
<1>5. ASSUME NEW e \in Editor, Attaching(e) PROVE IInv'
    BY <1>5, BeginEditIInv, CommitEditIInv, AbortEditIInv DEF Attaching
<1>6. CASE ExpireUploads BY <1>6, ExpireUploadsIInv
<1>7. CASE Sweeping
    BY <1>7, ListOrphansIInv, AskLiveIInv, StopSweepIInv, DeleteOrphanIInv DEF Sweeping
<1>8. CASE Crash BY <1>8, CrashIInv
<1>9. CASE UNCHANGED vars BY <1>9, StutterIInv
<1> QED BY <1>1, <1>2, <1>3, <1>4, <1>5, <1>6, <1>7, <1>8, <1>9 DEF Next

\* The strengthening holds in every reachable state.
THEOREM Invariance == Spec => []IInv
<1> QED BY InitIInv, NextIInv, PTL DEF Spec

\* Every variable keeps its type: what the requests and the jobs do to the
\* rows and the disk stays within the statuses the table knows.
THEOREM TypeCorrect == Spec => []TypeOK
<1>1. IInv => TypeOK BY DEF IInv
<1> QED BY Invariance, <1>1, PTL

\* A file a page can name and that is not archived has its bytes.
THEOREM KnownFilesHaveBytes == Spec => []KnownHasBytes
<1>1. IInv => KnownHasBytes BY DEF IInv
<1> QED BY Invariance, <1>1, PTL

\* An attached file belongs to exactly one item or answer.
THEOREM AttachedOnce == Spec => []OneHome
<1>1. IInv => OneHome BY DEF IInv
<1> QED BY Invariance, <1>1, PTL

\* No sequence of edits puts more files on one holder than the set allows.
THEOREM SetsWithinLimit == Spec => []SetWithinLimit
<1>1. IInv => SetWithinLimit BY DEF IInv
<1> QED BY Invariance, <1>1, PTL

\* Parallel uploads never exceed a person's daily quota.
THEOREM QuotaNeverExceeded == Spec => []QuotaHolds
<1>1. IInv => QuotaHolds
    <2> SUFFICES ASSUME IInv, NEW p \in Person PROVE Cardinality(UsedToday(p)) <= DailyFiles
        BY DEF QuotaHolds
    <2>1. UsedToday(p) \subseteq Counted(p) /\ Counted(p) \subseteq File BY DEF Counted, UsedToday
    <2> QED BY <2>1, CountedLess DEF IInv, QuotaKept
<1> QED BY Invariance, <1>1, PTL
=============================================================================
