-------------------------------- MODULE Files --------------------------------
(***************************************************************************)
(* Uploaded files: a row of files.file_object and bytes under FILES_DIR,   *)
(* which no transaction covers together.  POST /api/files receives the     *)
(* bytes into a temp file, records a `pending` row and renames the file    *)
(* into place just before the commit (src/src/app/api/files/route.ts,      *)
(* modules/workspace/file-access.ts); a form attaches the upload or takes  *)
(* an attached file out (work-item-files.ts, submissions.ts); uploads      *)
(* nobody attached expire, and bytes no live row names are swept           *)
(* (modules/files/expire.ts, sweep.ts).  The web process may die at any    *)
(* step; a commit may succeed without the process hearing of it; deleting  *)
(* bytes is best effort.                                                   *)
(*                                                                         *)
(* A file is one upload attempt, for its id and key are made fresh.  A     *)
(* holder is what files are attached to: the giver's set of one item or    *)
(* one student's answer, guarded by the item's row lock.  "Old" is more    *)
(* than 24 hours, of a row since it was created and of bytes since they    *)
(* were written; no request or transaction lasts that long.  Bytes are     *)
(* "beyond" once the sweep no longer reads the directory of their year.    *)
(***************************************************************************)
EXTENDS Naturals, FiniteSets

CONSTANTS
    File,         \* upload attempts
    Person,       \* who uploads
    Uploader,     \* the person of each attempt
    Holder,       \* sets files are attached to
    Editor,       \* requests that change a holder's files
    DailyFiles,   \* files a person may upload in 24 hours
    MaxFiles,     \* files of one holder
    ExpireLimit,  \* rows one expire call takes
    BrakeMin,     \* a sweep that saw this many files may be braked
    NewHolder,    \* the target of an upload for an item not created yet
    NoHolder      \* no holder

ASSUME FileAssumption == IsFiniteSet(File) /\ Uploader \in [File -> Person]
ASSUME LimitAssumption == DailyFiles \in Nat /\ MaxFiles \in Nat /\ ExpireLimit \in Nat /\ BrakeMin \in Nat
ASSUME HolderAssumption == NewHolder \notin Holder /\ NoHolder \notin Holder

Target == Holder \union {NewHolder}

VARIABLES
    row,       \* the rows of files.file_object
    disk,      \* the bytes of each file
    up,        \* the upload request of each file
    told,      \* the files whose id the uploader's page was given
    made,      \* holders that exist
    content,   \* the live attachments of each holder
    edit,      \* what each editing request has locked and wants to write
    removing,  \* files whose bytes a request deletes after its commit
    sweep      \* the orphan sweep

vars == <<row, disk, up, told, made, content, edit, removing, sweep>>

Row ==
    [status : {"none", "pending", "attached", "archived"}, recent : BOOLEAN, for : Target \union {NoHolder}]
Upload ==
    [phase : {"none", "received", "open", "placed", "committed", "failed", "over"},
     for : Target \union {NoHolder}, expired : SUBSET File]
Edit == [holder : Holder \union {NoHolder}, add : SUBSET File, remove : SUBSET File]
Sweep == [phase : {"idle", "listed", "deleting"}, seen : Nat, files : SUBSET File]

NoRow == [status |-> "none", recent |-> FALSE, for |-> NoHolder]
NoEdit == [holder |-> NoHolder, add |-> {}, remove |-> {}]
NoSweep == [phase |-> "idle", seen |-> 0, files |-> {}]

-----------------------------------------------------------------------------
(* Reads.                                                                  *)

Live(f) == row[f].status \in {"pending", "attached"}
Stored(f) == disk[f] \in {"fresh", "old", "beyond"}

\* An upload whose transaction is open.
InFlight(f) == up[f].phase \in {"open", "placed"}

Editing(e) == edit[e].holder # NoHolder

\* (mutant of RowLocked: the pending row is read without FOR UPDATE)
RowLocked_never(f) == FALSE

\* Row locks on a file: an upload that expires it, an edit that takes it.
RowLocked(f) ==
    \/ \E g \in File : InFlight(g) /\ f \in up[g].expired
    \/ \E e \in Editor : Editing(e) /\ f \in edit[e].add \union content[edit[e].holder]

\* (mutant of HolderLocked: the item's row is not locked)
HolderLocked_never(h) == FALSE

HolderLocked(h) == \E e \in Editor : edit[e].holder = h

\* What usedToday counts: every row of the last 24 hours, whatever became of it.
UsedToday(p) == {f \in File : Uploader[f] = p /\ row[f].status # "none" /\ row[f].recent}
WithinDailyQuota(p) == Cardinality(UsedToday(p)) + 1 <= DailyFiles

\* (mutant of UploadLocked: no advisory lock)
UploadLocked_never(p) == FALSE

\* pg_advisory_xact_lock('files.upload:' || person).
UploadLocked(p) == \E f \in File : Uploader[f] = p /\ InFlight(f)

\* The rows app.expire_stale_uploads archives: pending for a day, not locked
\* by anyone (SKIP LOCKED), at most the limit.
Stale == {f \in File : row[f].status = "pending" /\ ~row[f].recent /\ ~RowLocked(f)}
ExpireBatches ==
    LET n == IF Cardinality(Stale) < ExpireLimit THEN Cardinality(Stale) ELSE ExpireLimit
    IN  {S \in SUBSET Stale : Cardinality(S) = n}

Archived(files) == [f \in File |-> IF f \in files THEN [row[f] EXCEPT !.status = "archived"] ELSE row[f]]

-----------------------------------------------------------------------------
(* The upload request.                                                     *)

\* authorizeUpload before a byte is read, then the body in a temp file.
Receive(f) ==
    /\ up[f].phase = "none"
    /\ WithinDailyQuota(Uploader[f])
    /\ \E h \in made \union {NewHolder} :
         up' = [up EXCEPT ![f] = [phase |-> "received", for |-> h, expired |-> {}]]
    /\ disk' = [disk EXCEPT ![f] = "temp"]
    /\ UNCHANGED <<row, told, made, content, edit, removing, sweep>>

\* recordUpload up to the rename: the person's lock, the quota again, the row,
\* the stale uploads.
Record(f) ==
    /\ up[f].phase = "received"
    /\ ~UploadLocked(Uploader[f])
    /\ WithinDailyQuota(Uploader[f])
    /\ \E stale \in ExpireBatches : up' = [up EXCEPT ![f].phase = "open", ![f].expired = stale]
    /\ UNCHANGED <<row, disk, told, made, content, edit, removing, sweep>>

\* publishTemp.
Publish(f) ==
    /\ up[f].phase = "open"
    /\ up' = [up EXCEPT ![f].phase = "placed"]
    /\ disk' = [disk EXCEPT ![f] = "fresh"]
    /\ UNCHANGED <<row, told, made, content, edit, removing, sweep>>

\* The commit; the process may not hear of it.
CommitUpload(f) ==
    /\ up[f].phase = "placed"
    /\ row' = [Archived(up[f].expired) EXCEPT
                 ![f] = [status |-> "pending", recent |-> TRUE, for |-> up[f].for]]
    /\ \E phase \in {"committed", "failed"} : up' = [up EXCEPT ![f].phase = phase]
    /\ UNCHANGED <<disk, told, made, content, edit, removing, sweep>>

\* Refused, or rolled back: quota, a body refused, a failed rename or commit.
FailUpload(f) ==
    /\ up[f].phase \in {"received", "open", "placed"}
    /\ up' = [up EXCEPT ![f].phase = "failed"]
    /\ UNCHANGED <<row, disk, told, made, content, edit, removing, sweep>>

\* A page learns the id from the 201 of a commit that was heard of - if the
\* answer still reaches it.
Told(f) == IF up[f].phase = "committed" THEN told \union {f} ELSE told

\* Bytes a best-effort deletion of some files leaves behind.
Without(files) == [f \in File |-> IF f \in files THEN "none" ELSE disk[f]]

LeftoverTemp == {f \in File : disk[f] = "temp" /\ up[f].phase = "over"}

\* The end of the request: after a commit the expired uploads' bytes and old
\* temp files go, after a failure the temp file and the planned key.
EndUpload(f) ==
    /\ up[f].phase \in {"committed", "failed"}
    /\ LET mine == IF up[f].phase = "committed" THEN up[f].expired \union LeftoverTemp ELSE {f}
       IN  \E gone \in SUBSET mine : disk' = Without(gone)
    /\ told' \in {told, Told(f)}
    /\ up' = [up EXCEPT ![f].phase = "over", ![f].expired = {}]
    /\ UNCHANGED <<row, made, content, edit, removing, sweep>>

-----------------------------------------------------------------------------
(* A form attaches uploads to a holder and takes files out.                *)

\* takePendingUploads: the caller's own pending uploads made for this target.
Takable(f, p, for) == row[f].status = "pending" /\ row[f].for = for /\ Uploader[f] = p

\* The holder's lock, its live attachments and the uploads FOR UPDATE, every
\* id what it should be, the bound of the set.  A new holder has no files to
\* take out and its lock is its own insert.
BeginEdit(e) ==
    \E h \in Holder, p \in Person :
    \E add \in SUBSET {f \in told : Takable(f, p, IF h \in made THEN h ELSE NewHolder)},
       remove \in SUBSET content[h] :
        /\ ~Editing(e) /\ ~HolderLocked(h)
        /\ add \union remove # {} \/ h \notin made
        /\ \A f \in add \union content[h] : ~RowLocked(f)
        /\ Cardinality((content[h] \ remove) \union add) <= MaxFiles
        /\ edit' = [edit EXCEPT ![e] = [holder |-> h, add |-> add, remove |-> remove]]
        /\ UNCHANGED <<row, disk, up, told, made, content, removing, sweep>>

\* attachUploads, archiveAttachments, and the keys of the files taken out left
\* for after the commit.
CommitEdit(e) ==
    LET h == edit[e].holder IN
    /\ Editing(e)
    /\ made' = made \union {h}
    /\ content' = [content EXCEPT ![h] = (@ \ edit[e].remove) \union edit[e].add]
    /\ row' = [f \in File |-> IF f \in edit[e].add THEN [row[f] EXCEPT !.status = "attached"]
                              ELSE Archived(edit[e].remove)[f]]
    /\ removing' = removing \union edit[e].remove
    /\ edit' = [edit EXCEPT ![e] = NoEdit]
    /\ UNCHANGED <<disk, up, told, sweep>>

AbortEdit(e) ==
    /\ Editing(e)
    /\ edit' = [edit EXCEPT ![e] = NoEdit]
    /\ UNCHANGED <<row, disk, up, told, made, content, removing, sweep>>

\* removeStored after a commit: done, failed, or never come to.
RemoveStored(f) ==
    /\ f \in removing
    /\ removing' = removing \ {f}
    /\ \E gone \in SUBSET {f} : disk' = Without(gone)
    /\ UNCHANGED <<row, up, told, made, content, edit, sweep>>

-----------------------------------------------------------------------------
(* The worker's hourly jobs.                                               *)

\* files.expire_uploads; its bytes go after the commit.
ExpireUploads ==
    /\ Stale # {}
    /\ \E stale \in ExpireBatches :
         /\ row' = Archived(stale)
         /\ removing' = removing \union stale
    /\ UNCHANGED <<disk, up, told, made, content, edit, sweep>>

\* (mutant of Candidates: bytes of any age)
Candidates_anyAge == {f \in File : Stored(f)}

\* listCandidates: this year's and last year's directories, and of those the
\* bytes last written more than 24 hours ago.
Candidates == {f \in File : disk[f] = "old"}

\* The directory is read first ...
ListOrphans ==
    /\ sweep.phase = "idle" /\ Candidates # {}
    /\ sweep' = [phase |-> "listed", seen |-> Cardinality({f \in File : Stored(f)}), files |-> Candidates]
    /\ UNCHANGED <<row, disk, up, told, made, content, edit, removing>>

\* (mutant of Named: every row, archived ones too)
Named_anyRow(f) == row[f].status # "none"

\* app.live_file_ids: a row that is not archived.
Named(f) == row[f].status \notin {"none", "archived"}

\* sweepBraked: most of what a run saw would go.
Braked(seen, orphans) == seen >= BrakeMin /\ 2 * Cardinality(orphans) > seen

\* ... and the database asked afterwards.
AskLive ==
    /\ sweep.phase = "listed"
    /\ LET orphans == {f \in sweep.files : ~Named(f)} IN
       sweep' = IF Braked(sweep.seen, orphans) \/ orphans = {} THEN NoSweep
                ELSE [sweep EXCEPT !.phase = "deleting", !.files = orphans]
    /\ UNCHANGED <<row, disk, up, told, made, content, edit, removing>>

\* The lookup fails, or the worker dies: nothing (more) is deleted.
StopSweep ==
    /\ sweep.phase # "idle"
    /\ sweep' = NoSweep
    /\ UNCHANGED <<row, disk, up, told, made, content, edit, removing>>

DeleteOrphan(f) ==
    /\ sweep.phase = "deleting" /\ f \in sweep.files
    /\ disk' = Without({f})
    /\ sweep' = IF sweep.files = {f} THEN NoSweep ELSE [sweep EXCEPT !.files = @ \ {f}]
    /\ UNCHANGED <<row, up, told, made, content, edit, removing>>

-----------------------------------------------------------------------------
(* Time, and the web process.                                              *)

\* The bytes were written before the row was.
RowAges(f) ==
    /\ row[f].recent /\ up[f].phase = "over" /\ disk[f] # "fresh"
    /\ row' = [row EXCEPT ![f].recent = FALSE]
    /\ UNCHANGED <<disk, up, told, made, content, edit, removing, sweep>>

BytesAge(f) ==
    /\ disk[f] = "fresh" /\ up[f].phase = "over"
    /\ disk' = [disk EXCEPT ![f] = "old"]
    /\ UNCHANGED <<row, up, told, made, content, edit, removing, sweep>>

\* Only a file in use sees its year pass: the sweep runs every hour.
YearsPass(f) ==
    /\ disk[f] = "old" /\ row[f].status = "attached"
    /\ disk' = [disk EXCEPT ![f] = "beyond"]
    /\ UNCHANGED <<row, up, told, made, content, edit, removing, sweep>>

\* Every request of the process ends where it is; its transactions roll back.
Crash ==
    /\ \E f \in File : up[f].phase \notin {"none", "over"}
    /\ up' = [f \in File |-> IF up[f].phase = "none" THEN up[f]
                             ELSE [up[f] EXCEPT !.phase = "over", !.expired = {}]]
    /\ edit' = [e \in Editor |-> NoEdit]
    /\ removing' = {}
    /\ UNCHANGED <<row, disk, told, made, content, sweep>>

-----------------------------------------------------------------------------
Init ==
    /\ row = [f \in File |-> NoRow]
    /\ disk = [f \in File |-> "none"]
    /\ up = [f \in File |-> [phase |-> "none", for |-> NoHolder, expired |-> {}]]
    /\ told = {}
    /\ made = {}
    /\ content = [h \in Holder |-> {}]
    /\ edit = [e \in Editor |-> NoEdit]
    /\ removing = {}
    /\ sweep = NoSweep

Uploading(f) == Receive(f) \/ Record(f) \/ Publish(f) \/ CommitUpload(f) \/ FailUpload(f) \/ EndUpload(f)
Attaching(e) == BeginEdit(e) \/ CommitEdit(e) \/ AbortEdit(e)
Sweeping == ListOrphans \/ AskLive \/ StopSweep \/ \E f \in File : DeleteOrphan(f)

Next ==
    \/ \E f \in File : Uploading(f) \/ RemoveStored(f) \/ RowAges(f) \/ BytesAge(f) \/ YearsPass(f)
    \/ \E e \in Editor : Attaching(e)
    \/ ExpireUploads
    \/ Sweeping
    \/ Crash

Spec == Init /\ [][Next]_vars

\* Requests end (the pace rule and the statement timeouts see to it), time
\* passes, the two jobs run every hour, and a sweep that is retried for ever
\* succeeds some time.
FairSpec ==
    /\ Spec
    /\ \A f \in File : /\ WF_vars(Record(f) \/ Publish(f) \/ CommitUpload(f) \/ FailUpload(f) \/ EndUpload(f))
                       /\ WF_vars(RowAges(f)) /\ WF_vars(BytesAge(f))
                       /\ SF_vars(DeleteOrphan(f))
    /\ \A e \in Editor : WF_vars(CommitEdit(e) \/ AbortEdit(e))
    /\ SF_vars(ExpireUploads)
    /\ WF_vars(ListOrphans) /\ SF_vars(AskLive)

-----------------------------------------------------------------------------
(* Properties.                                                             *)

TypeOK ==
    /\ row \in [File -> Row]
    /\ disk \in [File -> {"none", "temp", "fresh", "old", "beyond"}]
    /\ up \in [File -> Upload]
    /\ told \subseteq File
    /\ made \subseteq Holder
    /\ content \in [Holder -> SUBSET File]
    /\ edit \in [Editor -> Edit]
    /\ removing \subseteq File
    /\ sweep \in Sweep

\* A live row whose id a page was given has its bytes ("a row without bytes is
\* a fault", files/storage.ts) - though a crash, an unheard commit, an expiry,
\* a removal and the sweep each delete bytes outside any transaction - and
\* only such a file is ever attached.
KnownHasBytes ==
    /\ \A f \in told : Live(f) => Stored(f)
    /\ \A f \in File : row[f].status = "attached" => f \in told

\* An attached file has one home: two forms that send the same upload, an
\* expiry and a removal never make it belong to two holders or to none.
OneHome ==
    /\ \A h \in Holder : \A f \in content[h] : row[f].status = "attached"
    /\ \A f \in File : row[f].status = "attached" =>
         \E h \in Holder : f \in content[h] /\ \A g \in Holder \ {h} : f \notin content[g]

\* At most so many files of one holder, also when two edits add at once.
SetWithinLimit == \A h \in Holder : Cardinality(content[h]) <= MaxFiles

\* "Two parallel uploads cannot both slip under" the day's quota.
QuotaHolds == \A p \in Person : Cardinality(UsedToday(p)) <= DailyFiles

\* Bytes never stay for ever without an attachment: what a crash, a lost
\* answer or a failed deletion leaves behind expires and is swept - unless the
\* file was attached so long that the sweep no longer looks at its year.
NoBytesForEver ==
    \A f \in File : Stored(f) ~> (row[f].status = "attached" \/ disk[f] \in {"none", "beyond"})
=============================================================================
