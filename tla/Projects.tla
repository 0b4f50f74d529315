------------------------------ MODULE Projects ------------------------------
(***************************************************************************)
(* One project, its uploaded files and its way to the trash and out of it:  *)
(* the rows in the database, the objects in storage, and the tasks and       *)
(* requests that touch them in different transactions.                       *)
(*                                                                         *)
(* A request loads rows without a lock, may look into the storage, and       *)
(* commits what it decided; the loaded copy can be old by then.  An UPDATE    *)
(* or DELETE of a row that is gone fails, and so does the DELETE of the row    *)
(* a project's canonical_model_asset_id refers to.  An asset stands for its   *)
(* row and for its object.  Names, types and sizes are left out; what a       *)
(* request is refused for - a locked project, the quota, a file that is not   *)
(* what it claims - is Refuse.                                               *)
(***************************************************************************)
EXTENDS Naturals

CONSTANTS
    Requests,       \* requests and tasks in flight
    Models,         \* assets of type source_model
    Thumbnails,     \* assets of type thumbnail
    RestoreDays,    \* PROJECT_RESTORE_DAYS
    None

\* What the constants must be.
ProjectsAssumption ==
    /\ RestoreDays \in Nat \ {0}
    /\ None \notin Requests \cup Models \cup Thumbnails
    /\ Models \cap Thumbnails = {}     \* an asset has one type

Assets == Models \cup Thumbnails

VARIABLES
    life,       \* "live", "trash" (deleted_at is set) or "gone"
    trashed,    \* for how many days
    status,     \* of each asset row: "none" before it exists, "gone" after it
    canonical,  \* canonical_model_asset_id
    thumbnail,  \* thumbnail_path: the asset whose object it is
    old,        \* assets registered more than an hour ago, past their upload URL
    store,      \* the objects in storage
    doomed,     \* deletions of objects queued or under way
    due,        \* cleanup tasks: days until each runs
    seedLost,   \* the demo model, when its upload failed
    atRisk,     \* history: assets in use again after their deletion was decided
    req         \* what each request does

vars == <<life, trashed, status, canonical, thumbnail, old, store, doomed, due,
          seedLost, atRisk, req>>

project == <<life, trashed, canonical, thumbnail>>
files == <<status, old, store, doomed, atRisk>>

------------------------------------------------------------------------------

Rows == {a \in Assets : status[a] \in {"uploading", "raw", "ready"}}

\* list_project_file_paths: the rows' objects, and the thumbnail's.
FilePaths == Rows \cup ({thumbnail} \ {None})

Idle == [op |-> "idle"]

\* An empty project, or the demo project with its model, uploaded or not.
Init ==
    /\ life = "live" /\ trashed = 0 /\ thumbnail = None
    /\ canonical \in Models \cup {None}
    /\ status = [a \in Assets |-> IF a = canonical THEN "ready" ELSE "none"]
    /\ store \in SUBSET ({canonical} \ {None})
    /\ seedLost = ({canonical} \ {None}) \ store
    /\ old = {} /\ doomed = {} /\ due = {} /\ atRisk = {}
    /\ req = [r \in Requests |-> Idle]

Begin(r, what) == req[r] = Idle /\ req' = [req EXCEPT ![r] = what]
End(r) == req' = [req EXCEPT ![r] = Idle]

\* Deletions are queued after the commit; a crash in between loses them.
Queue(objects) == doomed' = doomed \cup objects \/ doomed' = doomed

\* A check fails, or a row is not as the statement needs it: nothing is written.
Refuse(r) ==
    /\ req[r] # Idle
    /\ End(r)
    /\ UNCHANGED <<project, files, due, seedLost>>

------------------------------------------------------------------------------
(* Uploads.                                                                  *)

CreateUploadUrl(a) ==
    /\ life = "live"
    /\ status[a] = "none"
    /\ status' = [status EXCEPT ![a] = "uploading"]
    /\ UNCHANGED <<project, old, store, doomed, atRisk, due, seedLost, req>>

\* A scan whose asset is gone registers it again, with the same id and the same object; the
\* deletion of that object may still be waiting, and a confirmation may still hold the row.
CreateOutputUpload(a) ==
    /\ life = "live"
    /\ a \in Models \ seedLost /\ status[a] = "gone"
    /\ status' = [status EXCEPT ![a] = "uploading"]
    /\ old' = old \ {a}
    /\ atRisk' = IF a \in doomed \/ \E r \in Requests : req[r].op = "confirm" /\ req[r].asset = a
                 THEN atRisk \cup {a} ELSE atRisk
    /\ UNCHANGED <<project, store, doomed, due, seedLost, req>>

\* The client uses the upload URL, also after the row is gone.
Put(a) ==
    /\ status[a] # "none" /\ a \notin old \cup seedLost
    /\ store' = store \cup {a}
    /\ UNCHANGED <<project, status, old, doomed, atRisk, due, seedLost, req>>

Age(a) ==
    /\ status[a] # "none" /\ a \notin old
    /\ old' = old \cup {a}
    /\ UNCHANGED <<project, status, store, doomed, atRisk, due, seedLost, req>>

ConfirmLoad(r, a) ==
    /\ life = "live"
    /\ status[a] = "uploading"
    /\ Begin(r, [op |-> "confirm", asset |-> a, stored |-> FALSE])
    /\ UNCHANGED <<project, files, due, seedLost>>

ConfirmTrusting(r) ==
    /\ req[r].op = "confirm"
    /\ req' = [req EXCEPT ![r].stored = TRUE]
    /\ UNCHANGED <<project, files, due, seedLost>>

ConfirmCheck(r) ==
    /\ req[r].op = "confirm"
    /\ req[r].asset \in store
    /\ req' = [req EXCEPT ![r].stored = TRUE]
    /\ UNCHANGED <<project, files, due, seedLost>>

\* A model becomes canonical, and is raw when it is the output of a scan; a thumbnail
\* replaces all others, confirmed or not.
ConfirmWrite(r) ==
    /\ req[r].op = "confirm" /\ req[r].stored
    /\ req[r].asset \in Rows
    /\ LET a == req[r].asset
           stale == IF a \in Thumbnails THEN (Rows \cap Thumbnails) \ {a} ELSE {}
       IN  /\ \E target \in IF a \in Models THEN {"raw", "ready"} ELSE {"ready"} :
                 status' = [b \in Assets |-> IF b = a THEN target
                                            ELSE IF b \in stale THEN "gone" ELSE status[b]]
           /\ canonical' = IF a \in Models THEN a ELSE canonical
           /\ thumbnail' = IF a \in Thumbnails THEN a ELSE thumbnail
           /\ Queue(stale)
    /\ End(r)
    /\ UNCHANGED <<life, trashed, old, store, atRisk, due, seedLost>>

DeleteLoad(r, a) ==
    /\ life = "live"
    /\ a \in Rows
    /\ Begin(r, [op |-> "delete", asset |-> a, isCanonical |-> canonical = a])
    /\ UNCHANGED <<project, files, due, seedLost>>

\* The project forgets its model if that was the asset when it was loaded.
DeleteWrite(r) ==
    /\ req[r].op = "delete"
    /\ req[r].asset \in Rows
    /\ canonical' = IF req[r].isCanonical THEN None ELSE canonical
    /\ canonical' # req[r].asset
    /\ status' = [status EXCEPT ![req[r].asset] = "gone"]
    /\ Queue({req[r].asset})
    /\ End(r)
    /\ UNCHANGED <<life, trashed, thumbnail, old, store, atRisk, due, seedLost>>

\* A completed prepare job: its output is copied, then registered as the model.
CompletePrepare(a) ==
    /\ life = "live"
    /\ a \in Models /\ status[a] = "none"
    /\ status' = [status EXCEPT ![a] = "ready"]
    /\ store' = store \cup {a}
    /\ old' = old \cup {a}
    /\ canonical' = a
    /\ UNCHANGED <<life, trashed, thumbnail, doomed, atRisk, due, seedLost, req>>

Stale == {a \in Assets : status[a] = "uploading" /\ a \in old}

\* The hourly sweep selects the uploads nobody confirmed; it deletes their rows by id.
SweepLoad(r) ==
    /\ Stale # {}
    /\ Begin(r, [op |-> "sweep", assets |-> Stale])
    /\ UNCHANGED <<project, files, due, seedLost>>

SweepWrite(r) ==
    /\ req[r].op = "sweep"
    /\ canonical \notin req[r].assets
    /\ status' = [a \in Assets |-> IF a \in req[r].assets THEN "gone" ELSE status[a]]
    /\ Queue(req[r].assets)
    /\ End(r)
    /\ UNCHANGED <<project, old, store, atRisk, due, seedLost>>

\* Storage deletes an object, if it is there.
DeleteObject(a) ==
    /\ a \in doomed
    /\ store' = store \ {a}
    /\ doomed' = doomed \ {a}
    /\ UNCHANGED <<project, status, old, atRisk, due, seedLost, req>>

------------------------------------------------------------------------------
(* The trash.                                                                *)

\* The cleanup of the files is scheduled for the end of the restore window.
DeleteProject ==
    /\ life = "live"
    /\ life' = "trash" /\ trashed' = 0
    /\ due' = due \cup {RestoreDays}
    /\ UNCHANGED <<canonical, thumbnail, files, seedLost, req>>

\* Days pass under requests too, so one may have read what is no longer so.
DayPasses ==
    /\ life = "trash" \/ due # {}
    /\ trashed' = IF life = "trash" /\ trashed < RestoreDays THEN trashed + 1 ELSE trashed
    /\ due' = {IF n = 0 THEN 0 ELSE n - 1 : n \in due}
    /\ trashed' # trashed \/ due' # due
    /\ old' = {a \in Assets : status[a] # "none"}
    /\ UNCHANGED <<life, canonical, thumbnail, status, store, doomed, atRisk, seedLost, req>>

RestoreLoad(r) ==
    /\ life = "trash" /\ trashed < RestoreDays
    /\ Begin(r, [op |-> "restore"])
    /\ UNCHANGED <<project, files, due, seedLost>>

\* The window is not looked at again.
RestoreWrite(r) ==
    /\ req[r].op = "restore"
    /\ life # "gone"
    /\ life' = "live" /\ trashed' = 0
    /\ End(r)
    /\ UNCHANGED <<canonical, thumbnail, files, due, seedLost>>

\* The owner deletes for good what is in the trash; the daily purge what expired there.
PurgeLoad(r) ==
    /\ life = "trash"
    /\ Begin(r, [op |-> "purge", paths |-> FilePaths])
    /\ UNCHANGED <<project, files, due, seedLost>>

PurgeWrite(r) ==
    /\ req[r].op = "purge"
    /\ life # "gone"
    /\ life' = "gone" /\ trashed' = 0
    /\ canonical' = None /\ thumbnail' = None
    /\ status' = [a \in Assets |-> IF a \in Rows THEN "gone" ELSE status[a]]
    /\ Queue(req[r].paths)
    /\ End(r)
    /\ UNCHANGED <<old, store, atRisk, due, seedLost>>

\* A scheduled cleanup, delivered once or more, finds the project still in the trash after
\* the window; or it finds it restored, and does nothing.
CleanupLoad(r) ==
    /\ 0 \in due
    /\ due' \in {due, due \ {0}}
    /\ life = "trash" /\ trashed >= RestoreDays
    /\ Begin(r, [op |-> "cleanup"])
    /\ UNCHANGED <<project, files, seedLost>>

CleanupSkipped ==
    /\ 0 \in due
    /\ ~(life = "trash" /\ trashed >= RestoreDays)
    /\ due' = due \ {0}
    /\ UNCHANGED <<project, files, seedLost, req>>

\* It lists the files and deletes them.  The rows stay: a restore that began within the
\* window finds them when it commits, or has committed by now.
CleanupFiles(r) ==
    /\ req[r].op = "cleanup"
    /\ doomed' = doomed \cup FilePaths
    /\ atRisk' = atRisk \cup FilePaths
    /\ End(r)
    /\ UNCHANGED <<project, status, old, store, due, seedLost>>

Next ==
    \/ \E a \in Assets :
          \/ CreateUploadUrl(a) \/ CreateOutputUpload(a) \/ Put(a) \/ Age(a)
          \/ CompletePrepare(a) \/ DeleteObject(a)
    \/ \E r \in Requests :
          \/ Refuse(r)
          \/ \E a \in Assets : ConfirmLoad(r, a) \/ DeleteLoad(r, a)
          \/ ConfirmCheck(r) \/ ConfirmWrite(r) \/ DeleteWrite(r)
          \/ SweepLoad(r) \/ SweepWrite(r)
          \/ RestoreLoad(r) \/ RestoreWrite(r) \/ PurgeLoad(r) \/ PurgeWrite(r)
          \/ CleanupLoad(r) \/ CleanupFiles(r)
    \/ DeleteProject \/ DayPasses \/ CleanupSkipped

Spec == Init /\ [][Next]_vars

------------------------------------------------------------------------------

TypeOK ==
    /\ life \in {"live", "trash", "gone"} /\ trashed \in 0..RestoreDays
    /\ status \in [Assets -> {"none", "uploading", "raw", "ready", "gone"}]
    /\ canonical \in Models \cup {None} /\ thumbnail \in Thumbnails \cup {None}
    /\ store \cup old \cup doomed \cup seedLost \cup atRisk \subseteq Assets
    /\ due \subseteq 0..RestoreDays

\* The model a live project opens with is a confirmed asset, raw or ready, whose object is in
\* storage and which nothing is about to delete - except a demo model that was never uploaded,
\* an asset that a cleanup listed before a restore that began in time committed, and a scan
\* registered again before its deletion was over.
CanonicalStored ==
    life = "live" /\ canonical # None =>
        /\ status[canonical] \in {"raw", "ready"}
        /\ canonical \notin atRisk =>
              canonical \in store \cup seedLost /\ canonical \notin doomed

------------------------------------------------------------------------------
(* Why it holds.                                                             *)

\* What a request holds: assets that have been registered; the one that a confirmation saw
\* in storage is still there if its row is.
RequestOK(q) ==
    \/ q = Idle
    \/ /\ q \in [op: {"confirm"}, asset: Assets, stored: BOOLEAN]
       /\ status[q.asset] # "none"
       /\ q.stored /\ q.asset \in Rows \ atRisk => q.asset \in store
    \/ /\ q \in [op: {"delete"}, asset: Assets, isCanonical: BOOLEAN]
       /\ status[q.asset] # "none"
    \/ /\ q \in [op: {"sweep"}, assets: SUBSET Assets]
       /\ \A a \in q.assets : status[a] # "none"
    \/ q \in {[op |-> "restore"], [op |-> "cleanup"]}
    \/ /\ q \in [op: {"purge"}, paths: SUBSET Assets]
       /\ \A a \in q.paths : status[a] # "none"

\* No deletion waits for the object of a row, nor is the model's missing, unless at risk.
FilesInv ==
    /\ \A a \in Assets : status[a] = "none" => a # thumbnail /\ a \notin doomed
    /\ canonical # None =>
          /\ status[canonical] \in {"raw", "ready"}
          /\ canonical \in store \cup seedLost \cup atRisk
    /\ \A a \in Rows \ atRisk : a \notin doomed

IInv ==
    /\ TypeOK /\ FilesInv
    /\ DOMAIN req = Requests /\ \A r \in Requests : RequestOK(req[r])

=============================================================================
