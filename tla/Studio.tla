------------------------------- MODULE Studio -------------------------------
(***************************************************************************)
(* The design of one project: its revisions, its version history, and the   *)
(* requests that write them - saves from the editor and from the service,   *)
(* restored versions, templates, bakes and new base models.                  *)
(*                                                                         *)
(* A request loads the project's row FOR UPDATE and keeps the lock until it  *)
(* commits, so it loads and writes in two steps, and others run in between.  *)
(* It decides on the copy it loaded.  A bake from the editor loads its copy  *)
(* before it takes the lock, and the lock does not refresh it.  Status and    *)
(* thumbnail are left out; what a request may be refused for - a locked       *)
(* project, too many layers, a banned text - is Refuse.                       *)
(***************************************************************************)
EXTENDS Naturals, Sequences, FiniteSets

CONSTANTS
    Requests,       \* requests in flight at a time
    Designs,        \* design configurations
    Keep,           \* max_versions_per_project
    MaxRevisions,   \* bound: revisions
    MaxVersions,    \* bound: version numbers
    MaxModels,      \* bound: canonical models
    None

\* What the constants must be.
StudioAssumption ==
    /\ Keep \in Nat \ {0}
    /\ {MaxRevisions, MaxVersions, MaxModels} \subseteq Nat
    /\ None \notin Requests \cup Designs

VARIABLES
    lock,       \* the request that holds the project's row lock
    project,    \* the row: design, revision, canonical model
    revisions,  \* design_revisions: the design, and the revision its author worked on
    versions,   \* design_versions
    job,        \* the newest job of the project, and whether the edit lock still counts it
    sent,       \* the designs a bake was created for
    req         \* what each request does, and the row as it loaded it

vars == <<lock, project, revisions, versions, job, sent, req>>

------------------------------------------------------------------------------
(* Version history.                                                          *)

Newest(vs) == IF vs = {} THEN 0
              ELSE CHOOSE n \in {v.no : v \in vs} : \A v \in vs : v.no <= n

PruneOldest(vs) == {v \in vs : Cardinality({w \in vs : w.no > v.no}) < Keep}

\* The oldest unpinned versions beyond Keep go.
Prune(vs) ==
    {v \in vs : v.pinned \/ Cardinality({w \in vs : ~w.pinned /\ w.no > v.no}) < Keep}

\* A version unless it is that of the newest; a pin on the newest is kept there.
Snapshot(vs, design, pin) ==
    IF \E v \in vs : v.no = Newest(vs) /\ v.design = design
    THEN {IF v.no = Newest(vs) THEN [v EXCEPT !.pinned = @ \/ pin] ELSE v : v \in vs}
    ELSE Prune(vs \cup {[no |-> Newest(vs) + 1, design |-> design, pinned |-> pin]})

------------------------------------------------------------------------------

NoJob == [kind |-> None, status |-> None, design |-> None, source |-> 0, recent |-> FALSE]

Active == job.status = "active"

\* A bake started less than five minutes ago still runs.
Exporting == Active /\ job.kind = "bake" /\ job.recent

Idle == [op |-> "idle", at |-> "idle", design |-> None, base |-> 0, seen |-> None]

Init ==
    /\ lock = None
    /\ \E d \in Designs \cup {None} :
          project = [design |-> d, revision |-> 0, model |-> 0]
    /\ revisions = <<>>
    /\ versions = {}
    /\ job = NoJob
    /\ sent = {}
    /\ req = [r \in Requests |-> Idle]

\* A client sends a request; of a save, `base` is the revision the client works on.
Send(r, op, design, seen) ==
    /\ req[r] = Idle
    /\ req' = [req EXCEPT ![r] = [op |-> op, at |-> "sent", design |-> design,
                                  base |-> project.revision, seen |-> seen]]
    /\ UNCHANGED <<lock, project, revisions, versions, job, sent>>

SendSave(r) == \E d \in Designs : Send(r, "save", d, None)
SendTemplate(r) == \E d \in Designs : Send(r, "template", d, None)
SendRestore(r) == \E v \in versions : Send(r, "restore", v, None)
SendServiceBake(r) == \E d \in Designs : Send(r, "bake", d, None)
SendPrepare(r) == Send(r, "prepare", None, None)

\* The editor's bake loads the project, without a lock, for the design to bake.
SendEditorBake(r) ==
    /\ project.model # 0
    /\ project.design # None
    /\ Send(r, "bake", project.design, project)

EnterUnlocked(r) ==
    /\ req[r].at = "sent"
    /\ lock' = r
    /\ req' = [req EXCEPT ![r].at = "locked",
                          ![r].seen = IF @ = None THEN project ELSE @]
    /\ UNCHANGED <<project, revisions, versions, job, sent>>

\* The lock is taken; the row is loaded unless the session holds a copy.
Enter(r) ==
    /\ req[r].at = "sent"
    /\ lock = None
    /\ lock' = r
    /\ req' = [req EXCEPT ![r].at = "locked",
                          ![r].seen = IF @ = None THEN project ELSE @]
    /\ UNCHANGED <<project, revisions, versions, job, sent>>

Leave(r) ==
    /\ lock' = IF lock = r THEN None ELSE lock
    /\ req' = [req EXCEPT ![r] = Idle]

\* Any refusal or failure: nothing is written.
Refuse(r) ==
    /\ req[r] # Idle
    /\ Leave(r)
    /\ UNCHANGED <<project, revisions, versions, job, sent>>

------------------------------------------------------------------------------
(* What requests write under the lock.                                       *)

\* save_design: a new revision, on the one it is based on.
NewRevision(seen, design, base, model) ==
    /\ seen.revision = base
    /\ Len(revisions) < MaxRevisions
    /\ revisions' = Append(revisions, [design |-> design, base |-> base])
    /\ project' = [project EXCEPT !.design = design, !.revision = seen.revision + 1,
                                  !.model = model]
    /\ Newest(versions) < MaxVersions
    /\ versions' = Snapshot(versions, design, FALSE)

\* A save of the editor or the service.
SaveDesign(r) ==
    /\ req[r].op = "save" /\ req[r].at = "locked"
    /\ ~Exporting
    /\ NewRevision(req[r].seen, req[r].design, req[r].base, project.model)
    /\ Leave(r)
    /\ UNCHANGED <<job, sent>>

\* An approved template replaces the design, on whatever revision there is.
ApplyTemplate(r) ==
    /\ req[r].op = "template" /\ req[r].at = "locked"
    /\ ~Exporting
    /\ NewRevision(req[r].seen, req[r].design, req[r].seen.revision, project.model)
    /\ Leave(r)
    /\ UNCHANGED <<job, sent>>

\* A version that still exists is written back as the newest.
RestoreVersion(r) ==
    /\ req[r].op = "restore" /\ req[r].at = "locked"
    /\ \E v \in versions : v.no = req[r].design.no
    /\ ~Exporting
    /\ NewRevision(req[r].seen, req[r].design.design, req[r].seen.revision, project.model)
    /\ Leave(r)
    /\ UNCHANGED <<job, sent>>

\* A bake ends the active job, and pins the design it exports.
TriggerBake(r) ==
    /\ req[r].op = "bake" /\ req[r].at = "locked"
    /\ req[r].seen.model # 0
    /\ job' = [kind |-> "bake", status |-> "active", design |-> req[r].design,
               source |-> req[r].seen.model, recent |-> TRUE]
    /\ Newest(versions) < MaxVersions
    /\ versions' = Snapshot(versions, req[r].design, TRUE)
    /\ sent' = sent \cup {req[r].design}
    /\ Leave(r)
    /\ UNCHANGED <<project, revisions>>

\* A new base model from the raw scan ends the active job too.
TriggerPrepare(r) ==
    /\ req[r].op = "prepare" /\ req[r].at = "locked"
    /\ job' = [kind |-> "prepare", status |-> "active", design |-> None, source |-> 0,
               recent |-> TRUE]
    /\ Leave(r)
    /\ UNCHANGED <<project, revisions, versions, sent>>

------------------------------------------------------------------------------
(* The job's end, each under the project's lock, and what else touches the row. *)

\* A bake of a model that is no longer canonical fails.
CompleteBake ==
    /\ lock = None
    /\ Active /\ job.kind = "bake"
    /\ job' = [job EXCEPT !.status = IF job.source = project.model THEN "completed"
                                     ELSE "failed"]
    /\ UNCHANGED <<lock, project, revisions, versions, sent, req>>

\* The prepared model becomes canonical, and a design starts over on it.
CompletePrepare ==
    /\ lock = None
    /\ Active /\ job.kind = "prepare"
    /\ project.model < MaxModels
    /\ job' = [job EXCEPT !.status = "completed"]
    /\ IF project.design = None
       THEN /\ project' = [project EXCEPT !.model = @ + 1]
            /\ UNCHANGED <<revisions, versions>>
       ELSE \E blank \in Designs :
              NewRevision(project, blank, project.revision, project.model + 1)
    /\ UNCHANGED <<lock, sent, req>>

\* A job fails, is cancelled or swept.
EndJob ==
    /\ Active
    /\ \E s \in {"failed", "cancelled"} : job' = [job EXCEPT !.status = s]
    /\ UNCHANGED <<lock, project, revisions, versions, sent, req>>

\* The owner, or an admin, retries a failed bake, without the project's lock.
RetryBake ==
    /\ job.kind = "bake" /\ job.status = "failed"
    /\ job' = [job EXCEPT !.status = "active", !.recent = TRUE]
    /\ UNCHANGED <<lock, project, revisions, versions, sent, req>>

\* Five minutes after it was queued a job no longer blocks edits.
LeaveEditLock ==
    /\ job.recent
    /\ job' = [job EXCEPT !.recent = FALSE]
    /\ UNCHANGED <<lock, project, revisions, versions, sent, req>>

\* The owner uploads a model, and it becomes canonical.
ReplaceModel ==
    /\ lock = None
    /\ project.model < MaxModels
    /\ project' = [project EXCEPT !.model = @ + 1]
    /\ UNCHANGED <<lock, revisions, versions, job, sent, req>>

Next ==
    \/ \E r \in Requests :
          \/ SendSave(r) \/ SendTemplate(r) \/ SendRestore(r)
          \/ SendServiceBake(r) \/ SendPrepare(r) \/ SendEditorBake(r)
          \/ Enter(r) \/ Refuse(r)
          \/ SaveDesign(r) \/ ApplyTemplate(r) \/ RestoreVersion(r)
          \/ TriggerBake(r) \/ TriggerPrepare(r)
    \/ CompleteBake \/ CompletePrepare \/ EndJob \/ RetryBake \/ LeaveEditLock
    \/ ReplaceModel

Spec == Init /\ [][Next]_vars

------------------------------------------------------------------------------

ProjectRow == [design: Designs \cup {None}, revision: 0..MaxRevisions, model: 0..MaxModels]

VersionRow == [no: 1..MaxVersions, design: Designs, pinned: BOOLEAN]

RequestState ==
    [op: {"idle", "save", "template", "restore", "bake", "prepare"},
     at: {"idle", "sent", "locked"}, design: Designs \cup VersionRow \cup {None},
     base: Nat, seen: ProjectRow \cup {None}]

TypeOK ==
    /\ lock \in Requests \cup {None}
    /\ project \in ProjectRow
    /\ revisions \in Seq([design: Designs, base: Nat])
    /\ versions \subseteq VersionRow
    /\ sent \subseteq Designs
    /\ req \in [Requests -> RequestState]
    /\ \A r \in Requests :
          /\ req[r].op \in {"save", "template", "bake"} => req[r].design \in Designs
          /\ req[r].op = "restore" => req[r].design \in VersionRow

\* No save is lost: each revision was made by someone who had the one before it, and the
\* project shows the last.
RevisionsChain ==
    /\ project.revision = Len(revisions)
    /\ \A i \in 1..Len(revisions) : revisions[i].base = i - 1
    /\ revisions # <<>> => project.design = revisions[Len(revisions)].design

\* Every design ever sent to be made is still in the history, pinned, however many
\* versions came after it; and the history keeps no more than Keep others.
ExportsKept ==
    /\ \A d \in sent : \E v \in versions : v.design = d /\ v.pinned
    /\ Cardinality({v \in versions : ~v.pinned}) <= Keep

------------------------------------------------------------------------------
(* Why they hold.                                                            *)

\* A request past its lock has it to itself, and one that writes the design loaded the row
\* under the lock, not before it as the editor's bake does.
LockInv ==
    \A r \in Requests :
        /\ req[r].at = "locked" => lock = r
        /\ req[r].op \in {"save", "template", "restore"} /\ req[r].at = "sent"
              => req[r].seen = None
        /\ req[r].op \in {"save", "template", "restore"} /\ req[r].at = "locked"
              => req[r].seen.revision = project.revision

\* A history: no number twice, and at most Keep versions that no export holds.
IsHistory(vs) ==
    /\ vs \subseteq VersionRow
    /\ IsFiniteSet(vs)
    /\ \A v, w \in vs : v.no = w.no => v = w
    /\ Cardinality({v \in vs : ~v.pinned}) <= Keep

HistoryInv ==
    /\ IsHistory(versions)
    /\ \A d \in sent : \E v \in versions : v.design = d /\ v.pinned

IInv == TypeOK /\ LockInv /\ HistoryInv /\ RevisionsChain

=============================================================================
