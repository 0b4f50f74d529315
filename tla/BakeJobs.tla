------------------------------ MODULE BakeJobs ------------------------------
(***************************************************************************)
(* Lifecycle of the 3D jobs (bake, prepare) that run on KusStudio Desktop. *)
(*                                                                         *)
(* The API owns one row per job in bake_jobs and one per project in        *)
(* projects (PostgreSQL, READ COMMITTED).  Every HTTP request is a         *)
(* transaction of its own; this module keeps one record per request with   *)
(* the step it is at, what it read before and what it has written but not  *)
(* committed.  Row locks are not a variable: a request that is at a step   *)
(* past its SELECT ... FOR UPDATE, or past its UPDATE, holds the row until *)
(* it commits or is aborted (HoldsJob, HoldsProject).                      *)
(*                                                                         *)
(* A claim is a number: it stands for the claim id, the token whose hash   *)
(* the row keeps, and the staging keys issued with it, which the code      *)
(* always writes together.  0 is NULL.                                     *)
(***************************************************************************)
EXTENDS Integers, FiniteSets

CONSTANTS
    Projects,       \* project ids
    Jobs,           \* ids of the bake_jobs rows that can be created
    ProjectOf,      \* the project of each job id
    Requests,       \* HTTP requests served at the same time
    MaxClaims,      \* bound: claims handed out in a behaviour
    MaxModels,      \* bound: canonical models a project goes through
    MaxExports,     \* plan.max_exports_per_month of the one user
    None            \* no job, no project

ASSUME BakeJobsAssumption ==
    /\ ProjectOf \in [Jobs -> Projects]
    /\ MaxClaims \in Nat
    /\ MaxModels \in Nat
    /\ MaxExports \in Nat
    /\ None \notin Projects \cup Jobs

VARIABLES
    job,        \* committed bake_jobs rows
    project,    \* committed projects rows
    exports,    \* monthly_usage.exports_count of the user
    lease,      \* where the clock stands for the lease of each claim
    granted,    \* claims handed out so far are 1..granted
    staged,     \* claims whose outputs are uploaded to the staging keys
    req,        \* the requests in flight
    sweeper,    \* the hourly maintenance task
    delivered   \* history: completions committed with each claim

vars == <<job, project, exports, lease, granted, staged, req, sweeper, delivered>>

Claims == 1..MaxClaims
Models == 1..MaxModels
Active == {"awaiting_client", "claimed"}
JobStatus == Active \cup {"absent", "completed", "failed", "cancelled"}
ProjectStatus == {"draft", "in_progress", "baking", "completed"}
Leases == {"live", "expired", "abandoned"}

JobRow == [status : JobStatus, kind : {"bake", "prepare"}, src : 0..MaxModels,
           claim : 0..MaxClaims, issued : 0..MaxClaims]
ProjectRow == [status : ProjectStatus, canonical : 0..MaxModels, design : BOOLEAN]

Steps == {"idle", "trigger", "supersede", "claim", "project", "commit", "cancel", "requeue",
          "write", "delete"}
RequestState ==
    [pc : Steps, on : Jobs \cup {None}, in : Projects \cup {None}, token : 0..MaxClaims,
     row : JobRow, status : ProjectStatus \cup {"keep"},
     stale : SUBSET Claims]
SweeperState ==
    [pc : {"idle", "write", "delete"}, swept : SUBSET Jobs, stale : SUBSET Claims]

NoRow == [status |-> "absent", kind |-> "bake", src |-> 0, claim |-> 0, issued |-> 0]
Idle == [pc |-> "idle", on |-> None, in |-> None, token |-> 0,
         row |-> NoRow, status |-> "keep", stale |-> {}]
SweeperIdle == [pc |-> "idle", swept |-> {}, stale |-> {}]

Init ==
    /\ job = [j \in Jobs |-> NoRow]
    /\ project \in [Projects -> {[status |-> "draft", canonical |-> m, design |-> FALSE] :
                                     m \in {0, 1} \cap (0..MaxModels)}]
    /\ exports = 0
    /\ lease = [c \in Claims |-> "live"]
    /\ granted = 0
    /\ staged = {}
    /\ req = [r \in Requests |-> Idle]
    /\ sweeper = SweeperIdle
    /\ delivered = [c \in Claims |-> 0]

-----------------------------------------------------------------------------
(* PostgreSQL and SQLAlchemy as the code uses them.                         *)

\* Steps at which a request owns the row of its job.
HoldsJob(r, j) == req[r].on = j /\ req[r].pc \in {"project", "commit", "write"}

\* Steps at which a request owns the row of its project.
HoldsProject(r, p) == req[r].in = p /\ req[r].pc \in {"supersede", "commit"}

SweeperHolds(j) == sweeper.pc = "write" /\ j \in sweeper.swept

JobUnlocked(j) == TRUE
JobFree(j) == ~SweeperHolds(j) /\ \A r \in Requests : ~HoldsJob(r, j)
ProjectUnlocked(p) == TRUE
ProjectFree(p) == \A r \in Requests : ~HoldsProject(r, p)

\* A flush of an ORM instance writes the columns whose value differs from the one loaded,
\* and no other column, whatever the row holds by now.
Column(current, loaded, new) == IF new = loaded THEN current ELSE new

\* Setting projects.status to the value read before writes nothing.
StatusWrite(p, status) == IF project[p].status = status THEN "keep" ELSE status
Written(old, status) == IF status = "keep" THEN old ELSE status

NoUniqueIndex(j) == FALSE

\* uq_bake_jobs_active_project: another committed row of the project is active ...
ActiveClash(j) ==
    \E k \in Jobs \ {j} : ProjectOf[k] = ProjectOf[j] /\ job[k].status \in Active

\* ... or a transaction still open is making one active, and the write waits for it.
PendingClash(j) ==
    \E r \in Requests : /\ req[r].pc = "write" /\ req[r].row.status \in Active
                        /\ req[r].on # j /\ ProjectOf[req[r].on] = ProjectOf[j]

ActiveOf(p) == {j \in Jobs : ProjectOf[j] = p /\ job[j].status \in Active}

\* Keys recorded in issued_outputs, as the set of claims they were issued with.
OutputPaths(row) == IF row.issued = 0 THEN {} ELSE {row.issued}

\* claim_expires_at > now
LiveLease(row) == row.claim # 0 /\ lease[row.claim] = "live"

\* A request goes on to its next step, or ends; staging keys are deleted after the commit.
Move(r, new) == req' = [req EXCEPT ![r] = new]

Finish(r, stale) ==
    Move(r, IF stale = {} THEN Idle ELSE [Idle EXCEPT !.pc = "delete", !.stale = stale])

-----------------------------------------------------------------------------
(* Creation: trigger_bake and trigger_prepare.                              *)

\* Bound: a job id is left for the row to be created.
RowLeft(p) == \E j \in Jobs : ProjectOf[j] = p /\ job[j].status = "absent"

\* The row to insert, from the project as the request sees it.
NewJob(p, kind) ==
    [status |-> "awaiting_client", kind |-> kind,
     src |-> IF kind = "bake" THEN project[p].canonical ELSE 0, claim |-> 0, issued |-> 0]

\* The editor route reads the project before the shared trigger_bake locks it; the session
\* keeps the instance it has, so what follows uses the values of this first read.
TriggerRead(r, p) ==
    /\ req[r].pc = "idle"
    /\ project[p].canonical # 0 /\ project[p].design
    /\ Move(r, [req[r] EXCEPT !.pc = "trigger", !.in = p, !.row = NewJob(p, "bake"),
                              !.status = StatusWrite(p, "baking")])
    /\ UNCHANGED <<job, project, exports, lease, granted, staged, sweeper, delivered>>

\* Lock the project and check the export quota (one format per bake), which is read
\* without a lock.
TriggerLock(r) ==
    /\ req[r].pc = "trigger"
    /\ ProjectFree(req[r].in) /\ RowLeft(req[r].in)
    /\ exports + 1 <= MaxExports
    /\ Move(r, [req[r] EXCEPT !.pc = "supersede"])
    /\ UNCHANGED <<job, project, exports, lease, granted, staged, sweeper, delivered>>

\* The service route of trigger_bake, and trigger_prepare, read the project by locking it.
TriggerDirect(r, p, kind) ==
    /\ req[r].pc = "idle"
    /\ ProjectFree(p) /\ RowLeft(p)
    /\ kind = "bake" => project[p].canonical # 0 /\ exports + 1 <= MaxExports
    /\ Move(r, [req[r] EXCEPT !.pc = "supersede", !.in = p, !.row = NewJob(p, kind),
                              !.status = IF kind = "bake" THEN StatusWrite(p, "baking")
                                            ELSE "keep"])
    /\ UNCHANGED <<job, project, exports, lease, granted, staged, sweeper, delivered>>

\* supersede_active refuses while a live claim runs.
TriggerBusy(r) ==
    /\ req[r].pc = "supersede"
    /\ \E j \in ActiveOf(req[r].in) :
          JobFree(j) /\ job[j].status = "claimed" /\ LiveLease(job[j])
    /\ Move(r, Idle)
    /\ UNCHANGED <<job, project, exports, lease, granted, staged, sweeper, delivered>>

\* Cancel the active job if there is one, insert the new row, commit.
TriggerCommit(r, j) ==
    LET p == req[r].in
        old == ActiveOf(p) IN
    /\ req[r].pc = "supersede"
    /\ job[j].status = "absent" /\ ProjectOf[j] = p
    /\ \A k \in old : JobFree(k) /\ ~(job[k].status = "claimed" /\ LiveLease(job[k]))
    /\ ~PendingClash(j)
    /\ job' = [k \in Jobs |->
                 IF k = j THEN req[r].row
                 ELSE IF k \in old THEN [job[k] EXCEPT !.status = "cancelled"]
                 ELSE job[k]]
    /\ project' = [project EXCEPT ![p].status = Written(@, req[r].status)]
    /\ Finish(r, UNION {OutputPaths(job[k]) : k \in old})
    /\ UNCHANGED <<exports, lease, granted, staged, sweeper, delivered>>

-----------------------------------------------------------------------------
(* Claim.                                                                   *)

\* The job and the project are read without a lock; the keys of the previous claim and
\* the project status are kept for later.
ClaimRead(r, j) ==
    /\ req[r].pc = "idle"
    /\ job[j].status # "absent"
    /\ Move(r, [req[r] EXCEPT !.pc = "claim", !.on = j,
                              !.status = StatusWrite(ProjectOf[j], "in_progress"),
                              !.stale = OutputPaths(job[j])])
    /\ UNCHANGED <<job, project, exports, lease, granted, staged, sweeper, delivered>>

ClaimableAlways(row) == row.status \in Active

Claimable(row) ==
    \/ row.status = "awaiting_client"
    \/ row.status = "claimed" /\ ~LiveLease(row)

\* A claim that reads the keys to delete after the UPDATE has replaced them.
ClaimGrantOwnKeys(r) ==
    LET j == req[r].on
        c == granted + 1 IN
    /\ req[r].pc = "claim"
    /\ JobFree(j)
    /\ Claimable(job[j])
    /\ granted < MaxClaims
    /\ job' = [job EXCEPT ![j] = [@ EXCEPT !.status = "claimed", !.claim = c, !.issued = c]]
    /\ granted' = c
    /\ Finish(r, {c})
    /\ UNCHANGED <<project, exports, lease, staged, sweeper, delivered>>

\* The conditional UPDATE finds the row claimable and the payload builds.
ClaimGrant(r) ==
    LET j == req[r].on
        c == granted + 1 IN
    /\ req[r].pc = "claim"
    /\ JobFree(j)
    /\ Claimable(job[j])
    /\ granted < MaxClaims
    /\ job' = [job EXCEPT ![j] = [@ EXCEPT !.status = "claimed", !.claim = c, !.issued = c]]
    /\ granted' = c
    /\ Finish(r, req[r].stale)
    /\ UNCHANGED <<project, exports, lease, staged, sweeper, delivered>>

\* The row is claimed but its payload cannot be built: it is marked failed in the same
\* transaction, with issued_outputs still NULL.
ClaimInvalid(r) ==
    LET j == req[r].on
        c == granted + 1 IN
    /\ req[r].pc = "claim"
    /\ JobFree(j)
    /\ Claimable(job[j])
    /\ granted < MaxClaims
    /\ granted' = c
    /\ Move(r, [req[r] EXCEPT !.pc = "write",
                              !.row = [job[j] EXCEPT !.status = "failed", !.claim = c, !.issued = 0]])
    /\ UNCHANGED <<job, project, exports, lease, staged, sweeper, delivered>>

\* No row came back: somebody else holds the job or it is over.
ClaimLost(r) ==
    /\ req[r].pc = "claim"
    /\ JobFree(req[r].on)
    /\ ~Claimable(job[req[r].on])
    /\ Move(r, Idle)
    /\ UNCHANGED <<job, project, exports, lease, granted, staged, sweeper, delivered>>

-----------------------------------------------------------------------------
(* Complete and fail, authenticated by the claim token alone.               *)

\* _locked_claimed_job: the row is locked and the token is the one of a claimed job.
\* The other outcomes (replay of a completed job, foreign or superseded token, job no
\* longer claimed) answer without writing.
HoldsClaimOrDone(j, c) == job[j].status \in {"claimed", "completed"} /\ job[j].claim = c
HoldsClaim(j, c) == job[j].status = "claimed" /\ job[j].claim = c

CompleteLock(r, j, c) ==
    /\ req[r].pc = "idle"
    /\ JobFree(j)
    /\ HoldsClaim(j, c)
    /\ Move(r, [req[r] EXCEPT !.pc = "project", !.on = j, !.in = ProjectOf[j],
                              !.token = c])
    /\ UNCHANGED <<job, project, exports, lease, granted, staged, sweeper, delivered>>

\* The project row is locked; a bake of another model, a bake over the export quota and a
\* prepare whose raw scan is gone fail the job.  _fail_and_raise commits the failure.
CompleteReject(r) ==
    LET j == req[r].on
        p == req[r].in IN
    /\ req[r].pc = "project"
    /\ ProjectFree(p)
    /\ \/ job[j].kind = "prepare"
       \/ project[p].canonical # job[j].src
       \/ exports + 1 > MaxExports
    /\ job' = [job EXCEPT ![j].status = "failed"]
    /\ project' = [project EXCEPT ![p].status = "in_progress"]
    /\ Finish(r, OutputPaths(job[j]))
    /\ UNCHANGED <<exports, lease, granted, staged, sweeper, delivered>>

\* Missing, foreign or malformed outputs, or no watermark: the job stays claimed.
CompleteInvalid(r) ==
    /\ req[r].pc = "project"
    /\ ProjectFree(req[r].in)
    /\ Move(r, Idle)
    /\ UNCHANGED <<job, project, exports, lease, granted, staged, sweeper, delivered>>

\* Every check passed and the staging objects are copied to the final keys.
CompleteCopy(r) ==
    LET j == req[r].on
        p == req[r].in IN
    /\ req[r].pc = "project"
    /\ ProjectFree(p)
    /\ job[j].kind = "bake" => /\ project[p].canonical = job[j].src
                               /\ exports + 1 <= MaxExports
    /\ job[j].kind = "prepare" => project[p].canonical < MaxModels
    /\ job[j].issued \in staged
    /\ Move(r, [req[r] EXCEPT !.pc = "commit"])
    /\ UNCHANGED <<job, project, exports, lease, granted, staged, sweeper, delivered>>

\* What the completer of each kind writes, in the transaction that completes the job.
\* A prepared model becomes canonical; a saved design is reset by a new revision.
Completed(p, kind) ==
    IF kind = "bake" THEN [project[p] EXCEPT !.status = "completed"]
    ELSE [project[p] EXCEPT !.canonical = @ + 1,
                            !.status = IF project[p].design THEN "in_progress" ELSE @]

CompleteCommit(r) ==
    LET j == req[r].on
        p == req[r].in IN
    /\ req[r].pc = "commit"
    /\ job' = [job EXCEPT ![j].status = "completed"]
    /\ project' = [project EXCEPT ![p] = Completed(p, job[j].kind)]
    /\ exports' = IF job[j].kind = "bake" THEN exports + 1 ELSE exports
    /\ delivered' = [delivered EXCEPT ![req[r].token] = @ + 1]
    /\ Finish(r, OutputPaths(job[j]))
    /\ UNCHANGED <<lease, granted, staged, sweeper>>

FailLock(r, j, c) ==
    /\ req[r].pc = "idle"
    /\ JobFree(j)
    /\ HoldsClaim(j, c)
    /\ Move(r, [req[r] EXCEPT !.pc = "write", !.on = j,
                              !.status = StatusWrite(ProjectOf[j], "in_progress"),
                              !.row = [job[j] EXCEPT !.status = "failed"],
                              !.stale = OutputPaths(job[j])])
    /\ UNCHANGED <<job, project, exports, lease, granted, staged, sweeper, delivered>>

-----------------------------------------------------------------------------
(* Cancel and retry, by the owner or by an admin: the row is read without a *)
(* lock and written later.  Only the owner's endpoints set the project.     *)

CancelRead(r, j) ==
    /\ req[r].pc = "idle"
    /\ job[j].status \in Active
    /\ \E status \in {StatusWrite(ProjectOf[j], "in_progress"), "keep"} :
         Move(r, [req[r] EXCEPT !.pc = "cancel", !.on = j, !.row = job[j],
                                !.status = status, !.stale = OutputPaths(job[j])])
    /\ UNCHANGED <<job, project, exports, lease, granted, staged, sweeper, delivered>>

CancelFlush(r) ==
    LET j == req[r].on
        read == req[r].row IN
    /\ req[r].pc = "cancel"
    /\ JobFree(j)
    /\ Move(r, [req[r] EXCEPT !.pc = "write",
                              !.row = [job[j] EXCEPT !.status = Column(@, read.status, "cancelled")]])
    /\ UNCHANGED <<job, project, exports, lease, granted, staged, sweeper, delivered>>

RetryRead(r, j) ==
    /\ req[r].pc = "idle"
    /\ job[j].status = "failed"
    /\ ActiveOf(ProjectOf[j]) = {}
    /\ \E status \in {StatusWrite(ProjectOf[j], "baking"), "keep"} :
         Move(r, [req[r] EXCEPT !.pc = "requeue", !.on = j, !.row = job[j],
                                !.status = status])
    /\ UNCHANGED <<job, project, exports, lease, granted, staged, sweeper, delivered>>

\* mark_requeued; the unique index refuses a second active job of the project.
RetryFlush(r) ==
    LET j == req[r].on
        read == req[r].row IN
    /\ req[r].pc = "requeue"
    /\ JobFree(j)
    /\ ~ActiveClash(j) /\ ~PendingClash(j)
    /\ Move(r, [req[r] EXCEPT !.pc = "write",
                              !.row = [job[j] EXCEPT
                                            !.status = Column(@, read.status, "awaiting_client"),
                                            !.claim = Column(@, read.claim, 0),
                                            !.issued = Column(@, read.issued, 0)]])
    /\ UNCHANGED <<job, project, exports, lease, granted, staged, sweeper, delivered>>

RetryConflict(r) ==
    /\ req[r].pc = "requeue"
    /\ ActiveClash(req[r].on)
    /\ Move(r, Idle)
    /\ UNCHANGED <<job, project, exports, lease, granted, staged, sweeper, delivered>>

\* Commit of a request that has written the row of its job, in fail, cancel, retry and a
\* claim whose payload is invalid; it writes the project row first if it has to.
WriteCommit(r) ==
    LET j == req[r].on
        p == ProjectOf[j] IN
    /\ req[r].pc = "write"
    /\ req[r].status = "keep" \/ ProjectFree(p)
    /\ job' = [job EXCEPT ![j] = req[r].row]
    /\ project' = [project EXCEPT ![p].status = Written(@, req[r].status)]
    /\ Finish(r, req[r].stale)
    /\ UNCHANGED <<exports, lease, granted, staged, sweeper, delivered>>

\* Removal of staging objects after the commit; a storage error is the same as Abort.
DeleteStaging(r) ==
    /\ req[r].pc = "delete"
    /\ staged' = staged \ req[r].stale
    /\ Move(r, Idle)
    /\ UNCHANGED <<job, project, exports, lease, granted, sweeper, delivered>>

\* An exception, a crash of the process or a lost connection: the transaction is rolled
\* back, and what was to follow the commit never happens.
Abort(r) ==
    /\ req[r].pc # "idle"
    /\ Move(r, Idle)
    /\ UNCHANGED <<job, project, exports, lease, granted, staged, sweeper, delivered>>

-----------------------------------------------------------------------------
(* The hourly sweep of abandoned claims.                                    *)

AbandonedBaking ==
    {j \in Jobs : /\ job[j].status = "claimed" /\ lease[job[j].claim] = "abandoned"
                  /\ project[ProjectOf[j]].status = "baking"}
Abandoned == {j \in Jobs : job[j].status = "claimed" /\ lease[job[j].claim] = "abandoned"}

SweepUpdate ==
    /\ sweeper.pc = "idle"
    /\ Abandoned # {}
    /\ \A j \in Abandoned : JobFree(j)
    /\ sweeper' = [pc |-> "write", swept |-> Abandoned,
                   stale |-> UNION {OutputPaths(job[j]) : j \in Abandoned}]
    /\ UNCHANGED <<job, project, exports, lease, granted, staged, req, delivered>>

\* Only projects still baking are released; the others are not even locked.
SweepCommit ==
    LET released == {p \in Projects : /\ \E j \in sweeper.swept : ProjectOf[j] = p
                                      /\ project[p].status = "baking"} IN
    /\ sweeper.pc = "write"
    /\ \A p \in released : ProjectFree(p)
    /\ job' = [j \in Jobs |-> IF j \in sweeper.swept THEN [job[j] EXCEPT !.status = "failed"]
                              ELSE job[j]]
    /\ project' = [p \in Projects |-> IF p \in released
                                      THEN [project[p] EXCEPT !.status = "in_progress"]
                                      ELSE project[p]]
    /\ sweeper' = [sweeper EXCEPT !.pc = "delete"]
    /\ UNCHANGED <<exports, lease, granted, staged, req, delivered>>

SweepDelete ==
    /\ sweeper.pc = "delete"
    /\ staged' = staged \ sweeper.stale
    /\ sweeper' = SweeperIdle
    /\ UNCHANGED <<job, project, exports, lease, granted, req, delivered>>

SweepAbort ==
    /\ sweeper.pc # "idle"
    /\ sweeper' = SweeperIdle
    /\ UNCHANGED <<job, project, exports, lease, granted, staged, req, delivered>>

-----------------------------------------------------------------------------
(* The owner edits the project, the desktop uploads, time passes.           *)

\* save_design locks the project and refuses while a bake is active; a bake older than
\* EXPORT_LOCK_MINUTES no longer blocks, so here it may or may not.
SaveDesign(p) ==
    /\ ProjectFree(p)
    /\ project' = [project EXCEPT ![p] = [@ EXCEPT !.design = TRUE, !.status = "in_progress"]]
    /\ UNCHANGED <<job, exports, lease, granted, staged, req, sweeper, delivered>>

\* confirm_upload of a source model.
ReplaceModel(p) ==
    /\ ProjectFree(p)
    /\ project[p].canonical < MaxModels
    /\ project' = [project EXCEPT ![p].canonical = @ + 1]
    /\ UNCHANGED <<job, exports, lease, granted, staged, req, sweeper, delivered>>

\* A PUT to the presigned URLs of a claim, which live as long as its lease.
Upload(c) ==
    /\ c <= granted /\ lease[c] = "live"
    /\ staged' = staged \cup {c}
    /\ UNCHANGED <<job, project, exports, lease, granted, req, sweeper, delivered>>

\* The lease of a claim runs out; later it is older than the sweep threshold.
LeaseTick(c) ==
    /\ c <= granted /\ lease[c] # "abandoned"
    /\ lease' = [lease EXCEPT ![c] = IF @ = "live" THEN "expired" ELSE "abandoned"]
    /\ UNCHANGED <<job, project, exports, granted, staged, req, sweeper, delivered>>

-----------------------------------------------------------------------------
Create(r) ==
    \/ \E p \in Projects : TriggerRead(r, p)
    \/ TriggerLock(r)
    \/ \E p \in Projects, kind \in {"bake", "prepare"} : TriggerDirect(r, p, kind)
    \/ TriggerBusy(r)
    \/ \E j \in Jobs : TriggerCommit(r, j)

Claim(r) ==
    \/ \E j \in Jobs : ClaimRead(r, j)
    \/ ClaimGrant(r)
    \/ ClaimInvalid(r)
    \/ ClaimLost(r)

Report(r) ==
    \/ \E j \in Jobs, c \in Claims : CompleteLock(r, j, c)
    \/ CompleteReject(r)
    \/ CompleteInvalid(r)
    \/ CompleteCopy(r)
    \/ CompleteCommit(r)
    \/ \E j \in Jobs, c \in Claims : FailLock(r, j, c)

Override(r) ==
    \/ \E j \in Jobs : CancelRead(r, j)
    \/ CancelFlush(r)
    \/ \E j \in Jobs : RetryRead(r, j)
    \/ RetryFlush(r)
    \/ RetryConflict(r)

Close(r) == WriteCommit(r) \/ DeleteStaging(r) \/ Abort(r)

Sweep == SweepUpdate \/ SweepCommit \/ SweepDelete \/ SweepAbort

Environment ==
    \/ \E p \in Projects : SaveDesign(p) \/ ReplaceModel(p)
    \/ \E c \in Claims : Upload(c) \/ LeaseTick(c)

Next ==
    \/ \E r \in Requests :
          Create(r) \/ Claim(r) \/ Report(r) \/ Override(r) \/ Close(r)
    \/ Sweep
    \/ Environment

Spec == Init /\ [][Next]_vars

\* Two transactions wait for each other's row: one holds the project and wants the active
\* job, the other holds the job and wants the project.  PostgreSQL aborts one of them.
WantsJob(r) == IF req[r].pc = "supersede" THEN ActiveOf(req[r].in) ELSE {}
WantsProject(r, p) ==
    \/ req[r].pc = "project" /\ req[r].in = p
    \/ req[r].pc = "write" /\ req[r].status # "keep" /\ ProjectOf[req[r].on] = p
SweeperWants(p) ==
    /\ sweeper.pc = "write" /\ project[p].status = "baking"
    /\ \E j \in sweeper.swept : ProjectOf[j] = p
Deadlocked(r) ==
    \E j \in WantsJob(r) :
        \/ SweeperHolds(j) /\ SweeperWants(req[r].in)
        \/ \E q \in Requests : HoldsJob(q, j) /\ WantsProject(q, req[r].in)
DeadlockAbort(r) == Deadlocked(r) /\ Abort(r)

\* The steps of a request that is under way, without starts and aborts.
Advance(r) ==
    \/ TriggerLock(r) \/ TriggerBusy(r) \/ \E j \in Jobs : TriggerCommit(r, j)
    \/ ClaimGrant(r) \/ ClaimInvalid(r) \/ ClaimLost(r)
    \/ CompleteReject(r) \/ CompleteInvalid(r) \/ CompleteCopy(r) \/ CompleteCommit(r)
    \/ CancelFlush(r) \/ RetryFlush(r) \/ RetryConflict(r)
    \/ WriteCommit(r) \/ DeleteStaging(r)

\* Requests run to their end, deadlocks are broken, time passes, and Celery beat starts
\* the sweep every hour: a lock it needs is free again and again, and PostgreSQL serves
\* waiters in order, so a sweep that can run infinitely often does run.
Fairness ==
    /\ \A r \in Requests : WF_vars(Advance(r)) /\ WF_vars(DeadlockAbort(r))
    /\ \A c \in Claims : WF_vars(LeaseTick(c))
    /\ SF_vars(SweepUpdate) /\ SF_vars(SweepCommit) /\ WF_vars(SweepDelete)

FairSpec == Spec /\ Fairness

-----------------------------------------------------------------------------
(* Properties.                                                              *)

\* Every variable stays in its domain: rows keep the CHECKed statuses, requests know the
\* step they are at, and counters stay natural numbers.
TypeOK ==
    /\ job \in [Jobs -> JobRow]
    /\ project \in [Projects -> ProjectRow]
    /\ exports \in Nat
    /\ lease \in [Claims -> Leases]
    /\ granted \in 0..MaxClaims
    /\ staged \subseteq Claims
    /\ req \in [Requests -> RequestState]
    /\ sweeper \in SweeperState
    /\ delivered \in [Claims -> Nat]

\* A project never has two jobs a desktop may act on, in spite of retries that check for
\* an active job without a lock while a new job is being created.
OneActiveJob ==
    \A j, k \in Jobs :
        job[j].status \in Active /\ job[k].status \in Active /\ ProjectOf[j] = ProjectOf[k]
            => j = k

\* Between its checks and its commit a completion works on a job that is still claimed
\* with its token, and a bake on a project whose canonical model is still the one baked.
CompletionStillValid ==
    \A r \in Requests : req[r].pc = "commit" =>
        LET j == req[r].on IN
        /\ HoldsClaim(j, req[r].token)
        /\ job[j].kind = "bake" => project[ProjectOf[j]].canonical = job[j].src

\* The effects of a completion (exports, quota, prepared model) are applied at most once
\* for a claim token, whatever cancels, retries and replays run beside it.
DeliveredOncePerClaim == \A c \in Claims : delivered[c] <= 1

\* A completed job stays completed: the test of the admin cancel expects it to be refused.
CompletedStays ==
    [][\A j \in Jobs : job[j].status = "completed" => job'[j].status = "completed"]_vars

\* Nothing undoes a completion but a cancel or a requeue that is past its status check
\* (mark_cancelled, mark_requeued): no late or repeated report, no claim that fails, no sweep
\* and no new job of the project.
CompletionUndone ==
    [][\A j \in Jobs : job[j].status = "completed" /\ job'[j].status # "completed" =>
          \E r \in Requests : /\ req[r].pc = "write" /\ req[r].on = j
                              /\ req[r].row.status \in {"cancelled", "awaiting_client"}
                              /\ job'[j] = req[r].row]_vars

\* No pending deletion, not even one decided on a row read long ago, aims at the staging
\* keys of the claim a desktop currently holds.
LiveStagingSafe ==
    \A j \in Jobs : job[j].status = "claimed" =>
        /\ \A r \in Requests : req[r].pc = "delete" => job[j].issued \notin req[r].stale
        /\ sweeper.pc = "delete" => job[j].issued \notin sweeper.stale

\* The claim protocol implements FencedLease: a job is held by the claim of its committed
\* row while that row is claimed.
Holder == [j \in Jobs |-> IF job[j].status = "claimed" THEN job[j].claim ELSE 0]
Lease == INSTANCE FencedLease WITH
             Claims <- Claims, holder <- Holder, used <- 1..granted,
             lapsed <- {c \in Claims : lease[c] # "live"}
FencedLeaseSpec == Lease!Spec

\* A job does not stay with a desktop that went away: whatever the owner, other desktops
\* and crashes of the sweep do, every claim on a job comes to an end.
ClaimsEnd == \A j \in Jobs, c \in Claims : HoldsClaim(j, c) ~> ~HoldsClaim(j, c)

-----------------------------------------------------------------------------
(* Why the safety properties hold: an inductive invariant.                  *)

\* A row is held by one transaction at a time.
LockInv ==
    /\ \A r, q \in Requests, j \in Jobs : HoldsJob(r, j) /\ HoldsJob(q, j) => r = q
    /\ \A r \in Requests, j \in Jobs : HoldsJob(r, j) => ~SweeperHolds(j)
    /\ \A r, q \in Requests, p \in Projects :
          HoldsProject(r, p) /\ HoldsProject(q, p) => r = q

\* What a request read, checked or wrote is still so at each of its steps.
RequestOK(r) ==
    LET pc == req[r].pc
        j == req[r].on
        p == req[r].in IN
    /\ pc \in {"claim", "project", "commit", "cancel", "requeue", "write"} =>
          j \in Jobs /\ job[j].status # "absent"
    /\ pc \in {"trigger", "supersede"} =>
          p \in Projects /\ req[r].row.status = "awaiting_client" /\ req[r].row.issued = 0
    /\ pc \in {"project", "commit"} =>
          p = ProjectOf[j] /\ req[r].token \in Claims /\ HoldsClaim(j, req[r].token)
    /\ pc = "commit" /\ job[j].kind = "bake" => project[p].canonical = job[j].src
    /\ pc = "commit" /\ job[j].kind = "prepare" => project[p].canonical < MaxModels
    /\ pc = "cancel" => req[r].row.status \in Active
    /\ pc = "requeue" => req[r].row.status = "failed"
    /\ pc \notin {"claim", "cancel", "write", "delete"} => req[r].stale = {}
    /\ pc = "write" => /\ req[r].row.status \in {"awaiting_client", "failed", "cancelled"}
                       /\ req[r].row.issued \in {0, job[j].issued}

\* The rows a sweep has written and not committed are still claimed underneath.
SweptInv == \A j \in Jobs : SweeperHolds(j) => job[j].status = "claimed"

\* Claims on jobs are distinct, were handed out, and have not delivered yet.
ClaimInv ==
    /\ \A j \in Jobs : job[j].status = "claimed" =>
          job[j].claim \in 1..granted /\ delivered[job[j].claim] = 0
    /\ \A j, k \in Jobs :
          job[j].status = "claimed" /\ job[k].status = "claimed" /\ job[j].claim = job[k].claim
              => j = k
    /\ \A c \in Claims : delivered[c] <= 1 /\ (c > granted => delivered[c] = 0)

\* A write that is about to make a job active has the project for itself.
Activates(r) == req[r].pc = "write" /\ req[r].row.status \in Active
ActiveInv ==
    /\ OneActiveJob
    /\ \A r \in Requests : Activates(r) => ~ActiveClash(req[r].on)
    /\ \A r, q \in Requests :
          Activates(r) /\ Activates(q) /\ ProjectOf[req[r].on] = ProjectOf[req[q].on] => r = q

\* Keys are never issued twice, and keys marked for deletion are those of one job, which no
\* longer holds them when the deletion is due.
Unclaimed(c) == \A j \in Jobs : job[j].status = "claimed" => job[j].issued # c
StaleOK(r) ==
    \A c \in req[r].stale :
        /\ c <= granted
        /\ req[r].pc \in {"claim", "cancel", "write"} =>
              \A k \in Jobs : k # req[r].on => job[k].issued # c
        /\ req[r].pc = "delete" => Unclaimed(c)
SweeperOK ==
    \A c \in sweeper.stale :
        /\ c <= granted
        /\ sweeper.pc = "write" => \E j \in sweeper.swept : job[j].issued = c
        /\ sweeper.pc = "delete" => Unclaimed(c)
StagingInv ==
    /\ \A j \in Jobs : job[j].issued <= granted
    /\ \A j, k \in Jobs : job[j].issued = job[k].issued /\ job[j].issued # 0 => j = k
    /\ \A r \in Requests : StaleOK(r)
    /\ SweeperOK

IInv ==
    /\ TypeOK
    /\ LockInv
    /\ \A r \in Requests : RequestOK(r)
    /\ SweptInv
    /\ ClaimInv
    /\ ActiveInv
    /\ StagingInv

\* Nobody but a cancel or a retry is about to write the row of a completed job.
UndoInv ==
    \A r \in Requests :
        req[r].pc = "write" /\ req[r].row.status = "failed"
            => job[req[r].on].status # "completed"
=============================================================================
