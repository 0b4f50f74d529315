--------------------------- MODULE BakeJobsProofs ---------------------------
(* Machine-checked proofs about BakeJobs, for every number of projects,     *)
(* jobs, requests and claims.                                               *)
EXTENDS BakeJobs, TLAPS

USE DEF Claims, Active, JobStatus, ProjectStatus, Leases, Steps

-----------------------------------------------------------------------------
(* The data: rows, requests and what moves them.                            *)

\* The record a request goes back to when it ends is a request state.
LEMMA IdleType == Idle \in RequestState /\ NoRow \in JobRow
BY BakeJobsAssumption DEF Idle, NoRow, RequestState, JobRow

\* The row inserted for a project is a row.
LEMMA NewJobType ==
  ASSUME TypeOK, NEW p \in Projects, NEW kind \in {"bake", "prepare"}
  PROVE  NewJob(p, kind) \in JobRow
<1>1. project[p] \in ProjectRow
  BY DEF TypeOK
<1> QED
  BY <1>1, BakeJobsAssumption DEF NewJob, JobRow, ProjectRow

\* What an update of a row leaves is a row, with the fields it does not name unchanged.
LEMMA RowStatus ==
  ASSUME NEW row \in JobRow, NEW status \in JobStatus
  PROVE  /\ [row EXCEPT !.status = status] \in JobRow
         /\ [row EXCEPT !.status = status].status = status
         /\ [row EXCEPT !.status = status].kind = row.kind
         /\ [row EXCEPT !.status = status].src = row.src
         /\ [row EXCEPT !.status = status].claim = row.claim
         /\ [row EXCEPT !.status = status].issued = row.issued
BY DEF JobRow

LEMMA RowClaim ==
  ASSUME NEW row \in JobRow, NEW status \in JobStatus,
         NEW claim \in 0..MaxClaims, NEW issued \in 0..MaxClaims
  PROVE  LET new == [row EXCEPT !.status = status, !.claim = claim, !.issued = issued] IN
         /\ new \in JobRow
         /\ new.status = status /\ new.claim = claim /\ new.issued = issued
         /\ new.kind = row.kind /\ new.src = row.src
BY DEF JobRow

LEMMA ProjectStatusUpdate ==
  ASSUME NEW row \in ProjectRow, NEW status \in ProjectStatus
  PROVE  /\ [row EXCEPT !.status = status] \in ProjectRow
         /\ [row EXCEPT !.status = status].canonical = row.canonical
BY DEF ProjectRow

\* What a completion leaves of a project is a project.
LEMMA CompletedType ==
  ASSUME TypeOK, NEW p \in Projects, NEW kind \in {"bake", "prepare"},
         kind = "prepare" => project[p].canonical < MaxModels
  PROVE  Completed(p, kind) \in ProjectRow
<1>1. project[p] \in ProjectRow
  BY DEF TypeOK
<1>2. CASE kind = "bake"
  BY <1>1, <1>2, ProjectStatusUpdate DEF Completed
<1>3. CASE kind = "prepare"
  <2> DEFINE status == IF project[p].design THEN "in_progress" ELSE project[p].status
  <2>1. status \in ProjectStatus /\ project[p].canonical + 1 \in 0..MaxModels
    BY <1>1, <1>3, BakeJobsAssumption DEF ProjectRow
  <2>2. Completed(p, kind) = [project[p] EXCEPT !.canonical = project[p].canonical + 1,
                                                !.status = status]
    BY <1>1, <1>3 DEF Completed, ProjectRow
  <2> HIDE DEF status
  <2>3. QED
    BY <1>1, <2>1, <2>2 DEF ProjectRow
<1>4. QED
  BY <1>2, <1>3

\* The keys recorded in a row are keys of claims.
LEMMA OutputPathsType ==
  ASSUME NEW row \in JobRow PROVE OutputPaths(row) \in SUBSET Claims
BY BakeJobsAssumption DEF JobRow, OutputPaths

LEMMA StatusWriteType ==
  ASSUME NEW p, NEW status \in ProjectStatus
  PROVE  StatusWrite(p, status) \in ProjectStatus \cup {"keep"}
BY DEF StatusWrite

\* What a request that moves to a new state leaves alone.
LEMMA MoveIs ==
  ASSUME TypeOK, NEW r \in Requests, NEW new \in RequestState, Move(r, new)
  PROVE  /\ req' \in [Requests -> RequestState]
         /\ req'[r] = new
         /\ \A q \in Requests : q # r => req'[q] = req[q]
BY DEF TypeOK, Move

\* Ending a request leaves it idle or with staging keys to delete.
LEMMA FinishIs ==
  ASSUME TypeOK, NEW r \in Requests, NEW stale \in SUBSET Claims, Finish(r, stale)
  PROVE  /\ req' \in [Requests -> RequestState]
         /\ req'[r].pc \in {"idle", "delete"}
         /\ req'[r].stale = stale
         /\ req'[r].pc = "idle" => stale = {}
         /\ \A q \in Requests : q # r => req'[q] = req[q]
<1> DEFINE new == IF stale = {} THEN Idle ELSE [Idle EXCEPT !.pc = "delete", !.stale = stale]
<1>1. /\ new \in RequestState
      /\ new.pc \in {"idle", "delete"}
      /\ new.stale = stale
      /\ new.pc = "idle" => stale = {}
  <2>1. Idle.pc = "idle" /\ Idle.stale = {}
    BY DEF Idle
  <2>2. QED
    BY <2>1, IdleType DEF RequestState
<1>2. Move(r, new)
  BY DEF Finish
<1> HIDE DEF new
<1>3. QED
  BY <1>1, <1>2, MoveIs

-----------------------------------------------------------------------------
(* Type correctness.                                                        *)

LEMMA TypeInit == Init => TypeOK
<1> SUFFICES ASSUME Init PROVE TypeOK
  OBVIOUS
<1>1. project \in [Projects -> ProjectRow]
  <2>1. ASSUME NEW m \in {0, 1} \cap (0..MaxModels)
        PROVE  [status |-> "draft", canonical |-> m, design |-> FALSE] \in ProjectRow
    BY DEF ProjectRow
  <2>2. QED
    BY <2>1 DEF Init
<1>2. SweeperIdle \in SweeperState
  BY DEF SweeperIdle, SweeperState
<1>3. QED
  BY <1>1, <1>2, IdleType, BakeJobsAssumption DEF Init, TypeOK

LEMMA TypeCreate ==
  ASSUME IInv, NEW r \in Requests, Create(r) PROVE TypeOK'
<1> USE BakeJobsAssumption
<1>a. TypeOK /\ req[r] \in RequestState /\ RequestOK(r)
  BY DEF IInv, TypeOK
<1>2. ASSUME NEW p \in Projects, TriggerRead(r, p) PROVE TypeOK'
  <2> DEFINE new == [req[r] EXCEPT !.pc = "trigger", !.in = p, !.row = NewJob(p, "bake"),
                                   !.status = StatusWrite(p, "baking")]
  <2>1. NewJob(p, "bake") \in JobRow /\ StatusWrite(p, "baking") \in ProjectStatus \cup {"keep"}
    BY <1>a, NewJobType, StatusWriteType
  <2>2. new \in RequestState
    BY <1>a, <2>1 DEF RequestState
  <2>3. req' \in [Requests -> RequestState]
    BY <1>2, <1>a, <2>2, MoveIs DEF TriggerRead
  <2>4. QED
    BY <1>2, <1>a, <2>3 DEF TriggerRead, TypeOK
<1>3. ASSUME TriggerLock(r) PROVE TypeOK'
  <2>1. [req[r] EXCEPT !.pc = "supersede"] \in RequestState
    BY <1>a DEF RequestState
  <2>2. req' \in [Requests -> RequestState]
    BY <1>3, <1>a, <2>1, MoveIs DEF TriggerLock
  <2>3. QED
    BY <1>3, <1>a, <2>2 DEF TriggerLock, TypeOK
<1>4. ASSUME NEW p \in Projects, NEW kind \in {"bake", "prepare"}, TriggerDirect(r, p, kind)
      PROVE  TypeOK'
  <2> DEFINE status == IF kind = "bake" THEN StatusWrite(p, "baking") ELSE "keep"
             new == [req[r] EXCEPT !.pc = "supersede", !.in = p, !.row = NewJob(p, kind),
                                   !.status = status]
  <2>1. NewJob(p, kind) \in JobRow /\ status \in ProjectStatus \cup {"keep"}
    BY <1>a, NewJobType, StatusWriteType
  <2>2. new \in RequestState
    BY <1>a, <2>1 DEF RequestState
  <2>3. req' \in [Requests -> RequestState]
    BY <1>4, <1>a, <2>2, MoveIs DEF TriggerDirect
  <2>4. QED
    BY <1>4, <1>a, <2>3 DEF TriggerDirect, TypeOK
<1>5. ASSUME TriggerBusy(r) PROVE TypeOK'
  <2>1. req' \in [Requests -> RequestState]
    BY <1>5, <1>a, IdleType, MoveIs DEF TriggerBusy
  <2>2. QED
    BY <1>5, <1>a, <2>1 DEF TriggerBusy, TypeOK
<1>6. ASSUME NEW j \in Jobs, TriggerCommit(r, j) PROVE TypeOK'
  <2> DEFINE old == ActiveOf(req[r].in)
             stale == UNION {OutputPaths(job[k]) : k \in old}
  <2>1. stale \in SUBSET Claims
    BY <1>a, OutputPathsType DEF TypeOK, ActiveOf
  <2>2. req' \in [Requests -> RequestState]
    BY <1>6, <1>a, <2>1, FinishIs DEF TriggerCommit
  <2>3. ASSUME NEW k \in Jobs PROVE [job[k] EXCEPT !.status = "cancelled"] \in JobRow
    BY <1>a, RowStatus DEF TypeOK
  <2>4. job' \in [Jobs -> JobRow]
    BY <1>6, <1>a, <2>3 DEF TriggerCommit, TypeOK, RequestState
  <2>5. project' \in [Projects -> ProjectRow]
    <3>1. req[r].in \in Projects /\ req[r].status \in ProjectStatus \cup {"keep"}
      BY <1>6, <1>a DEF TriggerCommit, RequestOK, RequestState
    <3>2. project[req[r].in] \in ProjectRow
      BY <1>a, <3>1 DEF TypeOK
    <3>3. Written(project[req[r].in].status, req[r].status) \in ProjectStatus
      BY <3>1, <3>2 DEF Written, ProjectRow
    <3>4. QED
      BY <1>6, <1>a, <3>2, <3>3, ProjectStatusUpdate DEF TriggerCommit, TypeOK
  <2>6. QED
    BY <1>6, <1>a, <2>2, <2>4, <2>5 DEF TriggerCommit, TypeOK
<1>7. QED
  BY <1>2, <1>3, <1>4, <1>5, <1>6 DEF Create

LEMMA TypeClaim ==
  ASSUME IInv, NEW r \in Requests, Claim(r) PROVE TypeOK'
<1> USE BakeJobsAssumption
<1>a. TypeOK /\ req[r] \in RequestState /\ RequestOK(r)
  BY DEF IInv, TypeOK
<1>1. ASSUME NEW j \in Jobs, ClaimRead(r, j) PROVE TypeOK'
  <2> DEFINE new == [req[r] EXCEPT !.pc = "claim", !.on = j,
                                   !.status = StatusWrite(ProjectOf[j], "in_progress"),
                                   !.stale = OutputPaths(job[j])]
  <2>1. /\ OutputPaths(job[j]) \in SUBSET Claims
        /\ StatusWrite(ProjectOf[j], "in_progress") \in ProjectStatus \cup {"keep"}
    BY <1>a, OutputPathsType, StatusWriteType DEF TypeOK
  <2>2. new \in RequestState
    BY <1>a, <2>1 DEF RequestState
  <2>3. req' \in [Requests -> RequestState]
    BY <1>1, <1>a, <2>2, MoveIs DEF ClaimRead
  <2>4. QED
    BY <1>1, <1>a, <2>3 DEF ClaimRead, TypeOK
<1>2. ASSUME ClaimGrant(r) PROVE TypeOK'
  <2>1. req' \in [Requests -> RequestState]
    BY <1>2, <1>a, FinishIs DEF ClaimGrant, RequestState
  <2>2. req[r].on \in Jobs /\ granted + 1 \in 0..MaxClaims
    BY <1>2, <1>a DEF ClaimGrant, RequestOK, TypeOK
  <2>c. job[req[r].on] \in JobRow
    BY <1>a, <2>2 DEF TypeOK
  <2>3. [job[req[r].on] EXCEPT !.status = "claimed", !.claim = granted + 1,
                               !.issued = granted + 1] \in JobRow
    BY <2>c, <2>2, RowClaim
  <2>4. job' \in [Jobs -> JobRow]
    BY <1>2, <1>a, <2>3 DEF ClaimGrant, TypeOK
  <2>5. QED
    BY <1>2, <1>a, <2>1, <2>2, <2>4 DEF ClaimGrant, TypeOK
<1>3. ASSUME ClaimInvalid(r) PROVE TypeOK'
  <2> DEFINE row == [job[req[r].on] EXCEPT !.status = "failed", !.claim = granted + 1,
                                           !.issued = 0]
  <2>1. req[r].on \in Jobs /\ granted + 1 \in 0..MaxClaims
    BY <1>3, <1>a DEF ClaimInvalid, RequestOK, TypeOK
  <2>c. job[req[r].on] \in JobRow /\ 0 \in 0..MaxClaims
    BY <1>a, <2>1 DEF TypeOK
  <2>2. row \in JobRow
    BY <2>c, <2>1, RowClaim
  <2> HIDE DEF row
  <2>3. [req[r] EXCEPT !.pc = "write", !.row = row] \in RequestState
    BY <1>a, <2>2 DEF RequestState
  <2>4. req' \in [Requests -> RequestState]
    BY <1>3, <1>a, <2>3, MoveIs DEF ClaimInvalid, row
  <2>5. QED
    BY <1>3, <1>a, <2>1, <2>4 DEF ClaimInvalid, TypeOK
<1>4. ASSUME ClaimLost(r) PROVE TypeOK'
  <2>1. req' \in [Requests -> RequestState]
    BY <1>4, <1>a, IdleType, MoveIs DEF ClaimLost
  <2>2. QED
    BY <1>4, <1>a, <2>1 DEF ClaimLost, TypeOK
<1>5. QED
  BY <1>1, <1>2, <1>3, <1>4 DEF Claim

LEMMA TypeReport ==
  ASSUME IInv, NEW r \in Requests, Report(r) PROVE TypeOK'
<1> USE BakeJobsAssumption
<1>a. TypeOK /\ req[r] \in RequestState /\ RequestOK(r)
  BY DEF IInv, TypeOK
<1>b. ASSUME NEW j \in Jobs
      PROVE  job[j] \in JobRow /\ OutputPaths(job[j]) \in SUBSET Claims
  BY <1>a, OutputPathsType DEF TypeOK
<1>c. req[r].pc \in {"project", "commit"} =>
        req[r].on \in Jobs /\ req[r].in \in Projects /\ req[r].token \in Claims
  BY <1>a DEF RequestOK
<1>1. ASSUME NEW j \in Jobs, NEW c \in Claims, CompleteLock(r, j, c) PROVE TypeOK'
  <2> DEFINE new == [req[r] EXCEPT !.pc = "project", !.on = j, !.in = ProjectOf[j],
                                   !.token = c]
  <2>0. ProjectOf[j] \in Projects /\ c \in 0..MaxClaims
    OBVIOUS
  <2>1. new \in RequestState
    BY <1>a, <2>0 DEF RequestState
  <2>2. req' \in [Requests -> RequestState]
    BY <1>1, <1>a, <2>1, MoveIs DEF CompleteLock
  <2>3. QED
    BY <1>1, <1>a, <2>2 DEF CompleteLock, TypeOK
<1>2. ASSUME CompleteReject(r) PROVE TypeOK'
  <2> DEFINE j == req[r].on
             p == req[r].in
  <2>1. j \in Jobs /\ p \in Projects
    BY <1>2, <1>c DEF CompleteReject
  <2>2. req' \in [Requests -> RequestState]
    BY <1>2, <1>a, <1>b, <2>1, FinishIs DEF CompleteReject
  <2>3. [job[j] EXCEPT !.status = "failed"] \in JobRow
    BY <2>1, <1>b, RowStatus
  <2>4. [project[p] EXCEPT !.status = "in_progress"] \in ProjectRow
    BY <2>1, <1>a, ProjectStatusUpdate DEF TypeOK
  <2>5. job' \in [Jobs -> JobRow] /\ project' \in [Projects -> ProjectRow]
    BY <1>2, <1>a, <2>3, <2>4 DEF CompleteReject, TypeOK
  <2>6. QED
    BY <1>2, <1>a, <2>2, <2>5 DEF CompleteReject, TypeOK
<1>3. ASSUME CompleteInvalid(r) PROVE TypeOK'
  <2>1. req' \in [Requests -> RequestState]
    BY <1>3, <1>a, IdleType, MoveIs DEF CompleteInvalid
  <2>2. QED
    BY <1>3, <1>a, <2>1 DEF CompleteInvalid, TypeOK
<1>4. ASSUME CompleteCopy(r) PROVE TypeOK'
  <2>1. [req[r] EXCEPT !.pc = "commit"] \in RequestState
    BY <1>a DEF RequestState
  <2>2. req' \in [Requests -> RequestState]
    BY <1>4, <1>a, <2>1, MoveIs DEF CompleteCopy
  <2>3. QED
    BY <1>4, <1>a, <2>2 DEF CompleteCopy, TypeOK
<1>5. ASSUME CompleteCommit(r) PROVE TypeOK'
  <2> DEFINE j == req[r].on
             p == req[r].in
  <2>1. j \in Jobs /\ p \in Projects /\ req[r].token \in Claims
    BY <1>5, <1>c DEF CompleteCommit
  <2>2. req' \in [Requests -> RequestState]
    BY <1>5, <1>a, <1>b, <2>1, FinishIs DEF CompleteCommit
  <2>3. [job[j] EXCEPT !.status = "completed"] \in JobRow
    BY <2>1, <1>b, RowStatus
  <2>4. Completed(p, job[j].kind) \in ProjectRow
    <3>1. job[j].kind \in {"bake", "prepare"}
      BY <2>1, <1>b DEF JobRow
    <3>2. job[j].kind = "prepare" => project[p].canonical < MaxModels
      BY <1>5, <1>a DEF CompleteCommit, RequestOK
    <3>3. QED
      BY <1>a, <2>1, <3>1, <3>2, CompletedType
  <2>5. job' \in [Jobs -> JobRow] /\ project' \in [Projects -> ProjectRow]
    BY <1>5, <1>a, <2>3, <2>4 DEF CompleteCommit, TypeOK
  <2>6. exports' \in Nat /\ delivered' \in [Claims -> Nat]
    BY <1>5, <1>a, <2>1 DEF CompleteCommit, TypeOK
  <2>7. QED
    BY <1>5, <1>a, <2>2, <2>5, <2>6 DEF CompleteCommit, TypeOK
<1>6. ASSUME NEW j \in Jobs, NEW c \in Claims, FailLock(r, j, c) PROVE TypeOK'
  <2> DEFINE row == [job[j] EXCEPT !.status = "failed"]
             new == [req[r] EXCEPT !.pc = "write", !.on = j,
                                   !.status = StatusWrite(ProjectOf[j], "in_progress"),
                                   !.row = row, !.stale = OutputPaths(job[j])]
  <2>1. row \in JobRow /\ StatusWrite(ProjectOf[j], "in_progress") \in ProjectStatus \cup {"keep"}
    BY <1>b, RowStatus, StatusWriteType
  <2> HIDE DEF row
  <2>2. new \in RequestState
    BY <1>a, <1>b, <2>1 DEF RequestState
  <2>3. req' \in [Requests -> RequestState]
    BY <1>6, <1>a, <2>2, MoveIs DEF FailLock, row
  <2>4. QED
    BY <1>6, <1>a, <2>3 DEF FailLock, TypeOK
<1>7. QED
  BY <1>1, <1>2, <1>3, <1>4, <1>5, <1>6 DEF Report

LEMMA TypeOverride ==
  ASSUME IInv, NEW r \in Requests, Override(r) PROVE TypeOK'
<1> USE BakeJobsAssumption
<1>a. TypeOK /\ req[r] \in RequestState /\ RequestOK(r)
  BY DEF IInv, TypeOK
<1>b. ASSUME NEW j \in Jobs
      PROVE  job[j] \in JobRow /\ OutputPaths(job[j]) \in SUBSET Claims
  BY <1>a, OutputPathsType DEF TypeOK
<1>c. ASSUME NEW j \in Jobs, NEW row \in JobRow, NEW new, Move(r, new),
             new = [req[r] EXCEPT !.pc = "write", !.row = row],
             UNCHANGED <<job, project, exports, lease, granted, staged, sweeper, delivered>>
      PROVE  TypeOK'
  <2>1. new \in RequestState
    BY <1>a, <1>c DEF RequestState
  <2>2. req' \in [Requests -> RequestState]
    BY <1>a, <1>c, <2>1, MoveIs
  <2>3. QED
    BY <1>a, <1>c, <2>2 DEF TypeOK
<1>1. ASSUME NEW j \in Jobs, CancelRead(r, j) PROVE TypeOK'
  <2>1. PICK status \in {StatusWrite(ProjectOf[j], "in_progress"), "keep"} :
           Move(r, [req[r] EXCEPT !.pc = "cancel", !.on = j, !.row = job[j],
                                  !.status = status, !.stale = OutputPaths(job[j])])
    BY <1>1 DEF CancelRead
  <2>2. status \in ProjectStatus \cup {"keep"}
    BY StatusWriteType
  <2>3. [req[r] EXCEPT !.pc = "cancel", !.on = j, !.row = job[j],
                       !.status = status, !.stale = OutputPaths(job[j])] \in RequestState
    BY <1>a, <1>b, <2>2 DEF RequestState
  <2>4. req' \in [Requests -> RequestState]
    BY <1>a, <2>1, <2>3, MoveIs
  <2>5. QED
    BY <1>1, <1>a, <2>4 DEF CancelRead, TypeOK
<1>2. ASSUME CancelFlush(r) PROVE TypeOK'
  <2> DEFINE j == req[r].on
             status == Column(job[j].status, req[r].row.status, "cancelled")
  <2>1. j \in Jobs
    BY <1>2, <1>a DEF CancelFlush, RequestOK
  <2>2. status \in JobStatus
    BY <1>b, <2>1 DEF Column, JobRow
  <2>3. [job[j] EXCEPT !.status = status] \in JobRow
    BY <1>b, <2>1, <2>2, RowStatus
  <2>4. QED
    BY <1>2, <1>c, <2>1, <2>3 DEF CancelFlush
<1>3. ASSUME NEW j \in Jobs, RetryRead(r, j) PROVE TypeOK'
  <2>1. PICK status \in {StatusWrite(ProjectOf[j], "baking"), "keep"} :
           Move(r, [req[r] EXCEPT !.pc = "requeue", !.on = j, !.row = job[j],
                                  !.status = status])
    BY <1>3 DEF RetryRead
  <2>2. status \in ProjectStatus \cup {"keep"}
    BY StatusWriteType
  <2>3. [req[r] EXCEPT !.pc = "requeue", !.on = j, !.row = job[j],
                       !.status = status] \in RequestState
    BY <1>a, <1>b, <2>2 DEF RequestState
  <2>4. req' \in [Requests -> RequestState]
    BY <1>a, <2>1, <2>3, MoveIs
  <2>5. QED
    BY <1>3, <1>a, <2>4 DEF RetryRead, TypeOK
<1>4. ASSUME RetryFlush(r) PROVE TypeOK'
  <2> DEFINE j == req[r].on
             read == req[r].row
             status == Column(job[j].status, read.status, "awaiting_client")
             claim == Column(job[j].claim, read.claim, 0)
             issued == Column(job[j].issued, read.issued, 0)
  <2>1. j \in Jobs
    BY <1>4, <1>a DEF RetryFlush, RequestOK
  <2>2. status \in JobStatus /\ claim \in 0..MaxClaims /\ issued \in 0..MaxClaims
    BY <1>b, <2>1 DEF Column, JobRow
  <2> HIDE DEF status, claim, issued
  <2>3. [job[j] EXCEPT !.status = status, !.claim = claim, !.issued = issued] \in JobRow
    BY <1>b, <2>1, <2>2, RowClaim
  <2>4. QED
    BY <1>4, <1>c, <2>1, <2>3 DEF RetryFlush, status, claim, issued
<1>5. ASSUME RetryConflict(r) PROVE TypeOK'
  <2>1. req' \in [Requests -> RequestState]
    BY <1>5, <1>a, IdleType, MoveIs DEF RetryConflict
  <2>2. QED
    BY <1>5, <1>a, <2>1 DEF RetryConflict, TypeOK
<1>6. QED
  BY <1>1, <1>2, <1>3, <1>4, <1>5 DEF Override

LEMMA TypeClose ==
  ASSUME IInv, NEW r \in Requests, Close(r) PROVE TypeOK'
<1> USE BakeJobsAssumption
<1>a. TypeOK /\ req[r] \in RequestState /\ RequestOK(r)
  BY DEF IInv, TypeOK
<1>1. ASSUME WriteCommit(r) PROVE TypeOK'
  <2> DEFINE j == req[r].on
             p == ProjectOf[j]
  <2>1. j \in Jobs /\ p \in Projects /\ req[r].row \in JobRow /\ req[r].stale \in SUBSET Claims
        /\ req[r].status \in ProjectStatus \cup {"keep"}
    BY <1>1, <1>a DEF WriteCommit, RequestOK, RequestState
  <2>2. req' \in [Requests -> RequestState]
    BY <1>1, <1>a, <2>1, FinishIs DEF WriteCommit
  <2>3. project[p] \in ProjectRow /\ Written(project[p].status, req[r].status) \in ProjectStatus
    BY <1>a, <2>1 DEF TypeOK, Written, ProjectRow
  <2>4. [project[p] EXCEPT !.status = Written(project[p].status, req[r].status)] \in ProjectRow
    BY <2>3, ProjectStatusUpdate
  <2>5. job' \in [Jobs -> JobRow] /\ project' \in [Projects -> ProjectRow]
    BY <1>1, <1>a, <2>1, <2>4 DEF WriteCommit, TypeOK
  <2>6. QED
    BY <1>1, <1>a, <2>2, <2>5 DEF WriteCommit, TypeOK
<1>2. ASSUME DeleteStaging(r) \/ Abort(r) PROVE TypeOK'
  <2>1. req' \in [Requests -> RequestState]
    BY <1>2, <1>a, IdleType, MoveIs DEF DeleteStaging, Abort
  <2>2. QED
    BY <1>2, <1>a, <2>1 DEF DeleteStaging, Abort, TypeOK
<1>3. QED
  BY <1>1, <1>2 DEF Close

LEMMA TypeSweep ==
  ASSUME IInv, Sweep PROVE TypeOK'
<1>a. TypeOK /\ sweeper \in SweeperState
  BY DEF IInv, TypeOK
<1>b. SweeperIdle \in SweeperState
  BY DEF SweeperIdle, SweeperState
<1>1. ASSUME SweepUpdate PROVE TypeOK'
  <2> DEFINE stale == UNION {OutputPaths(job[j]) : j \in Abandoned}
  <2>1. stale \in SUBSET Claims /\ Abandoned \in SUBSET Jobs
    BY <1>a, OutputPathsType DEF TypeOK, Abandoned
  <2> HIDE DEF stale
  <2>2. [pc |-> "write", swept |-> Abandoned, stale |-> stale] \in SweeperState
    BY <2>1 DEF SweeperState
  <2>3. QED
    BY <1>1, <1>a, <2>2 DEF SweepUpdate, TypeOK, stale
<1>2. ASSUME SweepCommit PROVE TypeOK'
  <2>1. [sweeper EXCEPT !.pc = "delete"] \in SweeperState
    BY <1>a DEF SweeperState
  <2>2. ASSUME NEW j \in Jobs PROVE [job[j] EXCEPT !.status = "failed"] \in JobRow
    BY <1>a, RowStatus DEF TypeOK
  <2>3. ASSUME NEW p \in Projects
        PROVE  [project[p] EXCEPT !.status = "in_progress"] \in ProjectRow
    BY <1>a, ProjectStatusUpdate DEF TypeOK
  <2>4. job' \in [Jobs -> JobRow] /\ project' \in [Projects -> ProjectRow]
    BY <1>2, <1>a, <2>2, <2>3 DEF SweepCommit, TypeOK
  <2>5. QED
    BY <1>2, <1>a, <2>1, <2>4 DEF SweepCommit, TypeOK
<1>3. ASSUME SweepDelete \/ SweepAbort PROVE TypeOK'
  BY <1>3, <1>a, <1>b DEF SweepDelete, SweepAbort, TypeOK
<1>4. QED
  BY <1>1, <1>2, <1>3 DEF Sweep

LEMMA TypeEnvironment ==
  ASSUME IInv, Environment PROVE TypeOK'
<1> USE BakeJobsAssumption
<1>a. TypeOK
  BY DEF IInv
<1>1. ASSUME NEW p \in Projects, SaveDesign(p) PROVE TypeOK'
  <2>1. project[p] \in ProjectRow
    BY <1>a DEF TypeOK
  <2>2. [project[p] EXCEPT !.design = TRUE, !.status = "in_progress"] \in ProjectRow
    BY <2>1 DEF ProjectRow
  <2>3. QED
    BY <1>1, <1>a, <2>2 DEF SaveDesign, TypeOK
<1>2. ASSUME NEW p \in Projects, ReplaceModel(p) PROVE TypeOK'
  <2>1. project[p] \in ProjectRow
    BY <1>a DEF TypeOK
  <2>2. [project[p] EXCEPT !.canonical = project[p].canonical + 1] \in ProjectRow
    BY <1>2, <2>1 DEF ProjectRow, ReplaceModel
  <2>3. project' \in [Projects -> ProjectRow]
    BY <1>2, <1>a, <2>1, <2>2 DEF ReplaceModel, TypeOK, ProjectRow
  <2>4. QED
    BY <1>2, <1>a, <2>3 DEF ReplaceModel, TypeOK
<1>3. ASSUME NEW c \in Claims, Upload(c) \/ LeaseTick(c) PROVE TypeOK'
  BY <1>3, <1>a DEF Upload, LeaseTick, TypeOK
<1>4. QED
  BY <1>1, <1>2, <1>3 DEF Environment

\* Every step keeps every variable in its domain.
LEMMA TypeNext == ASSUME IInv, [Next]_vars PROVE TypeOK'
<1>1. CASE UNCHANGED vars
  BY <1>1 DEF vars, IInv, TypeOK
<1>2. QED
  BY <1>1, TypeCreate, TypeClaim, TypeReport, TypeOverride, TypeClose, TypeSweep,
     TypeEnvironment DEF Next

-----------------------------------------------------------------------------
(* Steps of a request that change no committed row.                         *)

\* A request that moves to a state which holds only rows that are free, is consistent with
\* the rows as they are and activates a job only when nothing clashes keeps the invariant.
LEMMA QuietStep ==
  ASSUME IInv, TypeOK', NEW r \in Requests, NEW new \in RequestState, Move(r, new),
         UNCHANGED <<job, project, delivered, sweeper>>, granted <= granted',
         new.pc \in {"project", "commit", "write"} => HoldsJob(r, new.on) \/ JobFree(new.on),
         new.pc \in {"supersede", "commit"} => HoldsProject(r, new.in) \/ ProjectFree(new.in),
         new.pc = "write" /\ new.row.status \in Active =>
             ~ActiveClash(new.on) /\ ~PendingClash(new.on),
         RequestOK(r)', StaleOK(r)'
  PROVE  IInv'
<1>1. /\ req'[r] = new
      /\ \A q \in Requests : q # r => req'[q] = req[q]
  BY MoveIs DEF IInv
<1>2. LockInv'
  <2>1. ASSUME NEW q \in Requests, NEW j \in Jobs, HoldsJob(r, j)', HoldsJob(q, j)' PROVE q = r
    <3>1. SUFFICES ASSUME q # r PROVE FALSE
      OBVIOUS
    <3>2. HoldsJob(q, j) /\ new.on = j /\ new.pc \in {"project", "commit", "write"}
      BY <1>1, <2>1, <3>1 DEF HoldsJob
    <3>3. QED
      BY <3>1, <3>2 DEF IInv, LockInv, JobFree
  <2>2. ASSUME NEW q \in Requests, NEW p \in Projects, HoldsProject(r, p)', HoldsProject(q, p)'
        PROVE  q = r
    <3>1. SUFFICES ASSUME q # r PROVE FALSE
      OBVIOUS
    <3>2. HoldsProject(q, p) /\ new.in = p /\ new.pc \in {"supersede", "commit"}
      BY <1>1, <2>2, <3>1 DEF HoldsProject
    <3>3. QED
      BY <3>1, <3>2 DEF IInv, LockInv, ProjectFree
  <2>3. ASSUME NEW q \in Requests, NEW j \in Jobs, HoldsJob(q, j)' PROVE ~SweeperHolds(j)'
    <3>1. CASE q = r
      BY <1>1, <2>3, <3>1 DEF HoldsJob, SweeperHolds, JobFree, IInv, LockInv
    <3>2. CASE q # r
      BY <1>1, <2>3, <3>2 DEF HoldsJob, SweeperHolds, IInv, LockInv
    <3>3. QED
      BY <3>1, <3>2
  <2>4. ASSUME NEW q \in Requests, NEW u \in Requests, NEW j \in Jobs,
               HoldsJob(q, j)', HoldsJob(u, j)'
        PROVE  q = u
    <3>1. CASE q = r \/ u = r
      BY <2>1, <2>4, <3>1
    <3>2. CASE q # r /\ u # r
      BY <1>1, <2>4, <3>2 DEF HoldsJob, IInv, LockInv
    <3>3. QED
      BY <3>1, <3>2
  <2>5. ASSUME NEW q \in Requests, NEW u \in Requests, NEW p \in Projects,
               HoldsProject(q, p)', HoldsProject(u, p)'
        PROVE  q = u
    <3>1. CASE q = r \/ u = r
      BY <2>2, <2>5, <3>1
    <3>2. CASE q # r /\ u # r
      BY <1>1, <2>5, <3>2 DEF HoldsProject, IInv, LockInv
    <3>3. QED
      BY <3>1, <3>2
  <2>6. QED
    BY <2>3, <2>4, <2>5 DEF LockInv
<1>3. ASSUME NEW q \in Requests PROVE RequestOK(q)'
  <2>1. CASE q = r
    BY <2>1
  <2>2. CASE q # r
    BY <1>1, <2>2 DEF RequestOK, HoldsClaim, IInv
  <2>3. QED
    BY <2>1, <2>2
<1>4. ClaimInv'
  BY DEF IInv, ClaimInv, TypeOK
<1>5. ActiveInv'
  <2>1. OneActiveJob'
    BY DEF IInv, ActiveInv, OneActiveJob
  <2>2. ASSUME NEW q \in Requests, Activates(q)' PROVE ~ActiveClash(req[q].on)'
    <3>1. CASE q = r
      BY <1>1, <2>2, <3>1 DEF Activates, ActiveClash
    <3>2. CASE q # r
      BY <1>1, <2>2, <3>2 DEF Activates, ActiveClash, IInv, ActiveInv
    <3>3. QED
      BY <3>1, <3>2
  <2>3. ASSUME NEW q \in Requests, Activates(r)', Activates(q)', q # r
        PROVE  ProjectOf[req'[r].on] # ProjectOf[req'[q].on]
    <3>1. new.pc = "write" /\ new.row.status \in Active /\ Activates(q)
      BY <1>1, <2>3 DEF Activates
    <3>2. CASE req[q].on = new.on
      <4>1. new.on \in Jobs /\ HoldsJob(q, new.on)
        BY <1>1, <3>1, <3>2 DEF RequestOK, HoldsJob, Activates
      <4>2. QED
        BY <2>3, <3>1, <4>1 DEF JobFree, IInv, LockInv
    <3>3. CASE req[q].on # new.on
      BY <1>1, <2>3, <3>1, <3>3 DEF PendingClash, Activates
    <3>4. QED
      BY <3>2, <3>3
  <2>4. ASSUME NEW q \in Requests, NEW u \in Requests, Activates(q)', Activates(u)',
               ProjectOf[req'[q].on] = ProjectOf[req'[u].on]
        PROVE  q = u
    <3>1. CASE q = r \/ u = r
      BY <2>3, <2>4, <3>1
    <3>2. CASE q # r /\ u # r
      BY <1>1, <2>4, <3>2 DEF Activates, IInv, ActiveInv
    <3>3. QED
      BY <3>1, <3>2
  <2>5. QED
    BY <2>1, <2>2, <2>4 DEF ActiveInv
<1>6. StagingInv'
  <2>1. ASSUME NEW q \in Requests PROVE StaleOK(q)'
    <3>1. CASE q = r
      BY <3>1
    <3>2. CASE q # r
      <4>1. StaleOK(q) /\ req'[q] = req[q] /\ req[q].stale \subseteq Nat
        BY <1>1, <3>2 DEF IInv, StagingInv, TypeOK, RequestState
      <4>2. QED
        BY <4>1 DEF StaleOK, Unclaimed, IInv, TypeOK
    <3>3. QED
      BY <3>1, <3>2
  <2>2. SweeperOK'
    BY DEF IInv, StagingInv, SweeperOK, Unclaimed, TypeOK, SweeperState
  <2>3. \A j \in Jobs : job'[j].issued <= granted'
    BY DEF IInv, StagingInv, TypeOK, JobRow
  <2>4. QED
    BY <2>1, <2>2, <2>3 DEF StagingInv, IInv
<1>7. SweptInv'
  BY DEF IInv, SweptInv, SweeperHolds
<1>8. QED
  BY <1>2, <1>3, <1>4, <1>5, <1>6, <1>7 DEF IInv

\* A request that ends without a commit, for whatever reason.
LEMMA GiveUp ==
  ASSUME IInv, TypeOK', NEW r \in Requests, Move(r, Idle),
         UNCHANGED <<job, project, delivered, sweeper, granted>>
  PROVE  IInv'
<1>1. Idle.pc = "idle" /\ Idle.stale = {}
  BY DEF Idle
<1>2. req'[r] = Idle
  BY IdleType, MoveIs DEF IInv
<1>3. RequestOK(r)' /\ StaleOK(r)'
  BY <1>1, <1>2 DEF RequestOK, StaleOK
<1>4. granted <= granted'
  BY DEF IInv, TypeOK
<1>5. QED
  BY <1>1, <1>3, <1>4, IdleType, QuietStep

LEMMA QuietCreate ==
  ASSUME IInv, TypeOK', NEW r \in Requests,
         \/ \E p \in Projects : TriggerRead(r, p)
         \/ TriggerLock(r)
         \/ \E p \in Projects, kind \in {"bake", "prepare"} : TriggerDirect(r, p, kind)
         \/ TriggerBusy(r)
  PROVE  IInv'
<1>a. TypeOK /\ req[r] \in RequestState /\ RequestOK(r) /\ StaleOK(r) /\ granted \in Nat
  BY DEF IInv, TypeOK, StagingInv
<1>b. ASSUME NEW p \in Projects, NEW kind \in {"bake", "prepare"}
      PROVE  /\ NewJob(p, kind) \in JobRow
             /\ NewJob(p, kind).status = "awaiting_client" /\ NewJob(p, kind).issued = 0
  BY <1>a, NewJobType DEF NewJob
<1>1. ASSUME NEW p \in Projects, TriggerRead(r, p) PROVE IInv'
  <2> DEFINE new == [req[r] EXCEPT !.pc = "trigger", !.in = p, !.row = NewJob(p, "bake"),
                                   !.status = StatusWrite(p, "baking")]
  <2>1. /\ new \in RequestState /\ new.pc = "trigger" /\ new.in = p
        /\ new.row = NewJob(p, "bake") /\ new.stale = req[r].stale
    BY <1>a, <1>b, StatusWriteType DEF RequestState
  <2>2. Move(r, new) /\ UNCHANGED <<job, project, delivered, sweeper, granted>>
    BY <1>1 DEF TriggerRead
  <2> HIDE DEF new
  <2>3. req'[r] = new
    BY <1>a, <2>1, <2>2, MoveIs
  <2>4. req[r].stale = {}
    BY <1>1, <1>a DEF TriggerRead, RequestOK
  <2>5. RequestOK(r)' /\ StaleOK(r)'
    BY <1>b, <2>1, <2>3, <2>4 DEF RequestOK, StaleOK
  <2>6. QED
    BY <1>a, <2>1, <2>2, <2>5, QuietStep
<1>2. ASSUME TriggerLock(r) PROVE IInv'
  <2> DEFINE new == [req[r] EXCEPT !.pc = "supersede"]
  <2>1. /\ new \in RequestState /\ new.pc = "supersede" /\ new.in = req[r].in
        /\ new.row = req[r].row /\ new.stale = req[r].stale
    BY <1>a DEF RequestState
  <2>2. Move(r, new) /\ UNCHANGED <<job, project, delivered, sweeper, granted>>
        /\ ProjectFree(new.in) /\ req[r].pc = "trigger"
    BY <1>2 DEF TriggerLock
  <2> HIDE DEF new
  <2>3. req'[r] = new
    BY <1>a, <2>1, <2>2, MoveIs
  <2>4. RequestOK(r)' /\ StaleOK(r)'
    BY <1>a, <2>1, <2>2, <2>3 DEF RequestOK, StaleOK
  <2>5. QED
    BY <1>a, <2>1, <2>2, <2>4, QuietStep
<1>3. ASSUME NEW p \in Projects, NEW kind \in {"bake", "prepare"}, TriggerDirect(r, p, kind)
      PROVE  IInv'
  <2> DEFINE status == IF kind = "bake" THEN StatusWrite(p, "baking") ELSE "keep"
             new == [req[r] EXCEPT !.pc = "supersede", !.in = p, !.row = NewJob(p, kind),
                                   !.status = status]
  <2>0. status \in ProjectStatus \cup {"keep"}
    BY StatusWriteType
  <2> HIDE DEF status
  <2>1. /\ new \in RequestState /\ new.pc = "supersede" /\ new.in = p
        /\ new.row = NewJob(p, kind) /\ new.stale = req[r].stale
    BY <1>a, <1>b, <2>0 DEF RequestState
  <2>2. Move(r, new) /\ UNCHANGED <<job, project, delivered, sweeper, granted>>
        /\ ProjectFree(p) /\ req[r].pc = "idle"
    BY <1>3 DEF TriggerDirect, status
  <2> HIDE DEF new
  <2>3. req'[r] = new
    BY <1>a, <2>1, <2>2, MoveIs
  <2>4. req[r].stale = {}
    BY <2>2, <1>a DEF RequestOK
  <2>5. RequestOK(r)' /\ StaleOK(r)'
    BY <1>b, <2>1, <2>3, <2>4 DEF RequestOK, StaleOK
  <2>6. QED
    BY <1>a, <2>1, <2>2, <2>5, QuietStep
<1>4. ASSUME TriggerBusy(r) PROVE IInv'
  BY <1>4, GiveUp DEF TriggerBusy
<1>5. QED
  BY <1>1, <1>2, <1>3, <1>4

LEMMA QuietClaim ==
  ASSUME IInv, TypeOK', NEW r \in Requests,
         (\E j \in Jobs : ClaimRead(r, j)) \/ ClaimInvalid(r) \/ ClaimLost(r)
  PROVE  IInv'
<1>a. TypeOK /\ req[r] \in RequestState /\ RequestOK(r) /\ StaleOK(r) /\ granted \in Nat
  BY DEF IInv, TypeOK, StagingInv
<1>1. ASSUME NEW j \in Jobs, ClaimRead(r, j) PROVE IInv'
  <2> DEFINE new == [req[r] EXCEPT !.pc = "claim", !.on = j,
                                   !.status = StatusWrite(ProjectOf[j], "in_progress"),
                                   !.stale = OutputPaths(job[j])]
  <2>0. OutputPaths(job[j]) \in SUBSET Claims
    BY <1>a, OutputPathsType DEF TypeOK
  <2>1. /\ new \in RequestState /\ new.pc = "claim" /\ new.on = j
        /\ new.stale = OutputPaths(job[j])
    BY <1>a, <2>0, StatusWriteType DEF RequestState
  <2>2. Move(r, new) /\ UNCHANGED <<job, project, delivered, sweeper, granted>>
        /\ job[j].status # "absent"
    BY <1>1 DEF ClaimRead
  <2> HIDE DEF new
  <2>3. req'[r] = new
    BY <1>a, <2>1, <2>2, MoveIs
  <2>4. RequestOK(r)'
    BY <2>1, <2>2, <2>3 DEF RequestOK
  <2>5. StaleOK(r)'
    BY <2>1, <2>2, <2>3 DEF StaleOK, OutputPaths, IInv, StagingInv
  <2>6. QED
    BY <1>a, <2>1, <2>2, <2>4, <2>5, QuietStep
<1>2. ASSUME ClaimInvalid(r) PROVE IInv'
  <2> DEFINE j == req[r].on
             row == [job[j] EXCEPT !.status = "failed", !.claim = granted + 1, !.issued = 0]
             new == [req[r] EXCEPT !.pc = "write", !.row = row]
  <2>0. j \in Jobs /\ job[j].status # "absent" /\ JobFree(j) /\ req[r].pc = "claim"
        /\ granted + 1 \in 0..MaxClaims /\ granted' = granted + 1
    BY <1>2, <1>a, BakeJobsAssumption DEF ClaimInvalid, RequestOK, TypeOK
  <2>1. row \in JobRow /\ row.status = "failed" /\ row.issued = 0
    <3>1. job[j] \in JobRow /\ 0 \in 0..MaxClaims
      BY <1>a, <2>0, BakeJobsAssumption DEF TypeOK
    <3>2. QED
      BY <2>0, <3>1 DEF JobRow
  <2> HIDE DEF row
  <2>2. new \in RequestState /\ new.pc = "write" /\ new.on = j /\ new.row = row
        /\ new.stale = req[r].stale
    BY <1>a, <2>1 DEF RequestState
  <2>3. Move(r, new) /\ UNCHANGED <<job, project, delivered, sweeper>>
    BY <1>2 DEF ClaimInvalid, row
  <2> HIDE DEF new
  <2>4. req'[r] = new
    BY <1>a, <2>2, <2>3, MoveIs
  <2>5. RequestOK(r)'
    BY <2>0, <2>1, <2>2, <2>3, <2>4 DEF RequestOK
  <2>6. StaleOK(r)'
    <3>1. ASSUME NEW c \in req[r].stale
          PROVE  /\ c <= granted + 1
                 /\ \A k \in Jobs : k # j => job[k].issued # c
      <4>1. c \in Claims
        BY <1>a DEF RequestState
      <4>2. c <= granted /\ \A k \in Jobs : k # j => job[k].issued # c
        BY <1>a, <2>0 DEF StaleOK
      <4>3. QED
        BY <1>a, <4>1, <4>2
    <3>2. QED
      BY <2>0, <2>2, <2>3, <2>4, <3>1 DEF StaleOK
  <2>7. QED
    BY <1>a, <2>0, <2>1, <2>2, <2>3, <2>5, <2>6, QuietStep
<1>3. ASSUME ClaimLost(r) PROVE IInv'
  BY <1>3, GiveUp DEF ClaimLost
<1>4. QED
  BY <1>1, <1>2, <1>3

LEMMA QuietReport ==
  ASSUME IInv, TypeOK', NEW r \in Requests,
         \/ \E j \in Jobs, c \in Claims : CompleteLock(r, j, c) \/ FailLock(r, j, c)
         \/ CompleteInvalid(r) \/ CompleteCopy(r)
  PROVE  IInv'
<1>a. TypeOK /\ req[r] \in RequestState /\ RequestOK(r) /\ StaleOK(r) /\ granted \in Nat
  BY DEF IInv, TypeOK, StagingInv
<1>1. ASSUME NEW j \in Jobs, NEW c \in Claims, CompleteLock(r, j, c) PROVE IInv'
  <2> DEFINE new == [req[r] EXCEPT !.pc = "project", !.on = j, !.in = ProjectOf[j],
                                   !.token = c]
  <2>0. ProjectOf[j] \in Projects /\ c \in 0..MaxClaims
    BY BakeJobsAssumption
  <2>1. /\ new \in RequestState /\ new.pc = "project" /\ new.on = j /\ new.in = ProjectOf[j]
        /\ new.token = c /\ new.stale = req[r].stale
    BY <1>a, <2>0 DEF RequestState
  <2>2. /\ Move(r, new) /\ UNCHANGED <<job, project, delivered, sweeper, granted>>
        /\ HoldsClaim(j, c) /\ JobFree(j) /\ req[r].pc = "idle"
    BY <1>1 DEF CompleteLock
  <2> HIDE DEF new
  <2>3. req'[r] = new
    BY <1>a, <2>1, <2>2, MoveIs
  <2>4. req[r].stale = {}
    BY <1>a, <2>2 DEF RequestOK
  <2>5. RequestOK(r)' /\ StaleOK(r)'
    BY <2>1, <2>2, <2>3, <2>4 DEF RequestOK, StaleOK, HoldsClaim
  <2>6. QED
    BY <1>a, <2>1, <2>2, <2>5, QuietStep
<1>2. ASSUME NEW j \in Jobs, NEW c \in Claims, FailLock(r, j, c) PROVE IInv'
  <2> DEFINE row == [job[j] EXCEPT !.status = "failed"]
             new == [req[r] EXCEPT !.pc = "write", !.on = j,
                                   !.status = StatusWrite(ProjectOf[j], "in_progress"),
                                   !.row = row, !.stale = OutputPaths(job[j])]
  <2>1. /\ row \in JobRow /\ row.status = "failed" /\ row.issued = job[j].issued
        /\ OutputPaths(job[j]) \in SUBSET Claims
    <3>1. job[j] \in JobRow
      BY <1>a DEF TypeOK
    <3>2. QED
      BY <3>1, RowStatus, OutputPathsType
  <2> HIDE DEF row
  <2>2. /\ new \in RequestState /\ new.pc = "write" /\ new.on = j /\ new.row = row
        /\ new.stale = OutputPaths(job[j])
    BY <1>a, <2>1, StatusWriteType DEF RequestState
  <2>3. /\ Move(r, new) /\ UNCHANGED <<job, project, delivered, sweeper, granted>>
        /\ HoldsClaim(j, c) /\ JobFree(j)
    BY <1>2 DEF FailLock, row
  <2> HIDE DEF new
  <2>4. req'[r] = new
    BY <1>a, <2>2, <2>3, MoveIs
  <2>5. RequestOK(r)'
    BY <2>1, <2>2, <2>3, <2>4 DEF RequestOK, HoldsClaim
  <2>6. StaleOK(r)'
    BY <2>2, <2>3, <2>4 DEF StaleOK, OutputPaths, IInv, StagingInv
  <2>7. QED
    BY <1>a, <2>1, <2>2, <2>3, <2>5, <2>6, QuietStep
<1>3. ASSUME CompleteInvalid(r) PROVE IInv'
  BY <1>3, GiveUp DEF CompleteInvalid
<1>4. ASSUME CompleteCopy(r) PROVE IInv'
  <2> DEFINE new == [req[r] EXCEPT !.pc = "commit"]
  <2>1. /\ new \in RequestState /\ new.pc = "commit" /\ new.in = req[r].in
        /\ new.on = req[r].on /\ new.token = req[r].token /\ new.stale = req[r].stale
    BY <1>a DEF RequestState
  <2>2. /\ Move(r, new) /\ UNCHANGED <<job, project, delivered, sweeper, granted>>
        /\ ProjectFree(new.in) /\ req[r].pc = "project"
        /\ job[new.on].kind = "bake" => project[new.in].canonical = job[new.on].src
        /\ job[new.on].kind = "prepare" => project[new.in].canonical < MaxModels
    BY <1>4, <2>1 DEF CompleteCopy
  <2> HIDE DEF new
  <2>3. req'[r] = new
    BY <1>a, <2>1, <2>2, MoveIs
  <2>4. RequestOK(r)'
    BY <1>a, <2>1, <2>2, <2>3 DEF RequestOK, HoldsClaim
  <2>5. StaleOK(r)'
    BY <1>a, <2>1, <2>2, <2>3 DEF RequestOK, StaleOK
  <2>6. HoldsJob(r, new.on)
    BY <2>1, <2>2 DEF HoldsJob
  <2>7. QED
    BY <1>a, <2>1, <2>2, <2>4, <2>5, <2>6, QuietStep
<1>5. QED
  BY <1>1, <1>2, <1>3, <1>4

LEMMA QuietOverride ==
  ASSUME IInv, TypeOK', NEW r \in Requests, Override(r) PROVE IInv'
<1>a. TypeOK /\ req[r] \in RequestState /\ RequestOK(r) /\ StaleOK(r) /\ granted \in Nat
  BY DEF IInv, TypeOK, StagingInv
<1>b. ASSUME NEW j \in Jobs
      PROVE  job[j] \in JobRow /\ OutputPaths(job[j]) \in SUBSET Claims
  BY <1>a, OutputPathsType DEF TypeOK
<1>1. ASSUME NEW j \in Jobs, CancelRead(r, j) PROVE IInv'
  <2>1. PICK status \in {StatusWrite(ProjectOf[j], "in_progress"), "keep"} :
           Move(r, [req[r] EXCEPT !.pc = "cancel", !.on = j, !.row = job[j],
                                  !.status = status, !.stale = OutputPaths(job[j])])
    BY <1>1 DEF CancelRead
  <2> DEFINE new == [req[r] EXCEPT !.pc = "cancel", !.on = j, !.row = job[j],
                                   !.status = status, !.stale = OutputPaths(job[j])]
  <2>2. status \in ProjectStatus \cup {"keep"}
    BY StatusWriteType
  <2>3. /\ new \in RequestState /\ new.pc = "cancel" /\ new.on = j /\ new.row = job[j]
        /\ new.stale = OutputPaths(job[j])
    BY <1>a, <1>b, <2>2 DEF RequestState
  <2>4. /\ Move(r, new) /\ UNCHANGED <<job, project, delivered, sweeper, granted>>
        /\ job[j].status \in Active
    BY <1>1, <2>1 DEF CancelRead
  <2> HIDE DEF new
  <2>5. req'[r] = new
    BY <1>a, <2>3, <2>4, MoveIs
  <2>6. RequestOK(r)'
    BY <2>3, <2>4, <2>5 DEF RequestOK
  <2>7. StaleOK(r)'
    BY <2>3, <2>4, <2>5 DEF StaleOK, OutputPaths, IInv, StagingInv
  <2>8. QED
    BY <1>a, <2>3, <2>4, <2>6, <2>7, QuietStep
<1>2. ASSUME CancelFlush(r) PROVE IInv'
  <2> DEFINE j == req[r].on
             status == Column(job[j].status, req[r].row.status, "cancelled")
             row == [job[j] EXCEPT !.status = status]
             new == [req[r] EXCEPT !.pc = "write", !.row = row]
  <2>1. j \in Jobs /\ req[r].pc = "cancel" /\ JobFree(j) /\ job[j].status # "absent"
        /\ req[r].row.status \in Active
    BY <1>2, <1>a DEF CancelFlush, RequestOK
  <2>2. status = "cancelled"
    BY <2>1 DEF Column
  <2>3. row \in JobRow /\ row.status = "cancelled" /\ row.issued = job[j].issued
    BY <1>b, <2>1, <2>2, RowStatus
  <2>4. Move(r, new) /\ UNCHANGED <<job, project, delivered, sweeper, granted>>
    BY <1>2 DEF CancelFlush
  <2> HIDE DEF status, row
  <2>5. /\ new \in RequestState /\ new.pc = "write" /\ new.on = j /\ new.row = row
        /\ new.stale = req[r].stale
    BY <1>a, <2>3 DEF RequestState
  <2> HIDE DEF new
  <2>6. req'[r] = new
    BY <1>a, <2>4, <2>5, MoveIs
  <2>7. RequestOK(r)'
    BY <2>1, <2>3, <2>4, <2>5, <2>6 DEF RequestOK
  <2>8. StaleOK(r)'
    BY <1>a, <2>1, <2>4, <2>5, <2>6 DEF StaleOK
  <2>9. QED
    BY <1>a, <2>1, <2>3, <2>4, <2>5, <2>7, <2>8, QuietStep
<1>3. ASSUME NEW j \in Jobs, RetryRead(r, j) PROVE IInv'
  <2>1. PICK status \in {StatusWrite(ProjectOf[j], "baking"), "keep"} :
           Move(r, [req[r] EXCEPT !.pc = "requeue", !.on = j, !.row = job[j],
                                  !.status = status])
    BY <1>3 DEF RetryRead
  <2> DEFINE new == [req[r] EXCEPT !.pc = "requeue", !.on = j, !.row = job[j],
                                   !.status = status]
  <2>2. status \in ProjectStatus \cup {"keep"}
    BY StatusWriteType
  <2>3. /\ new \in RequestState /\ new.pc = "requeue" /\ new.on = j /\ new.row = job[j]
        /\ new.stale = req[r].stale
    BY <1>a, <1>b, <2>2 DEF RequestState
  <2>4. /\ Move(r, new) /\ UNCHANGED <<job, project, delivered, sweeper, granted>>
        /\ job[j].status = "failed" /\ req[r].pc = "idle"
    BY <1>3, <2>1 DEF RetryRead
  <2> HIDE DEF new
  <2>5. req'[r] = new
    BY <1>a, <2>3, <2>4, MoveIs
  <2>6. req[r].stale = {}
    BY <1>a, <2>4 DEF RequestOK
  <2>7. RequestOK(r)' /\ StaleOK(r)'
    BY <2>3, <2>4, <2>5, <2>6 DEF RequestOK, StaleOK
  <2>8. QED
    BY <1>a, <2>3, <2>4, <2>7, QuietStep
<1>4. ASSUME RetryFlush(r) PROVE IInv'
  <2> DEFINE j == req[r].on
             read == req[r].row
             status == Column(job[j].status, read.status, "awaiting_client")
             claim == Column(job[j].claim, read.claim, 0)
             issued == Column(job[j].issued, read.issued, 0)
             row == [job[j] EXCEPT !.status = status, !.claim = claim, !.issued = issued]
             new == [req[r] EXCEPT !.pc = "write", !.row = row]
  <2>1. j \in Jobs /\ req[r].pc = "requeue" /\ JobFree(j) /\ job[j].status # "absent"
        /\ read.status = "failed" /\ ~ActiveClash(j) /\ ~PendingClash(j) /\ req[r].stale = {}
    BY <1>4, <1>a DEF RetryFlush, RequestOK
  <2>2. /\ status = "awaiting_client" /\ issued \in {0, job[j].issued}
        /\ claim \in 0..MaxClaims /\ issued \in 0..MaxClaims
    BY <1>b, <2>1, BakeJobsAssumption DEF Column, JobRow
  <2>4. Move(r, new) /\ UNCHANGED <<job, project, delivered, sweeper, granted>>
    BY <1>4 DEF RetryFlush
  <2> HIDE DEF status, claim, issued
  <2>3. row \in JobRow /\ row.status = "awaiting_client" /\ row.issued \in {0, job[j].issued}
    BY <1>b, <2>1, <2>2 DEF JobRow
  <2> HIDE DEF row
  <2>5. /\ new \in RequestState /\ new.pc = "write" /\ new.on = j /\ new.row = row
        /\ new.stale = req[r].stale
    BY <1>a, <2>3 DEF RequestState
  <2> HIDE DEF new
  <2>6. req'[r] = new
    BY <1>a, <2>4, <2>5, MoveIs
  <2>7. RequestOK(r)' /\ StaleOK(r)'
    BY <2>1, <2>3, <2>4, <2>5, <2>6 DEF RequestOK, StaleOK
  <2>9. QED
    BY <1>a, <2>1, <2>3, <2>4, <2>5, <2>7, QuietStep
<1>5. ASSUME RetryConflict(r) PROVE IInv'
  BY <1>5, GiveUp DEF RetryConflict
<1>6. QED
  BY <1>1, <1>2, <1>3, <1>4, <1>5 DEF Override

-----------------------------------------------------------------------------
(* Steps that commit.                                                       *)

\* A commit writes rows its request holds or finds free; it releases its locks and leaves
\* the other requests with what they read and checked.
LEMMA CommitLocks ==
  ASSUME IInv, TypeOK', NEW r \in Requests, NEW stale \in SUBSET Claims, Finish(r, stale),
         UNCHANGED sweeper,
         \A j \in Jobs : \/ job'[j] = job[j]
                         \/ /\ HoldsJob(r, j) \/ JobFree(j)
                            /\ job'[j].status # "absent",
         \A p \in Projects : project'[p].canonical = project[p].canonical \/ HoldsProject(r, p)
  PROVE  LockInv' /\ \A q \in Requests : RequestOK(q)'
<1>1. /\ req'[r].pc \in {"idle", "delete"}
      /\ req'[r].pc = "idle" => req'[r].stale = {}
      /\ \A q \in Requests : q # r => req'[q] = req[q]
  BY FinishIs DEF IInv
<1>2. /\ \A q \in Requests, j \in Jobs : HoldsJob(q, j)' => q # r /\ HoldsJob(q, j)
      /\ \A q \in Requests, p \in Projects : HoldsProject(q, p)' => q # r /\ HoldsProject(q, p)
      /\ \A j \in Jobs : SweeperHolds(j)' => SweeperHolds(j)
  BY <1>1 DEF HoldsJob, HoldsProject, SweeperHolds
<1>3. LockInv'
  BY <1>2 DEF LockInv, IInv
<1>4. RequestOK(r)'
  BY <1>1 DEF RequestOK
<1>5. ASSUME NEW q \in Requests, q # r PROVE RequestOK(q)'
  <2>1. RequestOK(q) /\ req'[q] = req[q]
    BY <1>1, <1>5 DEF IInv
  <2>2. ASSUME req[q].pc \in {"project", "commit", "write"}
        PROVE  req[q].on \in Jobs /\ job'[req[q].on] = job[req[q].on]
    <3>1. req[q].on \in Jobs /\ HoldsJob(q, req[q].on)
      BY <2>1, <2>2 DEF RequestOK, HoldsJob
    <3>2. QED
      BY <1>5, <3>1 DEF JobFree, IInv, LockInv
  <2>3. ASSUME req[q].pc = "commit"
        PROVE  project'[req[q].in].canonical = project[req[q].in].canonical
    <3>1. req[q].in \in Projects /\ HoldsProject(q, req[q].in)
      BY <2>1, <2>3, BakeJobsAssumption DEF RequestOK, HoldsProject
    <3>2. QED
      BY <1>5, <3>1 DEF IInv, LockInv
  <2>4. \A j \in Jobs : job[j].status # "absent" => job'[j].status # "absent"
    OBVIOUS
  <2>5. QED
    BY <2>1, <2>2, <2>3, <2>4 DEF RequestOK, HoldsClaim
<1>6. QED
  BY <1>3, <1>4, <1>5

\* A commit that issues no keys, or fresh ones to one job, and marks for deletion only keys
\* no claimed job has left, keeps the keys of claimed jobs safe.
LEMMA CommitStaging ==
  ASSUME IInv, TypeOK', NEW r \in Requests, NEW stale \in SUBSET Claims, Finish(r, stale),
         UNCHANGED sweeper, NEW j \in Jobs, granted <= granted',
         \A k \in Jobs : \/ job'[k] = job[k]
                         \/ HoldsJob(r, k) \/ JobFree(k),
         \A k \in Jobs : \/ job'[k].issued \in {0, job[k].issued}
                         \/ k = j /\ job'[k].issued = granted' /\ granted < granted',
         \A k \in Jobs : job'[k].status = "claimed" =>
                            job'[k] = job[k] \/ (job'[k].issued = granted' /\ granted < granted'),
         \A c \in stale : c <= granted /\ Unclaimed(c)'
  PROVE  StagingInv'
<1>1. /\ req'[r].pc \in {"idle", "delete"}
      /\ req'[r].stale = stale
      /\ \A q \in Requests : q # r => req'[q] = req[q]
  BY FinishIs DEF IInv
<1>2. /\ granted \in Nat /\ granted' \in Nat
      /\ \A k \in Jobs : job[k].issued \in Nat /\ job'[k].issued \in Nat
      /\ \A k \in Jobs : job[k].issued <= granted
  BY BakeJobsAssumption DEF IInv, TypeOK, StagingInv, JobRow
<1>3. \A k \in Jobs : job'[k].issued <= granted'
  BY <1>2
<1>4. \A k, l \in Jobs : job'[k].issued = job'[l].issued /\ job'[k].issued # 0 => k = l
  BY <1>2 DEF IInv, StagingInv
<1>5. ASSUME NEW c \in Claims, c <= granted, Unclaimed(c) PROVE Unclaimed(c)'
  BY <1>2, <1>5 DEF Unclaimed
<1>6. ASSUME NEW q \in Requests PROVE StaleOK(q)'
  <2>1. CASE q = r
    <3>1. ASSUME NEW c \in stale PROVE c <= granted' /\ Unclaimed(c)'
      <4>1. c \in Claims /\ c <= granted
        OBVIOUS
      <4>2. QED
        BY <1>2, <4>1
    <3>2. QED
      BY <1>1, <2>1, <3>1 DEF StaleOK
  <2>2. CASE q # r
    <3>1. req'[q] = req[q] /\ StaleOK(q) /\ req[q].stale \subseteq Claims
      BY <1>1, <2>2 DEF IInv, StagingInv, TypeOK, RequestState
    <3>2. ASSUME NEW c \in req[q].stale PROVE c <= granted'
      BY <1>2, <3>1 DEF StaleOK
    <3>3. ASSUME NEW c \in req[q].stale, NEW k \in Jobs, k # req[q].on,
                 req[q].pc \in {"claim", "cancel", "write"}
          PROVE  job'[k].issued # c
      BY <1>2, <3>1, <3>3 DEF StaleOK
    <3>4. ASSUME NEW c \in req[q].stale, req[q].pc = "delete" PROVE Unclaimed(c)'
      BY <1>5, <3>1, <3>4 DEF StaleOK
    <3>5. QED
      BY <3>1, <3>2, <3>3, <3>4 DEF StaleOK
  <2>3. QED
    BY <2>1, <2>2
<1>7. SweeperOK'
  <2>1. SweeperOK /\ sweeper.stale \subseteq Claims /\ sweeper.swept \subseteq Jobs
    BY DEF IInv, StagingInv, TypeOK, SweeperState
  <2>2. ASSUME NEW c \in sweeper.stale, sweeper.pc = "write"
        PROVE  \E k \in sweeper.swept : job'[k].issued = c
    <3>1. PICK k \in sweeper.swept : job[k].issued = c
      BY <2>1, <2>2 DEF SweeperOK
    <3>2. k \in Jobs /\ SweeperHolds(k)
      BY <2>1, <2>2 DEF SweeperHolds
    <3>3. job'[k] = job[k]
      BY <3>2 DEF JobFree, IInv, LockInv
    <3>4. QED
      BY <3>1, <3>3
  <2>3. \A c \in sweeper.stale : c <= granted'
    BY <1>2, <2>1 DEF SweeperOK
  <2>4. QED
    BY <1>5, <2>1, <2>2, <2>3 DEF SweeperOK
<1>8. QED
  BY <1>3, <1>4, <1>6, <1>7 DEF StagingInv

\* A commit that delivers nothing and claims no job, or one job with a fresh claim.
LEMMA CommitClaims ==
  ASSUME IInv, TypeOK', UNCHANGED delivered, granted <= granted', NEW j \in Jobs,
         \A k \in Jobs : job'[k].status = "claimed" =>
            \/ job'[k] = job[k]
            \/ k = j /\ job'[k].claim = granted' /\ granted < granted'
  PROVE  ClaimInv'
<1>1. /\ granted \in Nat /\ granted' \in 0..MaxClaims
      /\ \A k \in Jobs : job[k].claim \in Nat
  BY BakeJobsAssumption DEF IInv, TypeOK, JobRow
<1>2. QED
  BY <1>1, BakeJobsAssumption DEF IInv, ClaimInv

\* A commit leaves the rows a sweep has written alone.
LEMMA CommitSwept ==
  ASSUME IInv, NEW r \in Requests, UNCHANGED sweeper,
         \A k \in Jobs : job'[k] = job[k] \/ HoldsJob(r, k) \/ JobFree(k)
  PROVE  SweptInv'
BY DEF IInv, SweptInv, SweeperHolds, JobFree, LockInv

\* A commit that makes no job active.
LEMMA CommitActive ==
  ASSUME IInv, NEW r \in Requests, NEW stale \in SUBSET Claims, Finish(r, stale),
         \A k \in Jobs : job'[k].status \in Active => job[k].status \in Active
  PROVE  ActiveInv'
<1>1. /\ req'[r].pc \in {"idle", "delete"}
      /\ \A q \in Requests : q # r => req'[q] = req[q]
  BY FinishIs DEF IInv
<1>2. \A q \in Requests : Activates(q)' => Activates(q) /\ req'[q] = req[q]
  BY <1>1 DEF Activates
<1>3. OneActiveJob'
  BY DEF IInv, ActiveInv, OneActiveJob
<1>4. \A j : ActiveClash(j)' => ActiveClash(j)
  BY DEF ActiveClash
<1>5. QED
  BY <1>2, <1>3, <1>4 DEF IInv, ActiveInv

LEMMA CommitCreate ==
  ASSUME IInv, TypeOK', NEW r \in Requests, NEW j \in Jobs, TriggerCommit(r, j) PROVE IInv'
<1> DEFINE p == req[r].in
           old == ActiveOf(p)
           stale == UNION {OutputPaths(job[k]) : k \in old}
<1>a. TypeOK /\ req[r] \in RequestState /\ RequestOK(r)
  BY DEF IInv, TypeOK
<1>b. ASSUME NEW k \in Jobs PROVE job[k] \in JobRow
  BY <1>a DEF TypeOK
<1>1. /\ p \in Projects /\ req[r].row.status = "awaiting_client" /\ req[r].row.issued = 0
      /\ job[j].status = "absent" /\ ProjectOf[j] = p /\ HoldsProject(r, p)
      /\ Finish(r, stale) /\ UNCHANGED <<granted, sweeper, delivered>>
      /\ ~PendingClash(j)
  BY <1>a DEF TriggerCommit, RequestOK, HoldsProject
<1>2. /\ job'[j] = req[r].row /\ j \notin old
      /\ \A k \in Jobs \ {j} : k \notin old => job'[k] = job[k]
      /\ \A k \in old : /\ JobFree(k) /\ job'[k].status = "cancelled"
                        /\ job'[k].issued = job[k].issued
  <2>1. \A k \in old : k \in Jobs /\ JobFree(k) /\ job'[k] = [job[k] EXCEPT !.status = "cancelled"]
    BY <1>1 DEF TriggerCommit, ActiveOf
  <2>2. ASSUME NEW k \in old
        PROVE  job'[k].status = "cancelled" /\ job'[k].issued = job[k].issued
    <3>1. job[k] \in JobRow /\ job'[k] = [job[k] EXCEPT !.status = "cancelled"]
      BY <1>b, <2>1
    <3>2. QED
      BY <3>1 DEF JobRow
  <2>3. QED
    BY <1>1, <2>1, <2>2 DEF TriggerCommit, ActiveOf
<1>3. JobFree(j)
  <2>1. ASSUME NEW q \in Requests, HoldsJob(q, j) PROVE FALSE
    <3>1. RequestOK(q) /\ req[q].on = j /\ req[q].pc \in {"project", "commit", "write"}
      BY <2>1 DEF HoldsJob, IInv
    <3>2. QED
      BY <1>1, <3>1 DEF RequestOK
  <2>2. ~SweeperHolds(j)
    BY <1>1 DEF SweeperHolds, IInv, SweptInv
  <2>3. QED
    BY <2>1, <2>2 DEF JobFree
<1>4. \A k \in old : k \in Jobs /\ ProjectOf[k] = p /\ job[k].status \in Active
  BY DEF ActiveOf
<1>5. stale \in SUBSET Claims
  BY <1>b, <1>4, OutputPathsType
<1>6. project'[p].canonical = project[p].canonical
      /\ \A q \in Projects : project'[q].canonical = project[q].canonical \/ HoldsProject(r, q)
  <2>1. \A q \in Projects : q # p => project'[q] = project[q]
    BY <1>1, <1>a DEF TriggerCommit, TypeOK
  <2>2. project[p] \in ProjectRow
        /\ project'[p] = [project[p] EXCEPT !.status = Written(project[p].status, req[r].status)]
    BY <1>1, <1>a DEF TriggerCommit, TypeOK
  <2>3. project'[p].canonical = project[p].canonical
    BY <2>2 DEF ProjectRow
  <2>4. QED
    BY <1>1, <2>1, <2>3
<1>7. LockInv' /\ \A q \in Requests : RequestOK(q)'
  <2>1. \A k \in Jobs : job'[k] = job[k] \/ (JobFree(k) /\ job'[k].status # "absent")
    BY <1>1, <1>2, <1>3
  <2>2. QED
    BY <1>1, <1>5, <1>6, <2>1, CommitLocks
<1>8. granted \in Nat /\ granted <= granted'
  BY <1>1, <1>a DEF TypeOK
<1>9. StagingInv'
  <2>1. \A k \in Jobs : job'[k] = job[k] \/ HoldsJob(r, k) \/ JobFree(k)
    BY <1>2, <1>3
  <2>2. \A k \in Jobs : job'[k].issued \in {0, job[k].issued}
    BY <1>1, <1>2
  <2>3. \A k \in Jobs : job'[k].status = "claimed" => job'[k] = job[k]
    BY <1>1, <1>2
  <2>4. ASSUME NEW c \in stale PROVE c <= granted /\ Unclaimed(c)'
    <3>1. PICK k \in old : c \in OutputPaths(job[k])
      OBVIOUS
    <3>2. c = job[k].issued /\ c # 0
      BY <3>1 DEF OutputPaths
    <3>3. \A l \in Jobs : job'[l].status = "claimed" => l # k /\ job'[l].issued # c
      BY <1>1, <1>2, <1>4, <2>3, <3>1, <3>2 DEF IInv, StagingInv
    <3>4. QED
      BY <1>4, <3>2, <3>3 DEF Unclaimed, IInv, StagingInv
  <2>5. QED
    BY <1>1, <1>5, <1>8, <2>1, <2>2, <2>3, <2>4, CommitStaging
<1>10. ClaimInv'
  <2>1. \A k \in Jobs : job'[k].status = "claimed" => job'[k] = job[k]
    BY <1>1, <1>2
  <2>2. QED
    BY <1>1, <1>8, <2>1, CommitClaims
<1>11. ActiveInv'
  <2>1. \A k \in Jobs : job'[k].status \in Active =>
           k = j \/ (job[k].status \in Active /\ ProjectOf[k] # p)
    BY <1>1, <1>2 DEF ActiveOf
  <2>2. OneActiveJob'
    BY <1>1, <2>1 DEF OneActiveJob, IInv, ActiveInv
  <2>3. \A q \in Requests : Activates(q)' => Activates(q) /\ req'[q] = req[q]
    <3>1. req'[r].pc \in {"idle", "delete"} /\ \A q \in Requests : q # r => req'[q] = req[q]
      BY <1>1, <1>5, <1>a, FinishIs
    <3>2. QED
      BY <3>1 DEF Activates
  <2>4. ASSUME NEW q \in Requests, Activates(q)
        PROVE  req[q].on \in Jobs /\ req[q].on # j /\ ProjectOf[req[q].on] # p
    <3>1. req[q].on \in Jobs /\ job[req[q].on].status # "absent"
      BY <2>4 DEF Activates, IInv, RequestOK
    <3>2. QED
      BY <1>1, <2>4, <3>1 DEF Activates, PendingClash
  <2>5. ASSUME NEW q \in Requests, Activates(q)' PROVE ~ActiveClash(req[q].on)'
    BY <1>1, <2>1, <2>3, <2>4, <2>5 DEF ActiveClash, IInv, ActiveInv
  <2>6. QED
    BY <2>2, <2>3, <2>5 DEF ActiveInv, IInv
<1>12. SweptInv'
  BY <1>1, <1>2, <1>3, CommitSwept
<1>13. QED
  BY <1>7, <1>9, <1>10, <1>11, <1>12 DEF IInv

LEMMA CommitGrant ==
  ASSUME IInv, TypeOK', NEW r \in Requests, ClaimGrant(r) PROVE IInv'
<1> DEFINE j == req[r].on
           c == granted + 1
           stale == req[r].stale
<1>a. TypeOK /\ req[r] \in RequestState /\ RequestOK(r) /\ StaleOK(r) /\ granted \in Nat
  BY DEF IInv, TypeOK, StagingInv
<1>1. /\ j \in Jobs /\ JobFree(j) /\ Claimable(job[j]) /\ req[r].pc = "claim"
      /\ granted' = c /\ Finish(r, stale) /\ UNCHANGED <<project, sweeper, delivered>>
      /\ granted < granted' /\ granted <= granted' /\ stale \in SUBSET Claims
      /\ c \in 0..MaxClaims
  BY <1>a, BakeJobsAssumption DEF ClaimGrant, RequestOK, RequestState, TypeOK
<1>2. /\ job'[j].status = "claimed" /\ job'[j].claim = c /\ job'[j].issued = c
      /\ job[j].status \in Active
      /\ \A k \in Jobs : k # j => job'[k] = job[k]
  <2>1. job[j] \in JobRow
        /\ job'[j] = [job[j] EXCEPT !.status = "claimed", !.claim = c, !.issued = c]
    BY <1>1, <1>a DEF ClaimGrant, TypeOK
  <2>2. job'[j].status = "claimed" /\ job'[j].claim = c /\ job'[j].issued = c
    BY <2>1 DEF JobRow
  <2>3. job[j].status \in Active
    BY <1>1 DEF Claimable
  <2>4. QED
    BY <1>1, <1>a, <2>2, <2>3 DEF ClaimGrant, TypeOK
<1>3. LockInv' /\ \A q \in Requests : RequestOK(q)'
  <2>1. \A k \in Jobs : job'[k] = job[k] \/ (JobFree(k) /\ job'[k].status # "absent")
    BY <1>1, <1>2
  <2>2. QED
    BY <1>1, <2>1, CommitLocks
<1>4. StagingInv'
  <2>1. ASSUME NEW d \in stale PROVE d <= granted /\ Unclaimed(d)'
    <3>1. d \in Claims /\ d <= granted /\ \A k \in Jobs : k # j => job[k].issued # d
      BY <1>a, <1>1 DEF StaleOK
    <3>2. d # c
      BY <1>a, <3>1
    <3>3. QED
      BY <1>2, <3>1, <3>2 DEF Unclaimed
  <2>2. \A k \in Jobs : job'[k] = job[k] \/ JobFree(k)
    BY <1>1, <1>2
  <2>3. \A k \in Jobs : \/ job'[k].issued \in {0, job[k].issued}
                        \/ k = j /\ job'[k].issued = granted' /\ granted < granted'
    BY <1>1, <1>2
  <2>4. \A k \in Jobs : job'[k].status = "claimed" =>
                           job'[k] = job[k] \/ (job'[k].issued = granted' /\ granted < granted')
    BY <1>1, <1>2
  <2>5. QED
    BY <1>1, <2>1, <2>2, <2>3, <2>4, CommitStaging
<1>5. ClaimInv'
  BY <1>1, <1>2, CommitClaims
<1>6. ActiveInv'
  BY <1>1, <1>2, CommitActive
<1>7. SweptInv'
  BY <1>1, <1>2, CommitSwept
<1>8. QED
  BY <1>3, <1>4, <1>5, <1>6, <1>7 DEF IInv

\* A commit that ends the claim of the job its request holds.
LEMMA CommitEnd ==
  ASSUME IInv, TypeOK', NEW r \in Requests, NEW j \in Jobs, HoldsJob(r, j), ~Activates(r),
         NEW stale \in SUBSET Claims, Finish(r, stale), UNCHANGED <<granted, sweeper>>,
         \A k \in Jobs : k # j => job'[k] = job[k],
         job'[j].status \in {"completed", "failed", "cancelled"},
         job'[j].issued \in {0, job[j].issued},
         \A c \in stale : c <= granted /\ \A k \in Jobs : k # j => job[k].issued # c,
         \A p \in Projects : project'[p].canonical = project[p].canonical \/ HoldsProject(r, p)
  PROVE  /\ LockInv' /\ \A q \in Requests : RequestOK(q)'
         /\ StagingInv' /\ ActiveInv' /\ SweptInv'
<1>1. granted \in Nat /\ granted <= granted'
  BY DEF IInv, TypeOK
<1>2. \A k \in Jobs : job'[k] = job[k] \/ (HoldsJob(r, k) /\ job'[k].status # "absent")
  OBVIOUS
<1>3. LockInv' /\ \A q \in Requests : RequestOK(q)'
  BY <1>2, CommitLocks
<1>4. StagingInv'
  <2>1. \A c \in stale : c <= granted /\ Unclaimed(c)'
    BY DEF Unclaimed
  <2>2. \A k \in Jobs : job'[k].issued \in {0, job[k].issued}
    OBVIOUS
  <2>3. \A k \in Jobs : job'[k].status = "claimed" => job'[k] = job[k]
    OBVIOUS
  <2>4. QED
    BY <1>1, <1>2, <2>1, <2>2, <2>3, CommitStaging
<1>5. ActiveInv'
  BY CommitActive
<1>6. SweptInv'
  BY <1>2, CommitSwept
<1>7. QED
  BY <1>3, <1>4, <1>5, <1>6

LEMMA CommitReport ==
  ASSUME IInv, TypeOK', NEW r \in Requests, CompleteReject(r) \/ CompleteCommit(r) PROVE IInv'
<1> DEFINE j == req[r].on
           p == req[r].in
           t == req[r].token
           stale == OutputPaths(job[j])
<1>a. TypeOK /\ req[r] \in RequestState /\ RequestOK(r) /\ granted \in Nat
  BY DEF IInv, TypeOK
<1>1. /\ j \in Jobs /\ p \in Projects /\ t \in Claims /\ HoldsClaim(j, t)
      /\ req[r].pc \in {"project", "commit"}
      /\ Finish(r, stale) /\ UNCHANGED <<granted, sweeper>>
  BY <1>a, BakeJobsAssumption DEF CompleteReject, CompleteCommit, RequestOK
<1>2. HoldsJob(r, j) /\ ~Activates(r)
  BY <1>1 DEF HoldsJob, Activates
<1>3. job[j] \in JobRow /\ project[p] \in ProjectRow /\ stale \in SUBSET Claims
  BY <1>a, <1>1, OutputPathsType DEF TypeOK
<1>4. \A c \in stale : c <= granted /\ \A k \in Jobs : k # j => job[k].issued # c
  BY <1>1 DEF OutputPaths, IInv, StagingInv
<1>5. ASSUME CompleteReject(r) PROVE IInv'
  <2>1. /\ \A k \in Jobs : k # j => job'[k] = job[k]
        /\ job'[j].status = "failed" /\ job'[j].issued = job[j].issued
    BY <1>5, <1>1, <1>3, <1>a, RowStatus DEF CompleteReject, TypeOK
  <2>2. \A q \in Projects : project'[q].canonical = project[q].canonical
    BY <1>5, <1>1, <1>3, <1>a, ProjectStatusUpdate DEF CompleteReject, TypeOK
  <2>3. /\ LockInv' /\ \A q \in Requests : RequestOK(q)'
        /\ StagingInv' /\ ActiveInv' /\ SweptInv'
    BY <1>1, <1>2, <1>3, <1>4, <2>1, <2>2, CommitEnd
  <2>4. ClaimInv'
    <3>1. UNCHANGED delivered /\ granted <= granted'
      BY <1>5, <1>1, <1>a DEF CompleteReject
    <3>2. QED
      BY <1>1, <2>1, <3>1, CommitClaims
  <2>5. QED
    BY <2>3, <2>4 DEF IInv
<1>6. ASSUME CompleteCommit(r) PROVE IInv'
  <2>1. /\ \A k \in Jobs : k # j => job'[k] = job[k]
        /\ job'[j].status = "completed" /\ job'[j].issued = job[j].issued
    BY <1>6, <1>1, <1>3, <1>a, RowStatus DEF CompleteCommit, TypeOK
  <2>2. HoldsProject(r, p) /\ \A q \in Projects : q # p => project'[q] = project[q]
    BY <1>6, <1>1, <1>a DEF CompleteCommit, TypeOK, HoldsProject
  <2>3. /\ LockInv' /\ \A q \in Requests : RequestOK(q)'
        /\ StagingInv' /\ ActiveInv' /\ SweptInv'
    BY <1>1, <1>2, <1>3, <1>4, <2>1, <2>2, CommitEnd
  <2>4. ClaimInv'
    <3>1. /\ delivered'[t] = delivered[t] + 1 /\ delivered[t] = 0 /\ t <= granted
          /\ \A c \in Claims : c # t => delivered'[c] = delivered[c]
      <4>1. delivered' = [delivered EXCEPT ![t] = delivered[t] + 1]
        BY <1>6 DEF CompleteCommit
      <4>2. delivered[t] = 0 /\ t <= granted
        BY <1>1 DEF HoldsClaim, IInv, ClaimInv
      <4>3. QED
        BY <1>1, <1>a, <4>1, <4>2 DEF TypeOK
    <3>2. \A k \in Jobs : job'[k].status = "claimed" =>
             k # j /\ job'[k] = job[k] /\ job[k].claim # t
      BY <1>1, <2>1 DEF HoldsClaim, IInv, ClaimInv
    <3>3. \A k \in Jobs : job[k].claim \in Nat
      BY <1>a, BakeJobsAssumption DEF TypeOK, JobRow
    <3>4. ASSUME NEW k \in Jobs, job'[k].status = "claimed"
          PROVE  job'[k].claim \in 1..granted' /\ delivered'[job'[k].claim] = 0
      <4>1. job[k].claim \in 1..granted /\ delivered[job[k].claim] = 0 /\ job[k].claim # t
        BY <3>2, <3>4 DEF IInv, ClaimInv
      <4>2. job[k].claim \in Claims
        BY <1>a, <4>1, BakeJobsAssumption DEF TypeOK
      <4>3. QED
        BY <1>1, <3>1, <3>2, <3>4, <4>1, <4>2
    <3>5. \A c \in Claims : delivered'[c] <= 1 /\ (c > granted' => delivered'[c] = 0)
      BY <1>1, <1>a, <3>1 DEF IInv, ClaimInv
    <3>6. QED
      BY <3>2, <3>4, <3>5 DEF ClaimInv, IInv
  <2>5. QED
    BY <2>3, <2>4 DEF IInv
<1>7. QED
  BY <1>5, <1>6

LEMMA CommitClose ==
  ASSUME IInv, TypeOK', NEW r \in Requests, WriteCommit(r) PROVE IInv'
<1> DEFINE j == req[r].on
           p == ProjectOf[j]
           row == req[r].row
           stale == req[r].stale
<1>a. TypeOK /\ req[r] \in RequestState /\ RequestOK(r) /\ StaleOK(r) /\ granted \in Nat
  BY DEF IInv, TypeOK, StagingInv
<1>1. /\ j \in Jobs /\ p \in Projects /\ HoldsJob(r, j) /\ req[r].pc = "write"
      /\ row.status \in {"awaiting_client", "failed", "cancelled"}
      /\ row.issued \in {0, job[j].issued}
      /\ stale \in SUBSET Claims
      /\ Finish(r, stale) /\ UNCHANGED <<granted, sweeper, delivered>>
  BY <1>a, BakeJobsAssumption DEF WriteCommit, RequestOK, HoldsJob, RequestState
<1>2. job'[j] = row /\ \A k \in Jobs : k # j => job'[k] = job[k]
  BY <1>1, <1>a DEF WriteCommit, TypeOK
<1>3. \A q \in Projects : project'[q].canonical = project[q].canonical
  <2>1. project[p] \in ProjectRow
        /\ project' = [project EXCEPT ![p] = [project[p] EXCEPT
                                                !.status = Written(project[p].status, req[r].status)]]
    BY <1>1, <1>a DEF WriteCommit, TypeOK
  <2>2. [project[p] EXCEPT !.status = Written(project[p].status, req[r].status)].canonical
          = project[p].canonical
    BY <2>1 DEF ProjectRow
  <2>3. QED
    BY <2>1, <2>2, <1>a DEF TypeOK
<1>4. LockInv' /\ \A q \in Requests : RequestOK(q)'
  <2>1. \A k \in Jobs : job'[k] = job[k] \/ (HoldsJob(r, k) /\ job'[k].status # "absent")
    BY <1>1, <1>2
  <2>2. QED
    BY <1>1, <1>3, <2>1, CommitLocks
<1>5. granted <= granted'
  BY <1>1, <1>a
<1>6. StagingInv'
  <2>1. \A c \in stale : c <= granted /\ Unclaimed(c)'
    BY <1>1, <1>2, <1>a DEF StaleOK, Unclaimed
  <2>2. \A k \in Jobs : job'[k] = job[k] \/ HoldsJob(r, k)
    BY <1>1, <1>2
  <2>3. \A k \in Jobs : job'[k].issued \in {0, job[k].issued}
    BY <1>1, <1>2
  <2>4. \A k \in Jobs : job'[k].status = "claimed" => job'[k] = job[k]
    BY <1>1, <1>2
  <2>5. QED
    BY <1>1, <1>5, <2>1, <2>2, <2>3, <2>4, CommitStaging
<1>7. ClaimInv'
  BY <1>1, <1>2, <1>5, CommitClaims
<1>8. SweptInv'
  BY <1>1, <1>2, CommitSwept
<1>9. ActiveInv'
  <2>1. CASE row.status # "awaiting_client"
    <3>1. \A k \in Jobs : job'[k].status \in Active => job[k].status \in Active
      BY <1>1, <1>2, <2>1
    <3>2. QED
      BY <1>1, <3>1, CommitActive
  <2>2. CASE row.status = "awaiting_client"
    <3>1. Activates(r) /\ ~ActiveClash(j)
      BY <1>1, <2>2 DEF Activates, IInv, ActiveInv
    <3>2. OneActiveJob'
      BY <1>1, <1>2, <3>1 DEF OneActiveJob, ActiveClash, IInv, ActiveInv
    <3>3. \A q \in Requests : Activates(q)' => q # r /\ Activates(q) /\ req'[q] = req[q]
      <4>1. req'[r].pc \in {"idle", "delete"} /\ \A q \in Requests : q # r => req'[q] = req[q]
        BY <1>1, <1>a, FinishIs
      <4>2. QED
        BY <4>1 DEF Activates
    <3>4. ASSUME NEW q \in Requests, Activates(q)' PROVE ~ActiveClash(req[q].on)'
      <4>1. ~ActiveClash(req[q].on) /\ ProjectOf[req[q].on] # p
        BY <3>1, <3>3, <3>4 DEF IInv, ActiveInv
      <4>2. QED
        BY <1>1, <1>2, <3>3, <3>4, <4>1 DEF ActiveClash
    <3>5. QED
      BY <3>2, <3>3, <3>4 DEF ActiveInv, IInv
  <2>3. QED
    BY <2>1, <2>2
<1>10. QED
  BY <1>4, <1>6, <1>7, <1>8, <1>9 DEF IInv

-----------------------------------------------------------------------------
(* The sweep and the environment.                                           *)

\* A step of the sweep that changes no row but may take free rows or mark keys to delete.
LEMMA SweepQuiet ==
  ASSUME IInv, TypeOK', UNCHANGED <<job, project, granted, req, delivered>>,
         \A j \in Jobs : SweeperHolds(j)' => JobFree(j) /\ job[j].status = "claimed",
         SweeperOK'
  PROVE  IInv'
<1>1. LockInv'
  BY DEF IInv, LockInv, HoldsJob, HoldsProject, JobFree
<1>2. \A q \in Requests : RequestOK(q)' /\ StaleOK(q)'
  BY DEF IInv, RequestOK, HoldsClaim, StagingInv, StaleOK, Unclaimed
<1>3. ClaimInv' /\ SweptInv'
  BY DEF IInv, ClaimInv, SweptInv
<1>4. ActiveInv'
  BY DEF IInv, ActiveInv, OneActiveJob, Activates, ActiveClash
<1>5. StagingInv'
  BY <1>2 DEF IInv, StagingInv
<1>6. QED
  BY <1>1, <1>2, <1>3, <1>4, <1>5 DEF IInv

LEMMA SweepStep == ASSUME IInv, TypeOK', Sweep PROVE IInv'
<1>a. TypeOK /\ sweeper \in SweeperState /\ SweeperOK
  BY DEF IInv, TypeOK, StagingInv
<1>1. ASSUME SweepUpdate PROVE IInv'
  <2>1. SweeperOK'
    BY <1>1 DEF SweepUpdate, SweeperOK, OutputPaths, IInv, StagingInv, Abandoned
  <2>2. \A j \in Jobs : SweeperHolds(j)' => JobFree(j) /\ job[j].status = "claimed"
    BY <1>1 DEF SweepUpdate, SweeperHolds, Abandoned
  <2>3. QED
    BY <1>1, <2>1, <2>2, SweepQuiet DEF SweepUpdate
<1>2. ASSUME SweepDelete \/ SweepAbort PROVE IInv'
  <2>1. SweeperOK' /\ \A j \in Jobs : ~SweeperHolds(j)'
    BY <1>2 DEF SweepDelete, SweepAbort, SweeperIdle, SweeperOK, SweeperHolds
  <2>2. QED
    BY <1>2, <2>1, SweepQuiet DEF SweepDelete, SweepAbort
<1>3. ASSUME SweepCommit PROVE IInv'
  <2>1. /\ sweeper.pc = "write" /\ sweeper'.pc = "delete" /\ sweeper'.stale = sweeper.stale
        /\ UNCHANGED <<granted, req, delivered>>
    BY <1>3, <1>a DEF SweepCommit, SweeperState
  <2>2. ASSUME NEW j \in Jobs
        PROVE  IF SweeperHolds(j)
               THEN /\ job[j].status = "claimed" /\ job'[j].status = "failed"
                    /\ job'[j].issued = job[j].issued
               ELSE job'[j] = job[j]
    <3>1. job[j] \in JobRow
      BY <1>a DEF TypeOK
    <3>2. CASE SweeperHolds(j)
      <4>1. job'[j] = [job[j] EXCEPT !.status = "failed"]
        BY <1>3, <3>2 DEF SweepCommit, SweeperHolds
      <4>2. job[j].status = "claimed"
        BY <3>2 DEF IInv, SweptInv
      <4>3. QED
        BY <3>1, <3>2, <4>1, <4>2 DEF JobRow
    <3>3. CASE ~SweeperHolds(j)
      BY <1>3, <2>1, <3>3 DEF SweepCommit, SweeperHolds
    <3>4. QED
      BY <3>2, <3>3
  <2>3. \A p \in Projects : project'[p].canonical = project[p].canonical
    <3>1. ASSUME NEW p \in Projects PROVE project'[p].canonical = project[p].canonical
      <4>1. project[p] \in ProjectRow
            /\ project'[p] \in {project[p], [project[p] EXCEPT !.status = "in_progress"]}
        BY <1>3, <1>a DEF SweepCommit, TypeOK
      <4>2. QED
        BY <4>1 DEF ProjectRow
    <3>2. QED
      BY <3>1
  <2>4. \A j \in Jobs : ~SweeperHolds(j)'
    BY <2>1 DEF SweeperHolds
  <2>5. LockInv' /\ SweptInv'
    BY <2>1, <2>4 DEF IInv, LockInv, HoldsJob, HoldsProject, SweptInv
  <2>6. ASSUME NEW q \in Requests PROVE RequestOK(q)'
    <3>1. RequestOK(q) /\ req'[q] = req[q]
      BY <2>1 DEF IInv
    <3>2. ASSUME req[q].pc \in {"project", "commit", "write"}
          PROVE  req[q].on \in Jobs /\ job'[req[q].on] = job[req[q].on]
      <4>1. req[q].on \in Jobs /\ HoldsJob(q, req[q].on)
        BY <3>1, <3>2 DEF RequestOK, HoldsJob
      <4>2. ~SweeperHolds(req[q].on)
        BY <4>1 DEF IInv, LockInv
      <4>3. QED
        BY <2>2, <4>1, <4>2
    <3>3. req[q].pc = "commit" => req[q].in \in Projects
      BY <3>1, BakeJobsAssumption DEF RequestOK
    <3>4. \A j \in Jobs : job[j].status # "absent" => job'[j].status # "absent"
      BY <2>2
    <3>5. QED
      BY <2>3, <3>1, <3>2, <3>3, <3>4 DEF RequestOK, HoldsClaim
  <2>7. ClaimInv'
    <3>1. \A j \in Jobs : job'[j].status = "claimed" => job'[j] = job[j]
      BY <2>2
    <3>2. QED
      BY <2>1, <3>1 DEF IInv, ClaimInv
  <2>8. ActiveInv'
    <3>1. \A j \in Jobs : job'[j].status \in Active => job[j].status \in Active
      BY <2>2
    <3>2. QED
      BY <2>1, <3>1 DEF IInv, ActiveInv, OneActiveJob, Activates, ActiveClash
  <2>9. StagingInv'
    <3>1. \A c : Unclaimed(c) => Unclaimed(c)'
      BY <2>2 DEF Unclaimed
    <3>2. \A j \in Jobs : job'[j].issued = job[j].issued
      BY <2>2
    <3>3. ASSUME NEW c \in sweeper.stale PROVE Unclaimed(c)'
      <4>1. c \in Claims
        BY <1>a DEF SweeperState
      <4>2. PICK j \in sweeper.swept : job[j].issued = c
        BY <1>a, <2>1 DEF SweeperOK
      <4>3. j \in Jobs /\ SweeperHolds(j)
        BY <1>a, <2>1 DEF SweeperState, SweeperHolds
      <4>4. \A k \in Jobs : k # j => job[k].issued # c
        BY <4>1, <4>2, <4>3 DEF IInv, StagingInv
      <4>5. QED
        BY <2>2, <4>3, <4>4 DEF Unclaimed
    <3>4. SweeperOK'
      BY <1>a, <2>1, <3>3 DEF SweeperOK
    <3>5. ASSUME NEW q \in Requests PROVE StaleOK(q)'
      BY <2>1, <3>1, <3>2 DEF StaleOK, IInv, StagingInv
    <3>6. QED
      BY <2>1, <3>2, <3>4, <3>5 DEF IInv, StagingInv
  <2>10. QED
    BY <2>5, <2>6, <2>7, <2>8, <2>9 DEF IInv
<1>4. QED
  BY <1>1, <1>2, <1>3 DEF Sweep

LEMMA EnvironmentStep == ASSUME IInv, TypeOK', Environment PROVE IInv'
<1>a. TypeOK
  BY DEF IInv
<1>1. UNCHANGED <<job, granted, req, sweeper, delivered>>
  BY DEF Environment, SaveDesign, ReplaceModel, Upload, LeaseTick
<1>2. ASSUME NEW p \in Projects
      PROVE  project'[p].canonical = project[p].canonical \/ ProjectFree(p)
  <2>1. project[p] \in ProjectRow
    BY <1>a DEF TypeOK
  <2>2. ASSUME NEW q \in Projects, SaveDesign(q)
        PROVE  project'[p].canonical = project[p].canonical
    <3>1. project'[p] \in {project[p],
                           [project[p] EXCEPT !.design = TRUE, !.status = "in_progress"]}
      BY <2>2, <1>a DEF SaveDesign, TypeOK
    <3>2. QED
      BY <2>1, <3>1 DEF ProjectRow
  <2>3. ASSUME NEW q \in Projects, ReplaceModel(q)
        PROVE  project'[p].canonical = project[p].canonical \/ ProjectFree(p)
    BY <2>3, <1>a DEF ReplaceModel, TypeOK
  <2>4. ASSUME NEW c \in Claims, Upload(c) \/ LeaseTick(c) PROVE project' = project
    BY <2>4 DEF Upload, LeaseTick
  <2>5. QED
    BY <2>2, <2>3, <2>4 DEF Environment
<1>3. LockInv' /\ SweptInv'
  BY <1>1 DEF IInv, LockInv, HoldsJob, HoldsProject, SweeperHolds, SweptInv
<1>4. ASSUME NEW q \in Requests PROVE RequestOK(q)'
  <2>1. RequestOK(q) /\ req'[q] = req[q]
    BY <1>1 DEF IInv
  <2>2. ASSUME req[q].pc = "commit"
        PROVE  project'[req[q].in].canonical = project[req[q].in].canonical
    <3>1. req[q].in \in Projects /\ HoldsProject(q, req[q].in)
      BY <2>1, <2>2, BakeJobsAssumption DEF RequestOK, HoldsProject
    <3>2. QED
      BY <1>2, <3>1 DEF ProjectFree
  <2>3. QED
    BY <1>1, <2>1, <2>2 DEF RequestOK, HoldsClaim
<1>5. ClaimInv'
  BY <1>1 DEF IInv, ClaimInv
<1>6. ActiveInv'
  BY <1>1 DEF IInv, ActiveInv, OneActiveJob, Activates, ActiveClash
<1>7. StagingInv'
  BY <1>1 DEF IInv, StagingInv, StaleOK, SweeperOK, Unclaimed
<1>8. QED
  BY <1>3, <1>4, <1>5, <1>6, <1>7 DEF IInv

-----------------------------------------------------------------------------
(* The theorems.                                                            *)

LEMMA InvInit == Init => IInv
<1> SUFFICES ASSUME Init PROVE IInv
  OBVIOUS
<1>1. /\ \A j \in Jobs : job[j] = NoRow
      /\ \A r \in Requests : req[r] = Idle
      /\ sweeper = SweeperIdle /\ granted = 0 /\ \A c \in Claims : delivered[c] = 0
  BY DEF Init
<1>2. /\ NoRow.status = "absent" /\ NoRow.issued = 0
      /\ Idle.pc = "idle" /\ Idle.stale = {}
      /\ SweeperIdle.pc = "idle" /\ SweeperIdle.stale = {}
  BY DEF NoRow, Idle, SweeperIdle
<1>3. LockInv /\ SweptInv
  BY <1>1, <1>2 DEF LockInv, HoldsJob, HoldsProject, SweeperHolds, SweptInv
<1>4. \A r \in Requests : RequestOK(r)
  BY <1>1, <1>2 DEF RequestOK
<1>5. ClaimInv
  BY <1>1, <1>2 DEF ClaimInv
<1>6. ActiveInv
  BY <1>1, <1>2 DEF ActiveInv, OneActiveJob, Activates
<1>7. StagingInv
  BY <1>1, <1>2 DEF StagingInv, StaleOK, SweeperOK
<1>8. QED
  BY <1>3, <1>4, <1>5, <1>6, <1>7, TypeInit DEF IInv

LEMMA InvNext == IInv /\ [Next]_vars => IInv'
<1> SUFFICES ASSUME IInv, [Next]_vars PROVE IInv'
  OBVIOUS
<1>a. TypeOK'
  BY TypeNext
<1>1. ASSUME NEW r \in Requests, Create(r) PROVE IInv'
  BY <1>1, <1>a, QuietCreate, CommitCreate DEF Create
<1>2. ASSUME NEW r \in Requests, Claim(r) PROVE IInv'
  BY <1>2, <1>a, QuietClaim, CommitGrant DEF Claim
<1>3. ASSUME NEW r \in Requests, Report(r) PROVE IInv'
  BY <1>3, <1>a, QuietReport, CommitReport DEF Report
<1>4. ASSUME NEW r \in Requests, Override(r) PROVE IInv'
  BY <1>4, <1>a, QuietOverride
<1>5. ASSUME NEW r \in Requests, Close(r) PROVE IInv'
  <2>1. CASE WriteCommit(r)
    BY <1>a, <2>1, CommitClose
  <2>2. CASE DeleteStaging(r) \/ Abort(r)
    BY <1>a, <2>2, GiveUp DEF DeleteStaging, Abort
  <2>3. QED
    BY <1>5, <2>1, <2>2 DEF Close
<1>6. CASE Sweep
  BY <1>a, <1>6, SweepStep
<1>7. CASE Environment
  BY <1>a, <1>7, EnvironmentStep
<1>8. CASE UNCHANGED vars
  <2>1. LockInv' /\ SweptInv'
    BY <1>8 DEF vars, IInv, LockInv, HoldsJob, HoldsProject, SweeperHolds, SweptInv
  <2>2. \A r \in Requests : RequestOK(r)'
    BY <1>8 DEF vars, IInv, RequestOK, HoldsClaim
  <2>3. ClaimInv' /\ ActiveInv'
    BY <1>8 DEF vars, IInv, ClaimInv, ActiveInv, OneActiveJob, Activates, ActiveClash
  <2>4. StagingInv'
    BY <1>8 DEF vars, IInv, StagingInv, StaleOK, SweeperOK, Unclaimed
  <2>5. QED
    BY <1>a, <2>1, <2>2, <2>3, <2>4 DEF IInv
<1>9. QED
  BY <1>1, <1>2, <1>3, <1>4, <1>5, <1>6, <1>7, <1>8 DEF Next

\* The inductive invariant holds in every reachable state: what each request has read,
\* checked and locked stays as it left it until it commits.
THEOREM JobInvariant == Spec => []IInv
<1>1. QED
  BY InvInit, InvNext, PTL DEF Spec

\* Rows, requests and the sweep stay in their domains.
THEOREM JobTypes == Spec => []TypeOK
<1>1. IInv => TypeOK
  BY DEF IInv
<1>2. QED
  BY <1>1, JobInvariant, PTL

\* A project never has two active jobs, for any number of concurrent triggers, retries and
\* cancels.
THEOREM OneActive == Spec => []OneActiveJob
<1>1. IInv => OneActiveJob
  BY DEF IInv, ActiveInv
<1>2. QED
  BY <1>1, JobInvariant, PTL

\* A completion commits on the job and the model it checked.
THEOREM CompletionSound == Spec => []CompletionStillValid
<1>1. IInv => CompletionStillValid
  BY DEF IInv, RequestOK, CompletionStillValid
<1>2. QED
  BY <1>1, JobInvariant, PTL

\* A claim token delivers its effects at most once.
THEOREM DeliveredOnce == Spec => []DeliveredOncePerClaim
<1>1. IInv => DeliveredOncePerClaim
  BY DEF IInv, ClaimInv, DeliveredOncePerClaim
<1>2. QED
  BY <1>1, JobInvariant, PTL

\* No pending deletion aims at the staging keys of a claimed job.
THEOREM StagingSafe == Spec => []LiveStagingSafe
<1>1. ASSUME IInv PROVE LiveStagingSafe
  <2>1. ASSUME NEW j \in Jobs, job[j].status = "claimed", NEW r \in Requests,
               req[r].pc = "delete", job[j].issued \in req[r].stale
        PROVE  FALSE
    BY <1>1, <2>1 DEF IInv, StagingInv, StaleOK, Unclaimed
  <2>2. ASSUME NEW j \in Jobs, job[j].status = "claimed",
               sweeper.pc = "delete", job[j].issued \in sweeper.stale
        PROVE  FALSE
    BY <1>1, <2>2 DEF IInv, StagingInv, SweeperOK, Unclaimed
  <2>3. QED
    BY <2>1, <2>2 DEF LiveStagingSafe
<1>2. QED
  BY <1>1, JobInvariant, PTL

-----------------------------------------------------------------------------
(* BakeJobs implements FencedLease.                                         *)

\* A step that takes jobs back, or changes no claimed job, is a release or a stutter.
LEMMA ReleaseStep ==
  ASSUME UNCHANGED <<granted, lease, delivered>>,
         \A j \in Jobs : job'[j].status = "claimed" =>
            job[j].status = "claimed" /\ job'[j].claim = job[j].claim
  PROVE  [Lease!Next]_(Lease!vars)
<1> DEFINE S == {j \in Jobs : Holder[j] # 0 /\ Holder'[j] = 0}
<1>1. \A j \in Jobs : Holder'[j] = IF j \in S THEN 0 ELSE Holder[j]
  BY DEF Holder
<1>2. Holder' = [j \in Jobs |-> IF j \in S THEN 0 ELSE Holder[j]]
  BY <1>1 DEF Holder
<1>3. CASE S = {}
  <2>1. Holder' = Holder
    BY <1>1, <1>3 DEF Holder
  <2>2. QED
    BY <2>1 DEF Lease!vars
<1>4. CASE S # {}
  <2>1. Lease!Release(S)
    BY <1>2, <1>4 DEF Lease!Release
  <2>2. QED
    BY <2>1 DEF Lease!Next
<1>5. QED
  BY <1>3, <1>4

\* A step of a request or of the sweep that changes no row and no claim is a stutter.
LEMMA StutterStep ==
  ASSUME UNCHANGED <<job, granted, lease, delivered>> PROVE [Lease!Next]_(Lease!vars)
BY DEF Lease!vars, Holder

LEMMA LeaseInitial == Init => Lease!Init
<1> SUFFICES ASSUME Init PROVE Lease!Init
  OBVIOUS
<1>1. Holder = [j \in Jobs |-> 0]
  BY DEF Init, Holder, NoRow
<1>2. 1..granted = {} /\ {c \in Claims : lease[c] # "live"} = {}
  BY DEF Init
<1>3. QED
  BY <1>1, <1>2 DEF Init, Lease!Init

\* A granted claim is new, and the job is free or its holder has lapsed.
LEMMA GrantStep ==
  ASSUME IInv, NEW r \in Requests, ClaimGrant(r) PROVE [Lease!Next]_(Lease!vars)
<1> DEFINE j == req[r].on
           c == granted + 1
<1>1. /\ TypeOK /\ j \in Jobs /\ Claimable(job[j]) /\ granted' = c
      /\ granted \in Nat /\ c \in Claims /\ UNCHANGED <<lease, delivered>>
      /\ job' = [job EXCEPT ![j] = [job[j] EXCEPT !.status = "claimed", !.claim = c, !.issued = c]]
  BY BakeJobsAssumption DEF ClaimGrant, IInv, RequestOK, TypeOK
<1>2. c \notin 1..granted /\ 1..granted' = (1..granted) \cup {c}
  BY <1>1
<1>3. /\ job'[j].status = "claimed" /\ job'[j].claim = c
      /\ \A k \in Jobs : k # j => job'[k] = job[k]
  <2>1. job[j] \in JobRow
    BY <1>1 DEF TypeOK
  <2>2. QED
    BY <1>1, <2>1 DEF TypeOK, JobRow
<1>4. Holder' = [Holder EXCEPT ![j] = c]
  <2>1. \A k \in Jobs : Holder'[k] = IF k = j THEN c ELSE Holder[k]
    BY <1>1, <1>3 DEF Holder
  <2>2. Holder' = [k \in Jobs |-> Holder'[k]] /\ Holder = [k \in Jobs |-> Holder[k]]
    BY Zenon DEF Holder
  <2> HIDE DEF j
  <2>3. QED
    BY <2>1, <2>2
<1>5. Holder[j] = 0 \/ Holder[j] \in {d \in Claims : lease[d] # "live"}
  <2>1. CASE job[j].status = "claimed"
    <3>1. job[j].claim \in Claims /\ job[j].claim # 0
      BY <1>1, <2>1, BakeJobsAssumption DEF IInv, ClaimInv, TypeOK
    <3>2. QED
      BY <1>1, <2>1, <3>1 DEF Claimable, LiveLease, Holder
  <2>2. CASE job[j].status # "claimed"
    BY <1>1, <2>2 DEF Holder
  <2>3. QED
    BY <2>1, <2>2
<1>6. Lease!Grant(j, c)
  BY <1>1, <1>2, <1>4, <1>5 DEF Lease!Grant
<1>7. QED
  BY <1>1, <1>6 DEF Lease!Next

LEMMA DeliverStep ==
  ASSUME IInv, NEW r \in Requests, CompleteCommit(r) PROVE [Lease!Next]_(Lease!vars)
<1> DEFINE j == req[r].on
<1>1. /\ TypeOK /\ j \in Jobs /\ HoldsClaim(j, req[r].token) /\ req[r].token \in Claims
      /\ job' = [job EXCEPT ![j] = [job[j] EXCEPT !.status = "completed"]]
      /\ delivered' = [delivered EXCEPT ![req[r].token] = delivered[req[r].token] + 1]
      /\ UNCHANGED <<granted, lease>>
  BY DEF CompleteCommit, IInv, RequestOK
<1>2. job'[j].status = "completed" /\ \A k \in Jobs : k # j => job'[k] = job[k]
  <2>1. job[j] \in JobRow
    BY <1>1 DEF TypeOK
  <2>2. QED
    BY <1>1, <2>1 DEF TypeOK, JobRow
<1>3. Holder[j] = req[r].token /\ Holder[j] # 0
  BY <1>1, BakeJobsAssumption DEF Holder, HoldsClaim
<1>4. Holder' = [Holder EXCEPT ![j] = 0]
  <2>1. \A k \in Jobs : Holder'[k] = IF k = j THEN 0 ELSE Holder[k]
    BY <1>1, <1>2 DEF Holder
  <2>2. Holder' = [k \in Jobs |-> Holder'[k]] /\ Holder = [k \in Jobs |-> Holder[k]]
    BY Zenon DEF Holder
  <2> HIDE DEF j
  <2>3. QED
    BY <2>1, <2>2
<1>5. Lease!Deliver(j)
  BY <1>1, <1>3, <1>4 DEF Lease!Deliver
<1>6. QED
  BY <1>1, <1>5 DEF Lease!Next

\* Every step of the job lifecycle is a step of the abstract lease, or none.
LEMMA LeaseSteps == IInv /\ [Next]_vars => [Lease!Next]_(Lease!vars)
<1> SUFFICES ASSUME IInv, [Next]_vars PROVE [Lease!Next]_(Lease!vars)
  OBVIOUS
<1>a. TypeOK
  BY DEF IInv
<1>b. ASSUME NEW j \in Jobs, NEW status \in JobStatus
      PROVE  [job[j] EXCEPT !.status = status].status = status
  BY <1>a, RowStatus DEF TypeOK
<1>1. ASSUME NEW r \in Requests, Create(r) PROVE [Lease!Next]_(Lease!vars)
  <2>1. ASSUME NEW j \in Jobs, TriggerCommit(r, j) PROVE [Lease!Next]_(Lease!vars)
    <3>1. req[r].row.status = "awaiting_client"
      BY <2>1 DEF TriggerCommit, IInv, RequestOK
    <3>2. ASSUME NEW k \in Jobs, job'[k].status = "claimed" PROVE job'[k] = job[k]
      BY <2>1, <3>1, <3>2, <1>b DEF TriggerCommit
    <3>3. QED
      BY <2>1, <3>2, ReleaseStep DEF TriggerCommit
  <2>2. CASE UNCHANGED <<job, granted, lease, delivered>>
    BY <2>2, StutterStep
  <2>3. QED
    BY <1>1, <2>1, <2>2 DEF Create, TriggerRead, TriggerLock, TriggerDirect, TriggerBusy
<1>2. ASSUME NEW r \in Requests, Claim(r) PROVE [Lease!Next]_(Lease!vars)
  <2>1. ASSUME ClaimInvalid(r) PROVE [Lease!Next]_(Lease!vars)
    <3>1. granted + 1 \in Claims \ (1..granted) /\ 1..granted' = (1..granted) \cup {granted + 1}
          /\ Holder' = Holder /\ UNCHANGED <<lease, delivered>>
      BY <2>1, <1>a, BakeJobsAssumption DEF ClaimInvalid, TypeOK, Holder
    <3>2. Lease!Discard(granted + 1)
      BY <3>1 DEF Lease!Discard
    <3>3. QED
      BY <3>1, <3>2 DEF Lease!Next
  <2>2. CASE UNCHANGED <<job, granted, lease, delivered>>
    BY <2>2, StutterStep
  <2>3. QED
    BY <1>2, <2>1, <2>2, GrantStep DEF Claim, ClaimRead, ClaimLost
<1>3. ASSUME NEW r \in Requests, Report(r) PROVE [Lease!Next]_(Lease!vars)
  <2>1. ASSUME CompleteReject(r) PROVE [Lease!Next]_(Lease!vars)
    <3>1. ASSUME NEW k \in Jobs, job'[k].status = "claimed" PROVE job'[k] = job[k]
      BY <2>1, <3>1, <1>a, <1>b DEF CompleteReject, TypeOK
    <3>2. QED
      BY <2>1, <3>1, ReleaseStep DEF CompleteReject
  <2>2. CASE UNCHANGED <<job, granted, lease, delivered>>
    BY <2>2, StutterStep
  <2>3. QED
    BY <1>3, <2>1, <2>2, DeliverStep
       DEF Report, CompleteLock, CompleteInvalid, CompleteCopy, FailLock
<1>4. ASSUME NEW r \in Requests, Override(r) PROVE [Lease!Next]_(Lease!vars)
  BY <1>4, StutterStep
     DEF Override, CancelRead, CancelFlush, RetryRead, RetryFlush, RetryConflict
<1>5. ASSUME NEW r \in Requests, Close(r) PROVE [Lease!Next]_(Lease!vars)
  <2>1. ASSUME WriteCommit(r) PROVE [Lease!Next]_(Lease!vars)
    <3>1. req[r].row.status # "claimed"
      BY <2>1 DEF WriteCommit, IInv, RequestOK
    <3>2. ASSUME NEW k \in Jobs, job'[k].status = "claimed" PROVE job'[k] = job[k]
      BY <2>1, <3>1, <3>2, <1>a DEF WriteCommit, TypeOK
    <3>3. QED
      BY <2>1, <3>2, ReleaseStep DEF WriteCommit
  <2>2. CASE DeleteStaging(r) \/ Abort(r)
    BY <2>2, StutterStep DEF DeleteStaging, Abort
  <2>3. QED
    BY <1>5, <2>1, <2>2 DEF Close
<1>6. ASSUME Sweep PROVE [Lease!Next]_(Lease!vars)
  <2>1. ASSUME SweepCommit PROVE [Lease!Next]_(Lease!vars)
    <3>1. ASSUME NEW k \in Jobs, job'[k].status = "claimed" PROVE job'[k] = job[k]
      BY <2>1, <3>1, <1>b DEF SweepCommit
    <3>2. QED
      BY <2>1, <3>1, ReleaseStep DEF SweepCommit
  <2>2. CASE SweepUpdate \/ SweepDelete \/ SweepAbort
    BY <2>2, StutterStep DEF SweepUpdate, SweepDelete, SweepAbort
  <2>3. QED
    BY <1>6, <2>1, <2>2 DEF Sweep
<1>7. ASSUME Environment PROVE [Lease!Next]_(Lease!vars)
  <2>1. ASSUME NEW c \in Claims, LeaseTick(c) PROVE [Lease!Next]_(Lease!vars)
    <3>1. /\ c \in 1..granted /\ Holder' = Holder /\ UNCHANGED <<granted, delivered>>
          /\ lease'[c] # "live" /\ \A d \in Claims : d # c => lease'[d] = lease[d]
      BY <2>1, <1>a, BakeJobsAssumption DEF LeaseTick, TypeOK, Holder
    <3>2. {d \in Claims : lease'[d] # "live"} = {d \in Claims : lease[d] # "live"} \cup {c}
      BY <3>1
    <3>3. Lease!Lapse(c)
      BY <3>1, <3>2 DEF Lease!Lapse
    <3>4. QED
      BY <3>3 DEF Lease!Next
  <2>2. CASE UNCHANGED <<job, granted, lease, delivered>>
    BY <2>2, StutterStep
  <2>3. QED
    BY <1>7, <2>1, <2>2 DEF Environment, SaveDesign, ReplaceModel, Upload
<1>8. CASE UNCHANGED vars
  BY <1>8, StutterStep DEF vars
<1>9. QED
  BY <1>1, <1>2, <1>3, <1>4, <1>5, <1>6, <1>7, <1>8 DEF Next

\* The claim protocol implements the fenced lease: jobs have one holder, claims are never
\* reused, a live holder is not displaced, and only the holder delivers.
THEOREM ImplementsLease == Spec => FencedLeaseSpec
<1>1. QED
  BY LeaseInitial, LeaseSteps, JobInvariant, PTL DEF Spec, FencedLeaseSpec, Lease!Spec
-----------------------------------------------------------------------------
(* What becomes of a completed job.                                         *)

\* What a step does to the status of a job: the actions that write rows, and what they write.
LEMMA StatusMoves ==
    ASSUME IInv, [Next]_vars, NEW j \in Jobs
    PROVE  \/ job'[j].status = job[j].status
           \/ /\ job[j].status \in Active \cup {"absent"}
              /\ job'[j].status # "completed"
           \/ \E r \in Requests : /\ req[r].on = j /\ req[r].pc = "write" /\ WriteCommit(r)
                                  /\ job'[j].status # "completed"
           \/ \E r \in Requests : req[r].on = j /\ req[r].pc = "commit" /\ CompleteCommit(r)
<1>1. TypeOK /\ \A k \in Jobs : job[k] \in JobRow
  BY DEF IInv, TypeOK
<1>2. ASSUME NEW k \in Jobs, NEW status \in JobStatus
      PROVE  [job[k] EXCEPT !.status = status].status = status
  BY <1>1, RowStatus
<1>3. ASSUME NEW r \in Requests, NEW k \in Jobs, TriggerCommit(r, k)
      PROVE  \/ job'[j].status = job[j].status
             \/ job[j].status \in Active \cup {"absent"} /\ job'[j].status # "completed"
  <2>1. req[r].row.status = "awaiting_client"
    BY <1>3 DEF TriggerCommit, IInv, RequestOK
  <2>2. [job[j] EXCEPT !.status = "cancelled"].status = "cancelled"
    BY <1>2 DEF JobStatus, Active
  <2> QED
    BY <1>3, <2>1, <2>2 DEF TriggerCommit, ActiveOf
<1>4. ASSUME NEW r \in Requests, ClaimGrant(r)
      PROVE  \/ job'[j].status = job[j].status
             \/ job[j].status \in Active /\ job'[j].status # "completed"
  <2>1. job[req[r].on].status \in Active
    BY <1>4 DEF ClaimGrant, Claimable, Active
  <2>2. /\ job'[j].status = IF j = req[r].on THEN "claimed" ELSE job[j].status
    BY <1>1, <1>4 DEF ClaimGrant, TypeOK, JobRow
  <2> QED
    BY <2>1, <2>2
<1>5. ASSUME NEW r \in Requests, CompleteReject(r)
      PROVE  \/ job'[j].status = job[j].status
             \/ job[j].status \in Active /\ job'[j].status # "completed"
  <2>1. job[req[r].on].status = "claimed"
    BY <1>5 DEF CompleteReject, IInv, RequestOK, HoldsClaim
  <2>2. job'[j].status = IF j = req[r].on THEN "failed" ELSE job[j].status
    BY <1>1, <1>5 DEF CompleteReject, TypeOK, JobRow
  <2> QED
    BY <2>1, <2>2 DEF Active
<1>6. ASSUME NEW r \in Requests, CompleteCommit(r)
      PROVE  job'[j].status = job[j].status \/ (req[r].on = j /\ req[r].pc = "commit")
  BY <1>1, <1>6 DEF CompleteCommit, TypeOK
<1>7. ASSUME NEW r \in Requests, WriteCommit(r)
      PROVE  \/ job'[j].status = job[j].status
             \/ req[r].on = j /\ req[r].pc = "write" /\ job'[j].status # "completed"
  <2>1. req[r].pc = "write" /\ req[r].row.status # "completed"
    BY <1>7 DEF WriteCommit, IInv, RequestOK
  <2>2. job'[j] = IF j = req[r].on THEN req[r].row ELSE job[j]
    BY <1>1, <1>7 DEF WriteCommit, TypeOK
  <2> QED
    BY <2>1, <2>2
<1>8. ASSUME SweepCommit
      PROVE  \/ job'[j].status = job[j].status
             \/ job[j].status \in Active /\ job'[j].status # "completed"
  <2>1. j \in sweeper.swept => job[j].status = "claimed"
    BY <1>8 DEF SweepCommit, IInv, SweptInv, SweeperHolds
  <2>2. [job[j] EXCEPT !.status = "failed"].status = "failed"
    BY <1>2 DEF JobStatus, Active
  <2> QED
    BY <1>8, <2>1, <2>2 DEF SweepCommit, Active
<1>9. CASE UNCHANGED job
  BY <1>9
<1>10. ASSUME NEW r \in Requests, Create(r) \/ Claim(r)
       PROVE  \/ job'[j].status = job[j].status
              \/ job[j].status \in Active \cup {"absent"} /\ job'[j].status # "completed"
  BY <1>3, <1>4, <1>10
     DEF Create, TriggerRead, TriggerLock, TriggerDirect, TriggerBusy,
         Claim, ClaimRead, ClaimInvalid, ClaimLost
<1>11. ASSUME NEW r \in Requests, Report(r)
       PROVE  \/ job'[j].status = job[j].status
              \/ job[j].status \in Active /\ job'[j].status # "completed"
              \/ req[r].on = j /\ req[r].pc = "commit" /\ CompleteCommit(r)
  BY <1>5, <1>6, <1>11 DEF Report, CompleteLock, CompleteInvalid, CompleteCopy, FailLock
<1>12. ASSUME NEW r \in Requests, Override(r) PROVE UNCHANGED job
  BY <1>12 DEF Override, CancelRead, CancelFlush, RetryRead, RetryFlush, RetryConflict
<1>13. CASE Sweep \/ Environment
  BY <1>8, <1>13 DEF Sweep, SweepUpdate, SweepDelete, SweepAbort,
                     Environment, SaveDesign, ReplaceModel, Upload, LeaseTick
<1>14. ASSUME NEW r \in Requests, Close(r)
       PROVE  \/ job'[j].status = job[j].status
              \/ /\ req[r].on = j /\ req[r].pc = "write" /\ WriteCommit(r)
                 /\ job'[j].status # "completed"
  BY <1>7, <1>14 DEF Close, DeleteStaging, Abort
<1> QED
  BY <1>9, <1>10, <1>11, <1>12, <1>13, <1>14 DEF Next, vars

\* A request that is about to write a failure found the row unfinished, under its lock.
LEMMA WriteBegins ==
    ASSUME IInv, [Next]_vars,
           NEW q \in Requests, req'[q].pc = "write", req'[q] # req[q],
           req'[q].row.status = "failed"
    PROVE  job' = job /\ job[req'[q].on].status # "completed"
<1>1. TypeOK /\ req'[q].pc = "write" /\ req'[q].row.status = "failed"
  BY DEF IInv
<1>2. ASSUME NEW r \in Requests, NEW s, Move(r, s)
      PROVE  r = q /\ req'[q] = s
  BY <1>1, <1>2 DEF Move, TypeOK
<1>3. ASSUME NEW r \in Requests, NEW stale, Finish(r, stale) PROVE FALSE
  <2>1. PICK s : s.pc # "write" /\ Move(r, s)
    <3>1. Idle.pc # "write" /\ [Idle EXCEPT !.pc = "delete", !.stale = stale].pc = "delete"
      BY DEF Idle
    <3> QED
      BY <1>3, <3>1 DEF Finish
  <2> QED
    BY <1>2, <2>1
<1>4. \A r \in Requests : req[r] \in RequestState
  BY <1>1 DEF TypeOK
<1>5. Idle.pc = "idle"
  BY DEF Idle
<1>6. ASSUME NEW r \in Requests, Create(r) PROVE FALSE
  <2>1. ASSUME NEW j \in Jobs, TriggerCommit(r, j) PROVE FALSE
    BY <1>3, <2>1 DEF TriggerCommit
  <2>2. CASE TriggerLock(r) \/ TriggerBusy(r)
    BY <1>2, <1>4, <1>5, <2>2 DEF TriggerLock, TriggerBusy, RequestState
  <2>3. ASSUME NEW p \in Projects, TriggerRead(r, p) PROVE FALSE
    <3> DEFINE new == [req[r] EXCEPT !.pc = "trigger", !.in = p, !.row = NewJob(p, "bake"),
                                     !.status = StatusWrite(p, "baking")]
    <3>1. new.pc = "trigger"
      BY <1>4 DEF RequestState
    <3>2. Move(r, new)
      BY <2>3 DEF TriggerRead
    <3> QED
      BY <1>1, <1>2, <3>1, <3>2
  <2>4. ASSUME NEW p \in Projects, NEW kind \in {"bake", "prepare"}, TriggerDirect(r, p, kind)
        PROVE  FALSE
    <3> DEFINE status == IF kind = "bake" THEN StatusWrite(p, "baking") ELSE "keep"
               new == [req[r] EXCEPT !.pc = "supersede", !.in = p, !.row = NewJob(p, kind),
                                     !.status = status]
    <3>1. Move(r, new)
      BY <2>4 DEF TriggerDirect
    <3> HIDE DEF status
    <3>2. new.pc = "supersede"
      BY <1>4 DEF RequestState
    <3> QED
      BY <1>1, <1>2, <3>1, <3>2
  <2> QED
    BY <1>6, <2>1, <2>2, <2>3, <2>4 DEF Create
<1>7. ASSUME NEW r \in Requests, Claim(r)
      PROVE  job' = job /\ job[req'[q].on].status # "completed"
  <2>1. CASE ClaimInvalid(r)
    <3>1. req'[q].on = req[r].on
      <4> DEFINE row == [job[req[r].on] EXCEPT !.status = "failed", !.claim = granted + 1,
                                               !.issued = 0]
                 new == [req[r] EXCEPT !.pc = "write", !.row = row]
      <4>1. Move(r, new)
        BY <2>1 DEF ClaimInvalid
      <4> HIDE DEF row
      <4>2. new.on = req[r].on
        BY <1>4 DEF RequestState
      <4> QED
        BY <1>2, <4>1, <4>2
    <3> QED
      BY <2>1, <3>1 DEF ClaimInvalid, Claimable
  <2>2. ~ClaimGrant(r) /\ ~ClaimLost(r)
    BY <1>2, <1>3, <1>5 DEF ClaimGrant, ClaimLost
  <2>3. ASSUME NEW j \in Jobs, ClaimRead(r, j) PROVE FALSE
    <3> DEFINE new == [req[r] EXCEPT !.pc = "claim", !.on = j,
                                     !.status = StatusWrite(ProjectOf[j], "in_progress"),
                                     !.stale = OutputPaths(job[j])]
    <3>1. new.pc = "claim"
      BY <1>4 DEF RequestState
    <3>2. Move(r, new)
      BY <2>3 DEF ClaimRead
    <3> QED
      BY <1>1, <1>2, <3>1, <3>2
  <2> QED
    BY <1>7, <2>1, <2>2, <2>3 DEF Claim
<1>8. ASSUME NEW r \in Requests, Report(r)
      PROVE  job' = job /\ job[req'[q].on].status # "completed"
  <2>1. ASSUME NEW j \in Jobs, NEW c \in Claims, FailLock(r, j, c)
        PROVE  job' = job /\ job[req'[q].on].status # "completed"
    <3>1. req'[q].on = j
      <4> DEFINE new == [req[r] EXCEPT !.pc = "write", !.on = j,
                                       !.status = StatusWrite(ProjectOf[j], "in_progress"),
                                       !.row = [job[j] EXCEPT !.status = "failed"],
                                       !.stale = OutputPaths(job[j])]
      <4>1. new.on = j
        BY <1>4 DEF RequestState
      <4>2. Move(r, new)
        BY <2>1 DEF FailLock
      <4> QED
        BY <1>2, <4>1, <4>2
    <3> QED
      BY <2>1, <3>1 DEF FailLock, HoldsClaim
  <2>2. ASSUME NEW j \in Jobs, NEW c \in Claims, CompleteLock(r, j, c) PROVE FALSE
    <3> DEFINE new == [req[r] EXCEPT !.pc = "project", !.on = j, !.in = ProjectOf[j],
                                     !.token = c]
    <3>1. new.pc = "project"
      BY <1>4 DEF RequestState
    <3>2. Move(r, new)
      BY <2>2 DEF CompleteLock
    <3> QED
      BY <1>1, <1>2, <3>1, <3>2
  <2>3. CASE CompleteInvalid(r) \/ CompleteCopy(r)
    BY <1>2, <1>4, <1>5, <2>3 DEF CompleteInvalid, CompleteCopy, RequestState
  <2>4. ~CompleteReject(r) /\ ~CompleteCommit(r)
    BY <1>3 DEF CompleteReject, CompleteCommit
  <2> QED
    BY <1>8, <2>1, <2>2, <2>3, <2>4 DEF Report
<1>9. ASSUME NEW r \in Requests, Override(r)
      PROVE  job' = job /\ job[req'[q].on].status # "completed"
  <2>0. /\ req[r].pc \in {"cancel", "requeue"} => req[r].on \in Jobs
        /\ req[r].pc = "cancel" => req[r].row.status \in Active
        /\ req[r].pc = "requeue" => req[r].row.status = "failed"
        /\ \A k \in Jobs : job[k] \in JobRow
    BY <1>1 DEF IInv, RequestOK, TypeOK
  <2>1. ASSUME CancelFlush(r) PROVE FALSE
    <3> DEFINE row == [job[req[r].on] EXCEPT
                         !.status = Column(@, req[r].row.status, "cancelled")]
               new == [req[r] EXCEPT !.pc = "write", !.row = row]
    <3>1. row.status = "cancelled"
      BY <2>0, <2>1 DEF CancelFlush, Column, Active, JobRow
    <3>2. Move(r, new)
      BY <2>1 DEF CancelFlush
    <3> HIDE DEF row
    <3>3. new.row = row
      BY <1>4 DEF RequestState
    <3> QED
      BY <1>1, <1>2, <3>1, <3>2, <3>3
  <2>5. ASSUME RetryFlush(r) PROVE FALSE
    <3> DEFINE row == [job[req[r].on] EXCEPT
                         !.status = Column(@, req[r].row.status, "awaiting_client"),
                         !.claim = Column(@, req[r].row.claim, 0),
                         !.issued = Column(@, req[r].row.issued, 0)]
               new == [req[r] EXCEPT !.pc = "write", !.row = row]
    <3>1. row.status = "awaiting_client"
      BY <2>0, <2>5 DEF RetryFlush, Column, JobRow
    <3>2. Move(r, new)
      BY <2>5 DEF RetryFlush
    <3> HIDE DEF row
    <3>3. new.row = row
      BY <1>4 DEF RequestState
    <3> QED
      BY <1>1, <1>2, <3>1, <3>2, <3>3
  <2>2. ASSUME NEW j \in Jobs, CancelRead(r, j) PROVE FALSE
    <3>1. PICK status : Move(r, [req[r] EXCEPT !.pc = "cancel", !.on = j, !.row = job[j],
                                               !.status = status,
                                               !.stale = OutputPaths(job[j])])
      BY <2>2 DEF CancelRead
    <3>2. [req[r] EXCEPT !.pc = "cancel", !.on = j, !.row = job[j], !.status = status,
                         !.stale = OutputPaths(job[j])].pc = "cancel"
      BY <1>4 DEF RequestState
    <3> QED
      BY <1>1, <1>2, <3>1, <3>2
  <2>4. ASSUME NEW j \in Jobs, RetryRead(r, j) PROVE FALSE
    <3>1. PICK status : Move(r, [req[r] EXCEPT !.pc = "requeue", !.on = j, !.row = job[j],
                                               !.status = status])
      BY <2>4 DEF RetryRead
    <3>2. [req[r] EXCEPT !.pc = "requeue", !.on = j, !.row = job[j],
                         !.status = status].pc = "requeue"
      BY <1>4 DEF RequestState
    <3> QED
      BY <1>1, <1>2, <3>1, <3>2
  <2>3. ~RetryConflict(r)
    BY <1>2, <1>5 DEF RetryConflict
  <2> QED
    BY <1>9, <2>1, <2>2, <2>3, <2>4, <2>5 DEF Override
<1>10. ASSUME NEW r \in Requests, Close(r) PROVE FALSE
  BY <1>2, <1>3, <1>5, <1>10 DEF Close, WriteCommit, DeleteStaging, Abort
<1>11. CASE Sweep \/ Environment \/ UNCHANGED vars
  <2>1. UNCHANGED req
    BY <1>11 DEF Sweep, SweepUpdate, SweepCommit, SweepDelete, SweepAbort, Environment,
                 SaveDesign, ReplaceModel, Upload, LeaseTick, vars
  <2> QED
    BY <2>1
<1> QED
  BY <1>6, <1>7, <1>8, <1>9, <1>10, <1>11 DEF Next

\* Who holds a job's row to write it holds it until the commit, so nobody completes the job
\* meanwhile.
LEMMA UndoKept ==
    ASSUME IInv, UndoInv, [Next]_vars
    PROVE  UndoInv'
<1>1. SUFFICES ASSUME NEW q \in Requests, req'[q].pc = "write", req'[q].row.status = "failed"
               PROVE  job'[req'[q].on].status # "completed"
  BY DEF UndoInv
<1>2. CASE req'[q] # req[q]
  BY <1>1, <1>2, WriteBegins
<1>3. CASE req'[q] = req[q]
  <2>1. /\ req[q].pc = "write" /\ req[q].on \in Jobs
        /\ job[req[q].on].status # "completed"
    BY <1>1, <1>3 DEF UndoInv, IInv, RequestOK
  <2>2. ASSUME NEW r \in Requests, req[r].on = req[q].on, req[r].pc = "commit" PROVE FALSE
    BY <2>1, <2>2 DEF IInv, LockInv, HoldsJob
  <2> QED
    BY <1>3, <2>1, <2>2, StatusMoves
<1> QED
  BY <1>2, <1>3

\* However many triggers, claims, reports, cancels, retries and sweeps run at once, a completed
\* job is only left by the commit of a cancel or a requeue.
THEOREM CompletionStays == Spec => CompletionUndone
<1>1. Init => UndoInv
  BY DEF Init, UndoInv, Idle
<1>2. Spec => []UndoInv
  BY <1>1, UndoKept, JobInvariant, PTL DEF Spec
<1>3. ASSUME IInv, UndoInv, [Next]_vars, NEW j \in Jobs, job[j].status = "completed",
             job'[j].status # "completed"
      PROVE  \E r \in Requests : /\ req[r].pc = "write" /\ req[r].on = j
                                 /\ req[r].row.status \in {"cancelled", "awaiting_client"}
                                 /\ job'[j] = req[r].row
  <2>1. ASSUME NEW r \in Requests, req[r].on = j, req[r].pc = "commit" PROVE FALSE
    BY <1>3, <2>1 DEF IInv, RequestOK, HoldsClaim
  <2>2. PICK r \in Requests : req[r].on = j /\ req[r].pc = "write" /\ WriteCommit(r)
    BY <1>3, <2>1, StatusMoves DEF Active
  <2>3. req[r].row.status \in {"cancelled", "awaiting_client"}
    BY <1>3, <2>2 DEF UndoInv, IInv, RequestOK
  <2>4. job'[j] = req[r].row
    BY <1>3, <2>2 DEF WriteCommit, IInv, TypeOK
  <2> QED
    BY <2>2, <2>3, <2>4
<1>4. IInv /\ UndoInv /\ [Next]_vars =>
        [\A j \in Jobs : job[j].status = "completed" /\ job'[j].status # "completed" =>
            \E r \in Requests : /\ req[r].pc = "write" /\ req[r].on = j
                                /\ req[r].row.status \in {"cancelled", "awaiting_client"}
                                /\ job'[j] = req[r].row]_vars
  BY <1>3
<1> QED
  BY <1>2, <1>4, JobInvariant, PTL DEF Spec, CompletionUndone
=============================================================================
