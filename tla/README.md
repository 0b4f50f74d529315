# KusShoes in TLA+

This directory models the backend of KusShoes (`src/BE/app`: FastAPI and SQLAlchemy on PostgreSQL,
with Redis and Celery beat) in TLA+, checks the models with TLC and proves theorems about them
with TLAPS. The React front end (`src/FE`) keeps no state that another actor depends on and is not
modelled.

Three facts about the code decide how everything here is modelled:

- A request, and a run of a periodic task, is one database transaction under READ COMMITTED.
  `get_db` (`database.py:30-39`) commits when the handler returns and rolls back when it raises. A
  few handlers commit earlier by themselves and go on.
- Sessions keep loaded instances (`expire_on_commit=False`) and do not refresh them on a second
  SELECT. What a request decides on is what it loaded first.
- A flush writes the columns whose value differs from the loaded one, by primary key, and no
  other. Two sessions that wrote the same row from different snapshots mix column by column.

A row is locked from a `SELECT ... FOR UPDATE`, or from the flush of an UPDATE, to the end of the
transaction. Most of the code takes no lock before it reads.

## Inventory

| Component | State | Operations | What makes it correct | Module |
|---|---|---|---|---|
| 3D job lifecycle (`job_service`, `bake_job_repo`, `bake_service`) | `bake_jobs` rows, staging objects | create (bake, prepare), supersede, claim, complete, fail, cancel, retry, sweep | one active job per project; a claim delivers once; staging keys of the current claim survive; every claim ends | BakeJobs, FencedLease |
| Job callers (`project_service`, `editor_service`, `admin_service`) | `projects` rows | trigger, retry, cancel | the project a completion writes is the one it checked | BakeJobs |
| Design, versions, templates (`project_service`, `editor_service`, `version_service`, `template_service`) | `projects`, `design_revisions`, `design_versions` | save, restore a version, apply a template, bake, prepare | no save is lost; what was exported stays in a history of bounded size | Studio |
| Projects, uploads, trash (`asset_service`, `project_service`, `maintenance_service`) | `projects`, `project_assets`, objects in storage | upload, confirm, delete, trash, restore, purge, sweep | the model of a live project is confirmed, stored, and about to be deleted by nobody | Projects |
| Artisan links (`artisan_link_service`) and moderation (`moderation_service`) | links, reports, actions on an owner | create, revoke, renew, download; report, dismiss, uphold | downloads stay in the limit; one level of the ladder per upheld report | Sharing, SharingPromise |
| Plan billing (`billing_service`, `webhooks`, `invoice_repo`, `subscription_repo`, `refund_repo`) | invoices, subscription, refunds | checkout, PayOS and MoMo webhooks, manual payments, stale sweep, refund, grace, downgrade, grant | an invoice follows its life cycle; what is paid is delivered; no plan without money; refunds are bounded; grace ends | Billing |
| Coupons and activation codes (`coupon_service`) | coupons, redemptions | preview, redeem a code, redeem at payment, edit | a code is redeemed within its limit, once per account | Coupons |
| Scan quota and Credits (`quota_service`, `credit_service`, `scan_credit_repo`) | `monthly_usage`, `scan_credits`, Credit invoices | accept, confirm, charge, buy, mint, refund, expire | a scan is charged once; the plan is not overdrawn; a Credit only moves forward | ScanQuota, ScanLedger |
| API cost budget (`api_cost_service`) | `api_cost_entries`, `api_budget_periods` | record, set budget, daily check, gate | one alert a month; a stamped month refuses scans; a month over budget is stamped | ApiBudget |
| Sign-up (`auth_service`, `otp_store`) | `users` row, code and lock in Redis | register, verify, resend, Google sign-in | a password counts only when its author showed the mailbox is theirs | SignUp |
| Sign-in, second factor (`auth_service`, `twofa_service`, `login_guard`, `twofa_store`) | counters, locks and challenge in Redis, secret and recovery codes | both factors, set up, enable, disable | wrong answers are counted; recovery codes are those of the current enrolment | SignIn |
| Account life cycle (`auth_service`, `user_service`, `maintenance_service`) | `users` row, refresh tokens, mailed codes | sign in and out, change and reset the password, suspend, delete, restore, purge | a purge is final, and happens | Accounts |
| Launch, authorization codes, SSO (`auth_service`) | one-time records in Redis | create, claim, exchange | one session per record, for one program | Launch, OneTimeSecret |
| Routers and dependencies (`routers/*`, `dependencies.py`) | tokens as issued | every endpoint with the guard it declares | what a credential opens, whatever became of its account | Access |
| Migrations (`migrations/versions`) and ORM models | tables, columns, CHECK constraints | upgrade, downgrade | the newest schema serves the models; no row stops a step | Migrations, Models |
| Periodic tasks (`maintenance_service`, Celery beat) | none of its own | abandoned claims, stale invoices, grace, Credits, trash, uploads, accounts, budget | what a task lists is still true when it writes; what it is for happens | in the modules of the rows they write; MCPeriodic |
| Mobile scan grants (`mobile_service`) | Redis grants, locks, completion records | bootstrap, create output, confirm | a grant is used once, a record never goes back | intake and confirmation in ScanQuota |
| Reporting periods and ledger (`period_service`, `finance_service`) | periods, adjustments | open, lock, correct | a locked period does not change | not modelled |
| Receipts, gateway clients, e-mail, exports, reports, analytics, data import, front end, deployment | files and read models | | | not modelled (see below) |

The parts interact through PostgreSQL rows, Redis keys, object storage, and calls inside one
process: `project_service` and `admin_service` call `job_service`, `job_service` counts exports,
the webhook calls `billing_service.activate_invoice`, which mints Credits through `credit_service`
and redeems coupons through `coupon_service`, `mobile_service` completes an asset and charges the
scan in one transaction, and the intake of scans asks the API budget. Celery beat runs the
periodic tasks beside all of it.

What is hard in this code, and hardly reached by its tests, is listed line by line under `hazards`
in `PROJECT.json`: rows read without a lock and used later, check-then-act on quotas, webhooks
that are repeated or late, sweeps that race users, locks taken in opposite orders, a commit in the
middle of a handler, documents in Redis rewritten by GET and SET, a lock in Redis that lapses
before the work it guards.

## The modules

Every module of a component has the same shape. Committed rows are variables. `req` keeps one
record per request being served: the step it is at, what it has loaded, and what it has written
but not committed. An action is a maximal piece of a handler between two points where another
transaction can matter: the first read, a statement that waits for a row lock, the commit, a
command to Redis or to storage, a clean-up after the commit. Row locks follow from the steps in
BakeJobs, Billing and ScanQuota (`HoldsJob`, `Holds`, `UsageHeld`, `HoldsRow`) and are a variable
in the smaller modules (`holder`, `lock`). `Abort` or `Refuse` is a rollback at any step: an
exception, a crash of the worker, a deadlock broken by PostgreSQL.

### BakeJobs and FencedLease: the life of a 3D job

`job` holds the `bake_jobs` rows, `project` the columns of `projects` that jobs touch, `exports`
the counter of the month. The claim id, the token whose hash is kept, and the staging keys issued
with it are written together in the code and are one number. `lease` says where the clock stands
for each claim: live, past `claim_expires_at`, or past the limit of the sweep. `staged` are the
claims whose outputs are uploaded; `sweeper` is the hourly task; `delivered` is a history
variable.

| Actions | Code |
|---|---|
| TriggerRead, TriggerLock, TriggerDirect, TriggerBusy, TriggerCommit | `trigger_bake` on both routes (the editor route has read the project before it locks it), `trigger_prepare`, `create_bake_job`, `_supersede_active` |
| ClaimRead, ClaimGrant, ClaimInvalid, ClaimLost | `claim_job`: unlocked read, conditional UPDATE, source validation, commit, then deletion of the previous keys |
| CompleteLock, CompleteReject, CompleteInvalid, CompleteCopy, CompleteCommit, FailLock | `complete_job` and `fail_job` under `FOR UPDATE` of the job, then of the project |
| CancelRead, CancelFlush, RetryRead, RetryFlush, RetryConflict, WriteCommit | cancel and retry of owner and admin: read without a lock, written later |
| DeleteStaging, Abort | what runs after a commit, and what undoes a transaction |
| SweepUpdate, SweepCommit, SweepDelete, SweepAbort | `sweep_expired_claims` |
| SaveDesign, ReplaceModel, Upload, LeaseTick | design saves, a new canonical model, the desktop's uploads, time |

The partial unique index on active jobs is `ActiveClash` / `PendingClash`: an insert or update
waits for a transaction that has written a clashing row, and fails if that row is committed.

`FencedLease` is the abstract promise of the claim protocol: a job has at most one holder, a claim
is handed out once, a live holder is not displaced by another claim, only the holder delivers.
`BakeJobs` maps to it by `Holder` (the claim of a committed claimed row), the claims handed out,
and the leases that have run out. `FencedLeaseSpec` is checked by TLC and proved.

### Billing: plan invoices and the subscription of one account

`invoice`, `subscription` and `locked` (projects read-only for want of a plan) are the rows of one
account; `refunds` the amount given back in halves of a price; `receipts` the receipts issued so
far; `collected` the invoices the gateway took money for; `now` a day. `Flushed(row, loaded, new)`
is the column-wise flush and the heart of the concurrent behaviour.

`Checkout`, `Collect` (the gateway), `ManualCreate`; `FailRead`, `RejectRead`, `StaleRead` and
`CloseCommit` (every way a pending invoice is closed); `PaymentRead`, `ApproveRead`, `MarkPaid`,
`AccountRead`, `Deliver` (a webhook delivered once, twice, late or after a close, and an approved
manual payment, through `activate_invoice`); `RefundRead`, `MarkRefunded`, `RefundAccount`,
`RefundCommit`; `EnterGraceRead`, `FinalizeGraceRead`, `DowngradeRead`, `CompRead`, `PlanCommit`
(the two grace tasks, cancellation and forced downgrade, a granted plan). `Deliver` issues a
receipt only if the account is found, which it is not once it is deleted
(`billing_service.py:898`), and the model allows both. Each request keeps the status it has
`seen`, so that a property can say whether the row it writes is still the one it read.

### ScanQuota and ScanLedger: what a scan costs

`scansUsed` per billing cycle with the `allowance` of each (a history variable), Credit
`invoice`s, the `credit` rows in the order they were minted, each scan's `asset` status, and its
confirmation `lock` in Redis. `Accept` is the intake gate;
`Confirm`, `MarkRaw` and `LockLapse` the confirmation with its lock of 15 seconds; `Replay`,
`LockUsage`, `Pick`, `Exhausted`, `Spend`, `ChargeCommit` the body of `consume_scan` (look for the
reference, lock the usage row, take a plan scan or the oldest Credit with SKIP LOCKED, mark it
under the unique index); `Checkout`, `CheckoutCommit`, `CloseRead`, `CloseCommit`, `PaymentRead`,
`MarkPaid`, `MintCommit`, `RefundRead`, `MarkRefunded`, `RefundCommit`, `ExpireDue` the life of a
Credit; `NewCycle`, `Upgrade`, `EnterGrace`, `Tick` the plan around it.

`ScanLedger` is what all of this promises the owner, without requests, locks, stale reads or the
unique index: an account book in which a charge (`TakePlanScan`, `TakeCredit`), a payment that
mints all Credits of its invoice or, repeated, none (`Pay`), a refund that takes back all that are
left (`Refund`) and the daily expiry (`Expire`) each happen at one instant. ScanQuota maps to it
by what an invoice sells and whether it is open, paid or refunded (`Sold`, `Settled`): a charge,
payment or refund takes place when its transaction commits, and what a request does before that
is a stutter. The book lets a late close open a settled invoice again, as the code does (compare
disagreement 2 below); the Credits do not follow. `ScanLedgerSpec` is checked and proved.

### ApiBudget: the budget of a month

`spent`, the month's `period` row with its two stamps, `alerts` handed to the queue. `RecordCall`,
`SetBudget` and `Check` all go through `LockPeriod`, `ApplyThresholds`, `Commit`, `EnqueueAlert`.
`IntakeOpen` is the gate that new scans pass. Months share nothing, so one is modelled.

### SignUp: one mailbox, one row

`user` is the row, `otp` and `locked` the code and its lock in Redis, `mailed` the newest code in
the mailbox, `proven` the history of who entered a mailed code. `RegisterRead`, `RegisterCommit`,
`RegisterMail`; `VerifyRead`, `CountRead`, `CountWrite`, `Lock` (attempts are counted by rewriting
the document), `Prove`, `VerifyCommit`; `ResendRead`, `RenewRead`, `RenewWrite`; `GoogleRead` and
its branches `GoogleCreate`, `GoogleLink`, `GoogleReclaim`, `GoogleReclaimed`, `GoogleSession`.

### SignIn: counters and the second factor

`fails`, `expiring` and `locked` are the three Redis keys of `login_guard` for passwords and for
second factors; `wrong` counts the answers that were really compared. `LoginRead`, `SecondRead`,
`AnswerWrong`, `Increment`, `Expire`, `SetLock`, `ClearFails` are the commands of one wrong
answer, each a step; `AnswerRight`, `ResetAll`, `Challenge`, `Answered` the right ones;
`WindowEnds`, `LockEnds` time. `SetupRead`, `EnableRead`, `DisableRead`, `LockRow`,
`EnrolmentFlush`, `EnableCommit`, `DisableCommit` are the enrolment, in which `codes` are the sets
of recovery codes that still have one unused.

### Accounts: from the first sign-in to the purge

`user` (password, Google, status, day of deletion, anonymized), `live` (an unrevoked refresh token
exists), `recovery` (the two mailed codes with their attempts), `worker` (the daily purge). A
request reads the row, works, and commits the columns it changes: `SessionRead`/`SessionCommit`,
`ChangeRead`, `PasswordCommit`, `RequestCode`, `CodeWrong`, `MiscountWrite`, `CodeRight`,
`DiscardCode`, `DeleteRead`/`DeleteCommit`, `RestoreCommit`, `SetStatus`, `LogOut`. The worker
reads accounts past the window (`FinalizeRead`) and anonymizes them later (`FinalizeCommit`), or
crashes in between.

### Launch, Coupons, Access

**Launch** has one kind of grant per protocol (desktop launch, Google sign-in of an app, SSO):
`Create`, `Claim` and `Claimed` (a ticket is taken and its authorization code stored in a later
step), `Exchange` and `Issue` (GETDEL, then the checks, then the session), `Expire`, `Abort`.

**OneTimeSecret** is its abstract promise, without records, requests or GETDEL: a grant is handed
out (`HandOut`, `HandOutTo`), is bound to one program (`Bind`), opens one session for that program
(`Open`) or none (`GiveUp`), and is over. Launch maps to it by `Live`: a grant is live while Redis
holds its record, or a request that took the record may still answer for it. A ticket that is
claimed twice, a code that is exchanged by the wrong program or twice, and a request that is cut
off after its GETDEL are a `GiveUp` or a stutter. `OneTimeSecretSpec` is checked and proved.

**Coupons**: `Redeem`, `CheckFree`, `Grant` are `redeem_plan_code` under the lock of the coupon's
row; `Checkout`, `PayLoad`, `Pay` the redemption of a paid invoice without it, with the lost
update of `used_count`; `UpdateCoupon` the admin; `PlanChanges` what else moves an account.

**Access** lists the endpoints of the routers, file by file, with the guard each declares and
whether it changes something. `Admitted(e, p)` is what the guards check at the time of the call;
the actions issue tokens (`SignIn`, `Impersonate`, `CreateTicket`, `Exchange`, `ClaimJob`) and
change the account and its projects afterwards.

### Studio, Projects, Sharing

**Studio**: a request loads the project's row FOR UPDATE and writes later, or, like the editor's
bake, has loaded it before. `revisions` and `versions` are the two histories; `Snapshot` and
`Prune` are `version_service`. `SaveDesign`, `ApplyTemplate`, `RestoreVersion` share
`NewRevision`; `TriggerBake` pins a version; `CompletePrepare` starts a design over.

**Projects**: rows and objects separately. `CreateUploadUrl`, `Put`, `ConfirmLoad`,
`ConfirmCheck`, `ConfirmWrite` are an upload, which ends `ready`, or `raw` for the output of a
scan; `CreateOutputUpload` registers the output of a scan again when its row was deleted, under
the same id and path. `DeleteLoad`, `DeleteWrite`, `SweepLoad`, `SweepWrite` take assets away;
`DeleteProject`, `RestoreLoad`, `RestoreWrite`, `PurgeLoad`, `PurgeWrite`, `CleanupLoad`,
`CleanupFiles`, `DeleteObject` are the trash and its tasks, which run days after they were queued.
Days pass under requests too (`DayPasses`): a restore looks at its window when it loads the
project and not again. The statuses `processing` and `failed` of an asset are named
(`editor_service.py:411`) but written nowhere, and are left out. `atRisk` is a history variable:
the assets that came back into use after their deletion was decided.

**Sharing**: `LockReport`, `LockUser`, `CountActions`, `Uphold`, `Dismiss` decide on a report;
`AdminLoad`, `AdminWrite` suspend and reactivate; `CreateLoad`, `CreateLink`, `RevokeLoad`,
`RevokeLink`, `RenewLoad`, `RenewLink`, `Resolve`, `Download` are a link, whose count goes up by a
conditional UPDATE.

**SharingPromise** is what people see of it who know nothing of requests, rows and locks: a report
is upheld or dismissed once, and upheld it adds the next level at that moment; a link that is
revoked stays so, and one that has expired opens again only when it is renewed; an open one gives
out what it has left. Sharing maps to it by the
state of each link (`LinkState`) and the history of its downloads. Whether the owner may still
share guards nothing there: the code asks when a request begins, and a restriction or a ban that
comes later lets it end. `SharingPromiseSpec` is checked and proved.

### Migrations and Models

`Models` holds the columns each ORM class maps. `Migrations` has the 34 revisions as `Chain`: what
each creates, drops, renames, converts and forbids, up and down. `Upgrade` and `Downgrade` apply
one step to the schema and to `row`, one value of one column that stands for the data and that
`Write` sets to anything the constraints admit; a step that the row violates does not apply.
Revision 016 exists in the two forms that databases really have.

### Compositions

Parts that share rows are one module (a job with its project, an invoice with the subscription, a
scan with its Credits, a report with its owner). Those that share none are checked side by side:
`MCPeriodic` (ApiBudget, BakeJobs, Billing, Accounts), `MCAccounts` (SignUp, SignIn, Accounts,
Launch, Coupons, Access, Migrations) and `MCStudio` (Sharing, Studio, Projects) instantiate them
and let one move while the others are in an initial state. Since no variable is shared, the
behaviours of each part are exactly those it has alone, and TLC adds their state spaces instead of
multiplying them. In `MCAccounts` the part that moves is chosen once (`moving`); in the other two
it is whichever left its initial state.

## What the runs check

Every property below is broken by at least one listed mutant of the code's model (a dropped lock,
an omitted guard, a missing reset), which is how we know that it speaks about the code.

| Run | Instance | Distinct states | What it shows |
|---|---|---|---|
| `bake_rows` | 1 project, 2 job rows, 2 requests, 1 claim, 1 model | 234 k | one active job per project, and the inductive invariant `IInv` |
| `bake_claims` | 1 job row, 2 requests, 2 claims, 2 models | 1.85 M | a claim delivers once; no pending deletion aims at the current keys; a completion commits on what it checked; refinement of FencedLease |
| `billing_serial` | 2 invoices, 1 request at a time, 2 tiers, 4 days | 4.71 M | invoice life cycle, delivery of what is paid, refunds and grace, in every order of requests |
| `billing_races` | 1 invoice, 2 requests, 1 tier, a cycle of 1 day, 3 days | 2.40 M | no plan without money or grant, although writes of two sessions mix; whatever goes wrong is a lost update |
| `scan_quota` | 1 scan, 1 direct reference, 1 Credit invoice, 2 requests, 2 cycles | 562 k | the plan is not overdrawn, one Credit per reference, Credits are minted once and unusable after a refund; refinement of ScanLedger |
| `periodic` | ApiBudget with 2 requests; BakeJobs, Billing and Accounts with 1 | 113 k | one alert and stamps that are true (`IInv`, `AlertedOnce`, `SuspendedRefuses`); and what only tasks bring about: stamps catch up, claims end, unpaid invoices end, grace ends, deleted accounts are purged |
| `accounts` | 2 requests, 2 accounts or projects or clients each | 1.14 M | proof of the mailbox, counted guesses, one enrolment's codes, final purge, refinement of OneTimeSecret, what a credential opens, limits of codes, schema and rows under migrations |
| `studio` | 2 requests, 3 reports, 1 link, 2 designs, 2 models, a restore window of 1 day | 1.55 M | the ladder, refinement of SharingPromise, the chain of revisions, exported versions, the stored canonical model |
| `bake_cancel_completed` | 1 job row, 2 requests | violation | `CompletedStays` fails |
| `billing_paid_cancelled` | 1 invoice, 2 requests | violation | `PaidStays` fails |
| `billing_lost_renewal` | 2 invoices, 2 requests | violation | `PlanDelivered` fails |
| `scan_charged_twice` | 1 scan, 2 requests | violation | `ChargedOnce` fails |

**Bounds.** `MaxClaims`, `MaxModels`, `MaxTime`, `MaxReceipts`, `MaxCycle`, `MaxSpent`, `MaxDay`,
`MaxResends`, `MaxMails`, `MaxEnrolments`, `MaxRevisions`, `MaxVersions` cut behaviours off; every
bound is a constant, named in its module. Two requests are the smallest number at which anything
races; what needs a third party (the sweep, the gateway, the clock, the worker) has an actor of
its own. Two claims are needed to see a late holder against its successor, two job rows for
supersession, two models for a bake whose source is replaced. Four days hold a whole cycle of two
and a grace period of one with a day to spare, so a renewal before, in and after grace happens; an
account's restore window of two days is reached and passed within three, and a project's of one
day passes while requests are under way. Costs 1 and 4 against a budget of 5 stop short of both
thresholds, cross the warning alone, or cross both at once. `MaxAttempts`, `FailureLimit`,
`MaxUses`, `MaxDownloads` and `Keep` are limits of the code (5, 5, per coupon, per link, per
plan), set to one or two so that they are reached and passed. Three reports walk the whole ladder.
What the bounds do not cover, the theorems do, for all but liveness.

`billing_serial` serves one request at a time on purpose. Its properties do not hold with two (see
below), and the run says that the order of whole requests is not to blame. `billing_races` has two
requests and checks what survives: `EntitlementBacked`, and `OnlyLostUpdates`, which says of every
step of every interleaving that it keeps the account in order unless it commits over a row that
another request has changed since it was read. Its cycle is one day, so that a plan runs out, its
grace period begins and a renewal, a refund or a granted plan crosses it within three.

Deadlock checking is off for BakeJobs, whose behaviours run out of job ids and claims, and for the
compositions, whose parts run out of grants, revisions, invoices and days.

**Symmetry** is used for interchangeable requests, job rows of one project, invoices, designs and
models, in runs of safety and action properties only.

**Fairness.** Liveness is checked in `periodic`. Its parts cannot all be scheduled fairly while
one of them moves, so each property has the fairness of its part as a hypothesis (`J!Fairness =>
J!ClaimsEnd`).

- BakeJobs: a request that is under way goes on (weak), a deadlock is broken (weak: PostgreSQL's
  detector always picks a victim), leases run out, and the sweep is strongly fair because Celery
  beat starts it every hour and PostgreSQL serves waiters for a row in order. A sweep may be
  aborted any number of times first, but not for ever.
- Billing: time passes; the stale and the expiry sweep are started again and again (strong, beat);
  requests and their commits go on (strong); and the database does not fail for ever (`<>[]` no
  aborts). An abort that looks like a commit that changes nothing is not excluded, or the last
  condition would forbid it.
- ApiBudget: the daily check is started again and again, requests go on, aborts end.
- Accounts: requests end and days pass (weak); the purge is started every day (weak) and does not
  crash every time between its read and its commit (strong).

No fairness is assumed of users, desktops, gateways or admins.

## What is proved

Four abstract specifications say what a part promises without its requests, locks, stale reads
and conditional writes, and each part is proved to implement its own, for all sizes:
`ImplementsLease` (BakeJobs, FencedLease), `ImplementsLedger` (ScanQuota, ScanLedger),
`ImplementsSecret` (Launch, OneTimeSecret), `ImplementsPromise` (Sharing, SharingPromise).

Eight modules hold machine-checked proofs, for every value of the constants: any number of
requests, projects, jobs, claims, invoices, Credits, reports, links, versions and so on. Every
safety property of the passing runs has a theorem, except the two of Migrations and the five of
`billing_serial`, which do not hold with two requests; what holds of them then is
`HarmOnlyByLostUpdates`.

The only assumptions are those that the modules name and TLC evaluates in the runs: the `ASSUME`s,
and the operators `StudioAssumption`, `ProjectsAssumption`, `SignInAssumption`,
`AccountsAssumption`, `LaunchAssumption` and `CouponsAssumption`, which `MCStudio` and
`MCAccounts` assume as `PartsAssumption`. They say that bounds and limits are numbers, that `None`
is none of the things it stands beside, that models and thumbnails are different assets and
activation codes different from discounts, that the restore window has two days at least (it has
30), and that requests and users are finite where they are counted. `0 \notin Claims` in the
theorems about FencedLease is discharged by `Claims == 1..MaxClaims`.

In every module the argument is an inductive invariant, `IInv`, proved action by action, from
which the properties follow.

**BakeJobs.** `OneActiveJob`, `DeliveredOncePerClaim`, `CompletionStillValid` and
`LiveStagingSafe` are not inductive: each depends on what requests in flight believe. `IInv` adds

- `LockInv`: a row is held by one transaction at a time;
- `RequestOK`: what a request read under a lock, or checked, is still so at its next step;
- `SweptInv`: what the sweep has written and not committed is still claimed underneath;
- `ClaimInv`: claims on jobs are distinct, were handed out, and have not delivered;
- `ActiveInv`: a write that is about to make a job active has the project for itself;
- `StagingInv`: keys are never issued twice, and a deletion that was decided earlier concerns keys
  that no claimed job has by the time it is due.

`JobInvariant` is `Spec => []IInv`. The proof has type lemmas by group of actions, a lemma for the
steps that move only a request (`QuietStep`), lemmas for the steps that commit (`CommitLocks`,
`CommitStaging`, ...), the sweep, and the environment, put together in `InvNext`. `JobTypes`,
`OneActive`, `CompletionSound`, `DeliveredOnce` and `StagingSafe` follow; `ImplementsLease` (`Spec
=> FencedLeaseSpec`) maps each action to a step of FencedLease or a stutter, with `IInv` for the
claims.

**FencedLease.** `LeaseInvariant` and `LeaseSafe`: a claim holds at most one job and delivers at
most once. With `ImplementsLease`, that is a promise of the code's protocol.

**ApiBudget.** `BudgetInvariant` proves `IInv`: one transaction holds the month's row and what it
read of it is still so (`HeldInv`), and an alert that is due or sent stands on the stamp
(`AlertInv`). `BudgetTypes`, `AlertOnce` and `SuspensionSound` follow.

**ScanQuota.** `QuotaInvariant`: a usage row has one holder and what the holder loaded of it is
still there (`UsageInv`); no two Credits were spent on one reference (`RefsInv`); a Credit that a
request has picked is available and locked by it alone, and its reference has no Credit yet
(`PickedInv`); an invoice has Credits only once it exists and has them when its refund begins, and
a checkout has its invoice to itself (`InvoiceInv`). Most actions move one request from a state
that fits the rows to another that does; the proof states once what fits and that moving to such a
state keeps the invariant, and each such action only has to fit. `PlanNeverOverdrawn`,
`CreditSpentOnce`, `PaymentMintsOnce` and `NothingLeftToSpend` follow, and `CreditsMoveForward`,
an action property.

`PlanNeverOverdrawn` is about every cycle: a charge reads its plan and cycle, may wait, and may
commit when the next cycle runs, against the limit it has read. `UsageInv` says that this limit is
at most what the cycle had. An instance with a late charge against a cycle that has scans needs a
Free, a paid and a third cycle and is too large to check with the rest; in `scan_quota` the cycle
that is over is the Free one, and the theorem covers the others.

`ImplementsLedger` (`Spec => ScanLedgerSpec`) maps the commit of a charge to `TakePlanScan` or
`TakeCredit` (`ChargeSeen`: the limit it read is not above the allowance and the scan is still
left by `UsageInv`, the picked Credit is available and its reference unspent by `PickedInv`), the
commit of a payment to `Pay` (`PaymentSeen`), of a close or refund to `Close` or `Refund`
(`SettledSeen`), of a checkout to `Offer` (`OfferSeen`), and the plan, the clock and the expiry to
themselves (`AroundSeen`). Locks no longer matter to a reader of ScanLedger: that a spent Credit
stays spent, or that a payment mints once, can be read off its actions.

**Billing.** `EntitlementBacked` has to survive writes that mix column by column.
`BillingInvariant` rests on two facts. `PaymentInv`: past the check of the payment, a request
works on an invoice with money behind it. `PlanInv`: the name of the invoice a plan stands on is
never taken back, and the mark of a granted plan is removed by payments only, which leave a name;
so whichever columns of two writers end up in the row, a tier comes with a name or with the mark,
and a name with money. `NoPlanWithoutMoney` and `BillingTypes` follow.

**Sharing.** `SharingInvariant`: who decides on a report holds its row while it is new, and who is
about to apply a level holds the owner's row since the level was computed (`LockInv`); every
download is counted in its link (`CountInv`). `LadderClimbed` and `DownloadsLimited` follow.
`ImplementsPromise` (`Spec => SharingPromiseSpec`) takes a decision, a change of a link and a
download to the moment it commits (`DecisionSeen`, `LinkSeen`): the level loaded earlier is still
the next one by `LockInv`, the count that the UPDATE compares with the limit is not below the
downloads by `CountInv`, and a link that was loaded to be revoked or renewed still exists
(`LoadedInv`). A renewal that ends after a revocation is a renewal that opens nothing.

**Studio.** `StudioInvariant`: a request past its lock has the row for itself, and one that writes
the design loaded it under that lock (`LockInv`); version numbers are distinct, and no more than
`Keep` versions are free of exports (`HistoryInv`). That pruning keeps so few is a lemma about
finite sets: without its oldest member, the set of kept versions lies among those newer than the
oldest, which are fewer than `Keep` (`PruneBounds`). `NoSaveLost` and `ExportsHeld` follow.

**Projects.** `ModelStays` says that the model of a live project is a confirmed asset, raw or
ready, whose object is in storage (or a demo model that was never uploaded) and that no deletion
waits for it. There are two exceptions, and `atRisk` names their assets: a cleanup lists the files
of a project whose window is over while a restore that began in time has yet to commit, and a scan
registers its output again while the deletion of the old object is pending. Both are behaviours of
the code (see below), and the theorem says that nothing else loses a model. Objects are deleted by
tasks that were queued long before. `FilesInvariant` therefore keeps, whether the project is live
or in the trash, that no deletion waits for the object of any other row (`FilesInv`), and for each
request what its next step relies on (`RequestOK`): an asset it has loaded was registered, one
that a confirmation saw in storage is still there if its row is and it is not at risk.

**SignUp.** `SignUpInvariant`: a link to Google is decided on a verified row (`LinkInv`), and no
code is entered or renewed before the first was mailed (`MailInv`). `PasswordsProven` follows.

**SignIn.** `GuessesFew` bounds the wrong answers by `FailureLimit - 1` and one more for each
request that had passed the check when the lock was set. The check, the comparison, the count and
the lock are separate commands, so the counter alone says less. `GuessInv` relates the wrong
answers so far to the counter and to the requests by what they may still do: those that have
answered and not counted it (`Failing`), those that found the counter full (`Locking`) and, after
the lock, those that may still answer (`Answering`), as cardinalities of sets. `GuessStep` and
`GuessCounts` are the lemmas about how one request's step moves these numbers. `RowInv` says that
who replaces or erases recovery codes holds the row and has seen all of them; `OldCodesVoid`
follows.

**Accounts.** A purge writes what it decided on earlier, so `PurgeFinal` depends on how long
requests take. `IInv` of Accounts says that a step that writes an account and is under way after
its deletion began a midnight ago at most, while the purge waits for the whole restore window,
which is longer. `AccountsInvariant` proves it, and `PurgeStays` follows, with the exception that
the property names: a restore confirmed in time and committed after the purge has read the row.

**Launch.** `LaunchInvariant`: a record is taken and removed in one command, so whoever has taken
it is the only request that can still answer for its grant, which has no session yet
(`RequestOK`), and a grant whose record exists has none either (`GrantOK`). `SecretsOnce` follows:
one session at most for a ticket together with the code that came of it.

`ImplementsSecret` (`Spec => OneTimeSecretSpec`) is the refinement. Taking a record leaves its
grant live, because the request that took it can answer for it (`TakenUnseen`); the request's end
is a `Bind` when it stores a code, an `Open` when it issues the session, a `GiveUp` when it is
refused or cut off (`EndSeen`), and each of these needs that no other request and no record can
keep the grant live or open it again. `SecretsImplemented` states it for `MCAccounts`.

**Coupons.** `CouponsInvariant`: `used_count` of an activation code is the number of accounts that
redeemed it, and whoever is about to add one holds the coupon's row and found it below its limit.
`CodesBounded` follows, an action property.

**Access.** `AccessInvariant`: a token was issued in the role that its account has, and only
customers are impersonated. `GuardsHold` then goes through all endpoints of all routers: what each
kind of credential opens and what it does not.

The theorems about the parts of `MCStudio` and `MCAccounts` are stated for the composition. That a
step of it is a step of one part or leaves that part alone is `OnePartMoves` and `PartsMove` (in
`MCStudio`, `StudioPart` and `ProjectsPart`).

**What lost updates can do, and nothing else can.** Where the code violates a property because it
reads without a lock, a theorem about the specification as it is, with all its races, says which
steps do the harm.

| Theorem | Module | What it says |
|---|---|---|
| `HarmOnlyByLostUpdates` | Billing | a commit over a row that changed since the request read it (`LostUpdate`) is the only step that takes an invoice off its life cycle, makes it paid without its plan, replaces its receipt, or ends the agreement of refunds, plan, grace period and project locks (`InOrder`) |
| `CompletionStays` | BakeJobs | only a cancel or a retry that is past its status check undoes a completion |
| `ScanChargedAgain` | ScanQuota | a scan is charged again only when its asset is raw, by a confirmation that no longer has its lock |

`HarmOnlyByLostUpdates` needs that a decision follows from what was read, which is
`DecisionsFollow` (`Spec => []AllDecided`): a move that is open from the status as loaded, a
refund of an invoice loaded as paid, a plan with the tier and the locks that go together, a grace
period of a plan that has run out. If the rows are still as loaded when the request commits, the
move is open, and column-wise flushes write what was decided. Nothing is assumed of schedules: two
deliveries of one webhook, a sweep or a refund under way are in its behaviours, and the theorem
says that those of them that do harm are lost updates. `billing_races` checks it with two
requests, and `billing_paid_cancelled` and `billing_lost_renewal` show two such harms.
`CompletionStays` needs that whoever holds a pending write of a completed row is a cancel or a
retry (`UndoInv`); `ScanChargedAgain` that a scan is charged in the commit that makes it raw, and
cannot be locked again from then on (`ConfirmInv`).

**Only model-checked.** The liveness properties (`MonthStamped`, `ClaimsEnd`, `PendingEnds`,
`GraceEnds`, `DeletedPurged`): fairness and ENABLED are out of the prover's reach. `ModelsServed`
and `NeverBlocked` of Migrations: the 34 revisions are data and the module has no parameter, so
TLC's enumeration is complete. Induction over data and RECURSIVE operators are out of reach too,
and the modules avoid them.

## Disagreements between the code and what is said of it

Four runs end in a counterexample, each against a sentence of the documents, a test or a comment
(quoted under `findings` in `PROJECT.json`).

1. **A cancel overwrites a completion** (`job_service.py:438`). Cancel checks the status of a row
   it read without a lock. A completion that commits in between is turned into a cancelled job,
   its export counted and its project completed. `test_cancel_completed_job_rejected` tests the
   same in sequence and expects 409.
2. **A paid invoice is cancelled** (`billing_service.py:731`). The stale sweep, the MoMo failure
   path and a rejection check the status as loaded and write by primary key. A payment that
   commits in between ends as cancelled or failed with its plan and receipt kept; SRS 5.5 lets a
   successful transaction become only refunded.
3. **A renewal that delivers nothing** (`billing_service.py:877`). A payment loads the plan, a
   downgrade commits, and the flush leaves `tier` and `plan_id` alone because they equal the
   loaded ones. The invoice is paid and the account on Free.
4. **A scan is charged twice** (`mobile_service.py:325`). The lock that keeps two confirmations
   apart lives 15 seconds; a confirmation that takes longer is joined by a second one, and the
   plan side of the charge knows no reference.

Three theorems say that these are the only ways: no other step of the code undoes a completion
(`CompletionStays`), charges a scan twice (`ScanChargedAgain`), or takes an invoice off its life
cycle or a paid plan from its account (`HarmOnlyByLostUpdates`).

## Behaviour worth a decision

Seen while modelling, without a run of its own, because no document states the opposite clearly or
because it has the same root as a finding.

- Two concurrent deliveries of one payment each issue a receipt number; the second replaces the
  first (`receipt_service.py:167`).
- Two concurrent refunds of one invoice are both checked before either is committed and can exceed
  its amount (`billing_service.py:645`).
- The grace sweep lists accounts and writes them afterwards; an account that renewed in between is
  put into its grace period with a plan that has not run out (`maintenance_repo.py:65`).
- An upgrade priced in mid-cycle and paid after the expiry keeps the past expiry date
  (`billing_service.py:875`).
- A renewal paid during grace starts its cycle on the day of the payment
  (`billing_service.py:880`), while BR-90 (SRS line 612) can be read as continuing the old one.
- The Credits bought and the Credits being paid for are counted by two statements; a payment in
  between is in neither count, and the checkout exceeds the cap of the cycle
  (`credit_service.py:65`). A closed Credit invoice that is paid late exceeds it too.
- A refund of a Credit invoice checks that no Credit was used, and one may be used before it
  commits (`billing_service.py:626`).
- The export quota is checked on an unlocked read (`quota_service.py:93`), so bakes that complete
  together pass it together.
- A call recorded while the first budget of the month is being set is in neither sum; the month
  stays unstamped until the next call or daily check (`api_cost_service.py:136`). New scans are
  refused all the same, since the gate adds up by itself.
- The alert is queued after the commit that stamps it; a crash in between loses it for the month
  (`api_cost_service.py:106`).
- An admin cancel, or a prepare that supersedes a bake, leaves the project `baking`
  (`admin_service.py:453`).
- A code that has expired, or is lost after its lock, cannot be sent again, and its mailbox cannot
  register again (`auth_service.py:139`, `auth_service.py:275`); only Google sign-in helps. The
  message of `exceptions.py:110` offers both.
- Attempts at a mailed code are counted by reading and rewriting the document in Redis; answers
  sent together count as one (`otp_store.py:33`).
- Two sign-ins may both accept one recovery code. A setup that races an enable may leave an
  enabled second factor without a secret.
- A refresh token presented twice at once is rotated twice (`auth_service.py:857`).
- A restore confirmed while the purge holds its copy of the row restores an anonymized account
  (`maintenance_service.py:69`); `PurgeFinal` names this exception.
- A session opened through a launch ticket or an SSO token does not carry the mark of an
  impersonation; cancelling a subscription and previewing a coupon are open to an administrator
  acting for a customer.
- `retry_bake` queues a bake again without the project's lock, so a bake can start inside the five
  minutes in which edits are refused, and between a save's check and its commit; a restored
  version and a template are not checked by `guardrail_service`.
- A restore that checked its window in time and commits after it has ended finds its rows, but the
  scheduled cleanup may have listed the files meanwhile: the project is live and its model is
  deleted (`project_service.py:160`, `maintenance_service.py:27`).
- The output of a scan has an id and a path that follow from its token. When its row was swept or
  deleted and the phone registers it again, the deletion that was queued for the old object
  removes the new one (`mobile_service.py:230`).
- A late payment for an account that was deleted meanwhile is delivered, and no receipt is issued
  (`billing_service.py:898`).
- A forced downgrade does not ask for the tier: on a Free account it locks the projects above the
  limit and clears the dates (`billing_service.py:598`).
- A purge or a permanent deletion that read a project in the trash deletes it although it was
  restored in between; a confirmed sticker may be swept; a PUT after the deletion of the row
  leaves an object nobody deletes; a crash between commit and enqueue loses a deletion.
- A demo model whose upload failed is ready without an object (`Projects`, `seedLost`).
- Two activation codes redeemed at once by one account both grant (`coupon_service.py:78`). A
  discount's `used_count` loses updates and exceeds `max_uses`; two pending invoices of one
  account both keep the discount, though BR-26 allows it once (`coupon_service.py:113`).
- Upgrades 011, 017 and 019 and downgrades 011, 013, 014, 017 and 018 may stop at rows that the
  constraints of the time admit (an old tier or payment method, names that differ in case, a
  cancelled or grace subscription); `NeverBlocked` holds from 019 and 020 on.
  `users.first_studio_save_at` (revision 033) is in no model.

## What is abstracted, and what is not modelled

Prices and proration amounts, discounts, VAT, wording, storage paths, hashes, payloads, design
layers, and the verification of outputs are left out: no property tells them apart. Several
accounts are left out where rows of different accounts meet only in counters of receipts. Time is
a day counter (Billing, Accounts, Projects), a cycle and a tick (ScanQuota), a state per lease
(BakeJobs), or an event (expiry of a record, end of a window), so what happens at the very instant
of a deadline is not told apart from its neighbours.

Not modelled:

- **Reporting periods and the ledger.** A period is checked open before a payment or an adjustment
  is written and may be locked before the commit (a hazard without a property).
- **Mobile scan grants**, the part before the intake: bootstrap idempotency, the Lua claim of a
  grant, and the completion record that `create_output_upload` and `confirm_output` both rewrite.
  What is charged does not depend on it (ScanQuota), what the phone is told does.
- **Export quota across projects**: the counter is in BakeJobs, but for one project at a time.
- Reports, analytics, GA4, notifications and e-mail, the rendering of receipts and print files,
  request and response schemas, and the front end change no state another actor depends on. Data
  import is one transaction of one administrator, and mostly parsing.
- The gateway clients and object storage are I/O; their effects are actions of the modules that
  use them. Deployment and the seed script are configuration.
- Single-row administration of plans, consent, feedback and guardrail rules has no second actor.

## Plan

What is left, in the order in which it matters:

1. **MobileScan**: the one-time grant and its completion record, composed with ScanQuota through
   the confirmation.
2. **ReportingPeriod**: a period locked while an entry dated in it is being written.
3. The export quota of an account, over its projects.
4. Pure algorithms against reference definitions: proration, `add_months`, the start of a billing
   period.
5. Proofs: whatever MobileScan and ReportingPeriod promise; an abstract specification of the
   account's life, as ScanLedger is one of its scans.

## Running

`tlc -config MCBakeJobs.cfg MCBakeJobs` and so on with the pairs under `runs` in `PROJECT.json`;
`tlapm BakeJobsProofs.tla` and so on for the proofs. `PROJECT.json` also maps every definition to
the lines it models.
