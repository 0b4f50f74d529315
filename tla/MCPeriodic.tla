----------------------------- MODULE MCPeriodic -----------------------------
(***************************************************************************)
(* What only periodic tasks bring about, for TLC: stamps of the month's     *)
(* budget (ApiBudget), ends of abandoned claims (BakeJobs), of unpaid        *)
(* invoices and grace periods (Billing), and of deleted accounts (Accounts).  *)
(* The four share no state; one of them moves while the others are in an      *)
(* initial state, so that TLC explores each on its own instead of their        *)
(* product.                                                                 *)
(*                                                                         *)
(* A fairness condition of one of them would stop the others from moving for  *)
(* ever.  So the specification has none, and each liveness property says: if   *)
(* the component is scheduled fairly, this happens.                           *)
(***************************************************************************)
EXTENDS ApiBudget

CONSTANTS
    None,
    Request,                                                    \* of the others
    Projects, Jobs, MaxClaims, MaxModels, MaxExports,           \* of BakeJobs
    Invoices, Cycle, Grace, MaxTier, MaxTime, MaxReceipts,      \* of Billing
    RestoreDays, MaxAttempts, MaxDay                            \* of Accounts

VARIABLES
    job, project, exports, lease, granted, staged, jobReq, sweeper, delivered,
    invoice, subscription, locked, refunds, receipts, collected, now, billingReq,
    user, live, recovery, restoredLate, day, accountReq, worker

jobs == <<job, project, exports, lease, granted, staged, jobReq, sweeper, delivered>>
billing == <<invoice, subscription, locked, refunds, receipts, collected, now, billingReq>>
accounts == <<user, live, recovery, restoredLate, day, accountReq, worker>>

OneProject == [j \in Jobs |-> CHOOSE p \in Projects : TRUE]

J == INSTANCE BakeJobs WITH ProjectOf <- OneProject, Requests <- {Request}, req <- jobReq
B == INSTANCE Billing WITH Requests <- {Request}, req <- billingReq
A == INSTANCE Accounts WITH Requests <- {Request}, req <- accountReq

ASSUME A!AccountsAssumption

\* At rest: one initial state of those that have several.
JobsAtRest == J!Init /\ \A p \in Projects : project[p].canonical = 1
AccountsAtRest == A!Init /\ user.password /\ ~user.google

MCInit == Init /\ J!Init /\ B!Init /\ A!Init

MCNext ==
    \/ /\ JobsAtRest /\ B!Init /\ AccountsAtRest
       /\ Next /\ UNCHANGED <<jobs, billing, accounts>>
    \/ /\ Init /\ B!Init /\ AccountsAtRest
       /\ J!Next /\ UNCHANGED <<vars, billing, accounts>>
    \/ /\ Init /\ JobsAtRest /\ AccountsAtRest
       /\ B!Next /\ UNCHANGED <<vars, jobs, accounts>>
    \/ /\ Init /\ JobsAtRest /\ B!Init
       /\ A!Next /\ UNCHANGED <<vars, jobs, billing>>

MCSpec == MCInit /\ [][MCNext]_<<vars, jobs, billing, accounts>>

-----------------------------------------------------------------------------

\* ApiBudget: the daily check stamps a month that is over its budget.
MonthStamped == Fairness => StampCatchesUp

\* BakeJobs: a claim on a job is not held for ever.
ClaimsEnd == J!Fairness => J!ClaimsEnd

\* Billing: a pending invoice is not pending for ever.
PendingEnds == B!Fairness => B!PendingEnds

\* Billing: a grace period is over once its time has come.
GraceEnds == B!Fairness => B!GraceEnds

\* Accounts: a deleted account that nobody restores is purged.
DeletedPurged == A!Fairness => A!DeletedPurged
=============================================================================
