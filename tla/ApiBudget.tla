------------------------------ MODULE ApiBudget ------------------------------
(***************************************************************************)
(* The monthly budget for calls of the 3D/AI API: calls recorded by        *)
(* services, the budget an admin sets, the daily check, and the alert that *)
(* is due once a month.  One month is modelled; months share nothing.      *)
(*                                                                         *)
(* A recorded call inserts its cost, locks the month's row, adds up the    *)
(* month and stamps the row, in one transaction.  As long as the month has *)
(* no row there is nothing to lock, and the call stamps nothing.           *)
(***************************************************************************)
EXTENDS Integers

CONSTANTS
    Requests,       \* requests and tasks served at the same time
    Costs,          \* what a call may cost
    Budgets,        \* budgets an admin may set
    MaxSpent        \* bound: no call starts once this much is spent

ASSUME BudgetAssumption ==
    /\ Costs \subseteq Nat /\ Budgets \subseteq Nat /\ MaxSpent \in Nat

VARIABLES
    spent,          \* cost of the committed entries of the month
    period,         \* the month's api_budget_periods row
    alerts,         \* alerts handed to the task queue
    req

vars == <<spent, period, alerts, req>>

PeriodRow == [configured : BOOLEAN, budget : Nat, warned : BOOLEAN, suspended : BOOLEAN]
Steps == {"idle", "lock", "sum", "commit", "alert"}
RequestState == [pc : Steps, cost : Nat, row : PeriodRow, due : BOOLEAN]

NoRow == [configured |-> FALSE, budget |-> 0, warned |-> FALSE, suspended |-> FALSE]
Idle == [pc |-> "idle", cost |-> 0, row |-> NoRow, due |-> FALSE]

Init ==
    /\ spent = 0
    /\ period = NoRow
    /\ alerts = 0
    /\ req = [r \in Requests |-> Idle]

Move(r, new) == req' = [req EXCEPT ![r] = new]
Start(r, state) == req[r].pc = "idle" /\ Move(r, state)

\* Steps at which a request has the month's row locked; without a row it locks nothing.
HoldsRow(r) == req[r].pc \in {"sum", "commit"} /\ req[r].row.configured
RowUnlocked == TRUE
RowFree == \A r \in Requests : ~HoldsRow(r)

-----------------------------------------------------------------------------
(* budget_state                                                             *)

WarnPercent == 80
SuspendPercent == 100
Reached(sum, budget, percent) == sum * 100 >= budget * percent

-----------------------------------------------------------------------------
(* A call is recorded, a budget is set, the day is checked.                 *)

\* create_entry: the cost is in the ledger for this transaction only.
RecordCall(r, cost) ==
    /\ spent < MaxSpent
    /\ Start(r, [Idle EXCEPT !.pc = "lock", !.cost = cost])
    /\ UNCHANGED <<spent, period, alerts>>

\* An upsert that writes the row anew.
SetBudgetAnew(r, budget) ==
    /\ RowFree
    /\ Start(r, [Idle EXCEPT !.pc = "sum",
                             !.row = [NoRow EXCEPT !.configured = TRUE, !.budget = budget]])
    /\ UNCHANGED <<spent, period, alerts>>

\* upsert_period inserts or updates the row, waits for whoever holds it, and refreshes.
SetBudget(r, budget) ==
    /\ RowFree
    /\ Start(r, [Idle EXCEPT !.pc = "sum",
                             !.row = [period EXCEPT !.configured = TRUE, !.budget = budget]])
    /\ UNCHANGED <<spent, period, alerts>>

\* check_current_budget
Check(r) ==
    /\ Start(r, [Idle EXCEPT !.pc = "lock"])
    /\ UNCHANGED <<spent, period, alerts>>

\* get_period FOR UPDATE; a row that is not committed yet is not found.
LockPeriod(r) ==
    /\ req[r].pc = "lock"
    /\ period.configured => RowFree
    /\ Move(r, [req[r] EXCEPT !.pc = "sum", !.row = period])
    /\ UNCHANGED <<spent, period, alerts>>

\* A stamp for suspension that only a crossing sets, and nothing clears.
StampedOnce(row, sum) ==
    [row EXCEPT !.warned = @ \/ Reached(sum, row.budget, WarnPercent),
                !.suspended = @ \/ Reached(sum, row.budget, SuspendPercent)]

\* A suspension stamped only together with the warning.
StampedWithWarning(row, sum) ==
    [row EXCEPT !.warned = @ \/ Reached(sum, row.budget, WarnPercent),
                !.suspended = Reached(sum, row.budget, SuspendPercent) /\ (@ \/ ~row.warned)]

\* The stamps of _apply_thresholds.
Stamped(row, sum) ==
    [row EXCEPT !.warned = @ \/ Reached(sum, row.budget, WarnPercent),
                !.suspended = Reached(sum, row.budget, SuspendPercent)]

\* The sum is read after the lock: it has the request's own entry and what is committed.
ApplyThresholds(r) ==
    LET row == req[r].row
        new == IF row.configured THEN Stamped(row, spent + req[r].cost) ELSE row IN
    /\ req[r].pc = "sum"
    /\ Move(r, [req[r] EXCEPT !.pc = "commit", !.row = new, !.due = new.warned /\ ~row.warned])
    /\ UNCHANGED <<spent, period, alerts>>

\* The entry and the row are committed; the alert is queued after that.
Commit(r) ==
    /\ req[r].pc = "commit"
    /\ spent' = spent + req[r].cost
    /\ period' = IF req[r].row.configured THEN req[r].row ELSE period
    /\ Move(r, IF req[r].due THEN [Idle EXCEPT !.pc = "alert"] ELSE Idle)
    /\ UNCHANGED alerts

EnqueueAlert(r) ==
    /\ req[r].pc = "alert"
    /\ alerts' = alerts + 1
    /\ Move(r, Idle)
    /\ UNCHANGED <<spent, period>>

\* A database error rolls back; a crash after the commit loses the alert.
Abort(r) ==
    /\ req[r].pc # "idle"
    /\ Move(r, Idle)
    /\ UNCHANGED <<spent, period, alerts>>

Continue(r) == LockPeriod(r) \/ ApplyThresholds(r) \/ Commit(r) \/ EnqueueAlert(r)
DailyCheck == \E r \in Requests : Check(r)

Next ==
    \/ DailyCheck
    \/ \E r \in Requests :
          \/ \E cost \in Costs : RecordCall(r, cost)
          \/ \E budget \in Budgets : SetBudget(r, budget)
          \/ Continue(r) \/ Abort(r)

Spec == Init /\ [][Next]_vars

\* Celery beat runs the check every day, a row that is waited for is released, and the
\* database does not fail for ever (a commit that changes nothing looks like an abort).
Fairness ==
    /\ SF_vars(DailyCheck)
    /\ \A r \in Requests : SF_vars(Continue(r))
    /\ <>[][\A r \in Requests : Abort(r) => Continue(r)]_vars

FairSpec == Spec /\ Fairness

-----------------------------------------------------------------------------
(* The intake gate of new scans: assert_scan_intake_available reads the     *)
(* row and the sum, never the stamp.                                        *)

IntakeOpen == ~(period.configured /\ Reached(spent, period.budget, SuspendPercent))

-----------------------------------------------------------------------------
(* Properties.                                                              *)

\* Every variable stays in its domain.
TypeOK ==
    /\ spent \in Nat
    /\ period \in PeriodRow
    /\ alerts \in Nat
    /\ req \in [Requests -> RequestState]

\* The admin is alerted at most once a month, by a month that keeps its stamp, although
\* calls that cross the threshold together, changes of the budget and checks overlap
\* (_apply_thresholds: "concurrent calls alert only once").
AlertedOnce ==
    /\ alerts <= 1
    /\ alerts = 1 => /\ period.warned
                     /\ \A r \in Requests : req[r].pc # "alert"

\* A month that is stamped as suspended refuses scans: the stamp an admin sees never
\* outlives a budget that was raised above what is spent.
SuspendedRefuses == period.suspended => ~IntakeOpen

\* However calls that found no row overlap with the first budget, the daily check stamps
\* the month as suspended, unless the budget is raised (check_current_budget).
StampCatchesUp == ~IntakeOpen ~> period.suspended \/ IntakeOpen

-----------------------------------------------------------------------------
(* Why the safety properties hold: an inductive invariant.                  *)

\* One transaction holds the row, and nobody has changed what it read of it.
HeldInv ==
    /\ \A r, q \in Requests : HoldsRow(r) /\ HoldsRow(q) => r = q
    /\ \A r \in Requests :
          /\ HoldsRow(r) /\ period.warned => req[r].row.warned
          /\ HoldsRow(r) /\ req[r].pc = "sum" => req[r].row.warned = period.warned
          /\ HoldsRow(r) /\ req[r].pc = "commit" =>
                /\ req[r].row.suspended
                      => Reached(spent + req[r].cost, req[r].row.budget, SuspendPercent)
                /\ req[r].due => ~period.warned /\ req[r].row.warned
          /\ req[r].due => HoldsRow(r) /\ req[r].pc = "commit"

\* An alert that is due or sent stands on the stamp, and there is only one.
AlertInv ==
    /\ AlertedOnce
    /\ \A r \in Requests : req[r].pc = "alert" => period.warned
    /\ \A r, q \in Requests : req[r].pc = "alert" /\ req[q].pc = "alert" => r = q

IInv ==
    /\ TypeOK
    /\ period.warned \/ period.suspended => period.configured
    /\ HeldInv
    /\ AlertInv
    /\ SuspendedRefuses
=============================================================================
