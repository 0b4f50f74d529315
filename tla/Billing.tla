------------------------------- MODULE Billing -------------------------------
(***************************************************************************)
(* Plan invoices and the subscription of one account: checkout, gateway    *)
(* webhooks, manual payments, refunds, the stale-invoice sweep, the grace  *)
(* period and the admin operations on the plan.                            *)
(*                                                                         *)
(* Nothing here takes a row lock before it reads.  A request loads rows    *)
(* with a plain SELECT, decides, and its flush issues an UPDATE by primary *)
(* key that sets the columns whose value differs from the loaded one       *)
(* (Flushed); the row is locked from that UPDATE to the commit.  A request *)
(* is a record with what it loaded and what it will write.                 *)
(*                                                                         *)
(* Times are numbers from 1 on, tiers numbers in the order of their price  *)
(* (0 is Free); 0 is NULL for a time, an invoice's receipt and None for an *)
(* invoice.  Amounts are in halves of the invoice's price: a refund is 1   *)
(* (partial) or 2 (full).                                                  *)
(***************************************************************************)
EXTENDS Integers, FiniteSets

CONSTANTS
    Invoices,       \* ids of the invoices that can be created
    Requests,       \* requests and tasks served at the same time
    Cycle,          \* length of a billing cycle
    Grace,          \* GRACE_PERIOD
    MaxTier,        \* tiers that can be bought are 1..MaxTier
    MaxTime,        \* bound: the clock stops there
    MaxReceipts,    \* bound: receipts issued in a behaviour
    None            \* no invoice

ASSUME BillingAssumption ==
    /\ Cycle \in Nat \ {0} /\ Grace \in Nat \ {0}
    /\ MaxTier \in Nat /\ MaxTime \in Nat \ {0}
    /\ MaxReceipts \in Nat
    /\ None \notin Invoices

VARIABLES
    invoice,        \* committed invoices rows
    subscription,   \* the committed subscriptions row of the account
    locked,         \* the account's projects over the Free quota are read-only
    refunds,        \* sum of the refunds rows of each invoice
    receipts,       \* receipt_number_seq
    collected,      \* invoices whose money the gateway has collected
    now,
    req

vars == <<invoice, subscription, locked, refunds, receipts, collected, now, req>>

Time == 1..MaxTime
Tiers == 0..MaxTier
Date == 0..(MaxTime + Cycle + Grace)
Full == 2

InvoiceStatus ==
    {"absent", "pending", "awaiting_approval", "paid", "failed", "cancelled", "refunded"}
InvoiceRow == [status : InvoiceStatus, tier : Tiers, upgrade : BOOLEAN, manual : BOOLEAN,
               at : 0..MaxTime, receipt : 0..MaxReceipts]
SubscriptionRow == [tier : Tiers, status : {"active", "grace"}, expires : Date,
                    grace : Date, last : Invoices \cup {None}, comp : BOOLEAN]
Steps == {"idle", "close", "pay", "account", "deliver", "refund", "refunded", "return", "plan"}
RequestState ==
    [pc : Steps, on : SUBSET Invoices, seen : InvoiceStatus, status : InvoiceStatus,
     amount : 0..Full, receipt : 0..MaxReceipts, loaded : SubscriptionRow, new : SubscriptionRow,
     projects : {"keep", "lock", "unlock"}, late : BOOLEAN]

NoInvoice == [status |-> "absent", tier |-> 0, upgrade |-> FALSE, manual |-> FALSE,
              at |-> 0, receipt |-> 0]
Free == [tier |-> 0, status |-> "active", expires |-> 0, grace |-> 0, last |-> None,
         comp |-> FALSE]
Idle == [pc |-> "idle", on |-> {}, seen |-> "absent", status |-> "absent", amount |-> 0,
         receipt |-> 0, loaded |-> Free, new |-> Free, projects |-> "keep", late |-> FALSE]

Init ==
    /\ invoice = [i \in Invoices |-> NoInvoice]
    /\ subscription = Free
    /\ locked = FALSE
    /\ refunds = [i \in Invoices |-> 0]
    /\ receipts = 0
    /\ collected = {}
    /\ now = 1
    /\ req = [r \in Requests |-> Idle]

-----------------------------------------------------------------------------
(* PostgreSQL and SQLAlchemy as the code uses them.                         *)

\* Steps at which a request has updated its invoice and not committed yet.
Holds(r, i) == i \in req[r].on /\ req[r].pc \in {"account", "deliver", "refunded", "return"}

Unlocked(i) == \A r \in Requests : ~Holds(r, i)

\* What a row holds after the flush of an instance loaded as `loaded` and now `new`.
Flushed(row, loaded, new) ==
    [c \in DOMAIN row |-> IF new[c] = loaded[c] THEN row[c] ELSE new[c]]

Move(r, new) == req' = [req EXCEPT ![r] = new]

\* What becomes of the projects: unlock_all_for_user, lock_excess_for_user, or nothing.
Locking(projects) ==
    CASE projects = "keep" -> locked [] projects = "lock" -> TRUE [] OTHER -> FALSE

Start(r, state) == req[r].pc = "idle" /\ Move(r, state)

-----------------------------------------------------------------------------
(* Invoices come into being.                                                *)

\* _is_midcycle_upgrade
MidcycleUpgrade(tier) ==
    /\ subscription.tier # 0 /\ subscription.status = "active"
    /\ subscription.expires > now
    /\ tier > subscription.tier

\* create_checkout_session: priced against the plan of the moment, payable from now on.
Checkout(i, tier) ==
    /\ invoice[i].status = "absent"
    /\ ~(subscription.tier = tier /\ subscription.status = "active")
    /\ invoice' = [invoice EXCEPT ![i] =
          [status |-> "pending", tier |-> tier, upgrade |-> MidcycleUpgrade(tier),
           manual |-> FALSE, at |-> now, receipt |-> 0]]
    /\ UNCHANGED <<subscription, locked, refunds, receipts, collected, now, req>>

\* The customer pays at the gateway, which knows nothing of the invoice's status.
Collect(i) ==
    /\ invoice[i].status # "absent" /\ ~invoice[i].manual
    /\ collected' = collected \cup {i}
    /\ UNCHANGED <<invoice, subscription, locked, refunds, receipts, now, req>>

\* create_manual_transaction: money collected on a day that is not in the future.
ManualCreate(i, tier, day) ==
    /\ invoice[i].status = "absent"
    /\ day <= now
    /\ invoice' = [invoice EXCEPT ![i] =
          [status |-> "awaiting_approval", tier |-> tier, upgrade |-> FALSE,
           manual |-> TRUE, at |-> day, receipt |-> 0]]
    /\ UNCHANGED <<subscription, locked, refunds, receipts, collected, now, req>>

-----------------------------------------------------------------------------
(* Invoices are closed without payment.                                     *)

Close(r, on, seen, status) ==
    /\ Start(r, [Idle EXCEPT !.pc = "close", !.on = on, !.seen = seen, !.status = status])
    /\ UNCHANGED <<invoice, subscription, locked, refunds, receipts, collected, now>>

\* handle_momo_ipn with a result code other than 0.
FailRead(r, i) ==
    invoice[i].status = "pending" /\ Close(r, {i}, "pending", "failed")

\* reject_manual_transaction
RejectRead(r, i) ==
    invoice[i].status = "awaiting_approval" /\ Close(r, {i}, "awaiting_approval", "cancelled")

StaleLastWindow == {i \in Invoices :
            invoice[i].status = "pending" /\ ~invoice[i].manual /\ invoice[i].at = now - 1}

\* list_stale_pending: gateway invoices older than the 30 minutes, one tick of the clock.
Stale == {i \in Invoices :
            invoice[i].status = "pending" /\ ~invoice[i].manual /\ invoice[i].at < now}
StaleRead(r) == Stale # {} /\ Close(r, Stale, "pending", "cancelled")

\* mark_failed or mark_cancelled, and the commit.
CloseCommit(r) ==
    /\ req[r].pc = "close"
    /\ \A i \in req[r].on : Unlocked(i)
    /\ invoice' = [i \in Invoices |->
          IF i \in req[r].on THEN [invoice[i] EXCEPT !.status = req[r].status] ELSE invoice[i]]
    /\ Move(r, Idle)
    /\ UNCHANGED <<subscription, locked, refunds, receipts, collected, now>>

-----------------------------------------------------------------------------
(* A payment becomes a plan.                                                *)

PayableOrRefunded == {"pending", "cancelled", "failed", "refunded"}
Payable == {"pending", "cancelled", "failed"}

\* The invoice as it is loaded: _activate_paid_invoice and issue_receipt read no newer one.
LoadPayment(r, i) ==
    Start(r, [Idle EXCEPT !.pc = "pay", !.on = {i}, !.seen = invoice[i].status,
                          !.receipt = invoice[i].receipt])

PaymentReadAnyResult(r, i) ==
    /\ ~invoice[i].manual /\ invoice[i].status \in Payable
    /\ LoadPayment(r, i)
    /\ UNCHANGED <<invoice, subscription, locked, refunds, receipts, collected, now>>

\* _activate_paid_invoice on a webhook with a valid signature and the right amount, which
\* the gateway may deliver at any time and more than once.
PaymentRead(r, i) ==
    /\ i \in collected
    /\ invoice[i].status \in Payable
    /\ LoadPayment(r, i)
    /\ UNCHANGED <<invoice, subscription, locked, refunds, receipts, collected, now>>

\* approve_manual_transaction by an admin other than the one who created it.
ApproveRead(r, i) ==
    /\ invoice[i].status = "awaiting_approval"
    /\ LoadPayment(r, i)
    /\ UNCHANGED <<invoice, subscription, locked, refunds, receipts, collected, now>>

\* mark_paid flushes: the invoice is locked from here on.
MarkPaid(r) ==
    /\ req[r].pc = "pay"
    /\ \A i \in req[r].on : Unlocked(i)
    /\ Move(r, [req[r] EXCEPT !.pc = "account"])
    /\ UNCHANGED <<invoice, subscription, locked, refunds, receipts, collected, now>>

RenewedKeepingStatus(i) ==
    [tier |-> invoice[i].tier, status |-> subscription.status,
     expires |-> IF invoice[i].upgrade /\ subscription.expires # 0
                    THEN subscription.expires
                    ELSE (IF invoice[i].manual THEN invoice[i].at ELSE now) + Cycle,
     grace |-> 0, last |-> i, comp |-> FALSE]

\* activate_invoice and upsert_after_payment: what the plan is to become.
Renewed(i) ==
    [tier |-> invoice[i].tier, status |-> "active",
     expires |-> IF invoice[i].upgrade /\ subscription.expires # 0
                    THEN subscription.expires
                    ELSE (IF invoice[i].manual THEN invoice[i].at ELSE now) + Cycle,
     grace |-> 0, last |-> i, comp |-> FALSE]

AccountRead(r) ==
    /\ req[r].pc = "account"
    /\ \E i \in req[r].on :
          Move(r, [req[r] EXCEPT !.pc = "deliver", !.loaded = subscription,
                                 !.new = Renewed(i), !.projects = "unlock"])
    /\ UNCHANGED <<invoice, subscription, locked, refunds, receipts, collected, now>>

\* The plan, the projects and the receipt are written and committed with the payment.
\* issue_receipt does nothing for an invoice that was loaded with a receipt, and is not
\* called for an account that was deleted meanwhile: get_by_id does not find it.
Deliver(r) ==
    /\ req[r].pc = "deliver"
    /\ receipts < MaxReceipts
    /\ \E found \in BOOLEAN :
          LET issued == found /\ req[r].receipt = 0 IN
          /\ receipts' = IF issued THEN receipts + 1 ELSE receipts
          /\ invoice' = [i \in Invoices |->
                IF i \in req[r].on
                   THEN [invoice[i] EXCEPT !.status = "paid",
                                           !.receipt = IF issued THEN receipts' ELSE @]
                   ELSE invoice[i]]
    /\ subscription' = Flushed(subscription, req[r].loaded, req[r].new)
    /\ locked' = Locking(req[r].projects)
    /\ Move(r, Idle)
    /\ UNCHANGED <<refunds, collected, now>>

-----------------------------------------------------------------------------
(* Refunds.                                                                 *)

RefundablePaid(i) == invoice[i].status \in {"paid", "refunded"}

\* admin_refund_invoice, inside the refund policy or overriding it.
Refundable(i) == invoice[i].status = "paid"

RefundRead(r, i, amount) ==
    /\ Refundable(i)
    /\ Start(r, [Idle EXCEPT !.pc = "refund", !.on = {i}, !.seen = invoice[i].status,
                             !.amount = amount])
    /\ UNCHANGED <<invoice, subscription, locked, refunds, receipts, collected, now>>

\* The refund entry is inserted and mark_refunded flushes.
MarkRefunded(r) ==
    /\ req[r].pc = "refund"
    /\ \A i \in req[r].on : Unlocked(i)
    /\ Move(r, [req[r] EXCEPT !.pc = "refunded"])
    /\ UNCHANGED <<invoice, subscription, locked, refunds, receipts, collected, now>>

\* _downgrade_to_free
Downgraded(row) ==
    [row EXCEPT !.tier = 0, !.status = "active", !.expires = 0, !.grace = 0]

RefundEndsNever(amount, i) == FALSE

\* A full refund of the payment the plan stands on drops the account to Free.
RefundEnds(amount, i) ==
    amount = Full /\ subscription.last = i /\ subscription.tier # 0

RefundAccount(r) ==
    /\ req[r].pc = "refunded"
    /\ \E i \in req[r].on :
          LET ends == RefundEnds(req[r].amount, i) IN
          Move(r, [req[r] EXCEPT
                      !.pc = "return", !.loaded = subscription,
                      !.projects = IF ends THEN "lock" ELSE "keep",
                      !.new = IF ends THEN Downgraded(subscription) ELSE subscription])
    /\ UNCHANGED <<invoice, subscription, locked, refunds, receipts, collected, now>>

RefundCommit(r) ==
    /\ req[r].pc = "return"
    /\ invoice' = [i \in Invoices |->
          IF i \in req[r].on THEN [invoice[i] EXCEPT !.status = "refunded"] ELSE invoice[i]]
    /\ refunds' = [i \in Invoices |->
          IF i \in req[r].on THEN refunds[i] + req[r].amount ELSE refunds[i]]
    /\ subscription' = Flushed(subscription, req[r].loaded, req[r].new)
    /\ locked' = Locking(req[r].projects)
    /\ Move(r, Idle)
    /\ UNCHANGED <<receipts, collected, now>>

-----------------------------------------------------------------------------
(* The plan changes without an invoice.                                     *)

ChangePlan(r, new, projects) ==
    /\ Start(r, [Idle EXCEPT !.pc = "plan", !.loaded = subscription, !.new = new,
                             !.projects = projects])
    /\ UNCHANGED <<invoice, subscription, locked, refunds, receipts, collected, now>>

EnterGraceUndated(r) ==
    /\ subscription.status = "active" /\ subscription.tier # 0
    /\ subscription.expires # 0 /\ subscription.expires <= now
    /\ ChangePlan(r, [subscription EXCEPT !.status = "grace"], "keep")

EnterGraceEarly(r) ==
    /\ subscription.status = "active" /\ subscription.tier # 0
    /\ subscription.expires # 0 /\ subscription.expires <= now + 1
    /\ ChangePlan(r, [subscription EXCEPT !.status = "grace", !.grace = now + Grace], "keep")

\* list_subscriptions_entering_grace and enter_grace.
EnterGraceRead(r) ==
    /\ subscription.status = "active" /\ subscription.tier # 0
    /\ subscription.expires # 0 /\ subscription.expires <= now
    /\ ChangePlan(r, [subscription EXCEPT !.status = "grace", !.grace = now + Grace], "keep")

\* list_grace_expired and maintenance_repo.downgrade_to_free.
FinalizeGraceRead(r) ==
    /\ subscription.status = "grace"
    /\ subscription.grace # 0 /\ subscription.grace <= now
    /\ ChangePlan(r, Downgraded(subscription), "lock")

\* cancel_subscription at once, and admin_force_downgrade, which does not ask for the tier.
DowngradeRead(r) == ChangePlan(r, Downgraded(subscription), "lock")

\* grant_comp_plan and redeem_plan_code, for a cycle.
CompRead(r, tier) ==
    ChangePlan(r, [subscription EXCEPT !.tier = tier, !.status = "active", !.grace = 0,
                                       !.expires = now + Cycle, !.comp = TRUE], "unlock")

\* The flush of the plan, the projects, and the commit.
PlanCommit(r) ==
    /\ req[r].pc = "plan"
    /\ subscription' = Flushed(subscription, req[r].loaded, req[r].new)
    /\ locked' = Locking(req[r].projects)
    /\ Move(r, Idle)
    /\ UNCHANGED <<invoice, refunds, receipts, collected, now>>

-----------------------------------------------------------------------------
(* A lost connection, a database error or a deadlock rolls a request back, *)
(* whatever it was at; a webhook is acknowledged all the same.             *)

Abort(r) ==
    /\ req[r].pc # "idle"
    /\ Move(r, Idle)
    /\ UNCHANGED <<invoice, subscription, locked, refunds, receipts, collected, now>>

\* A tick is longer than any request: the clock moves at most once under each.
Tick ==
    /\ now < MaxTime
    /\ \A r \in Requests : ~req[r].late
    /\ now' = now + 1
    /\ req' = [r \in Requests |-> [req[r] EXCEPT !.late = (req[r].pc # "idle")]]
    /\ UNCHANGED <<invoice, subscription, locked, refunds, receipts, collected>>

Buy ==
    \E i \in Invoices, tier \in Tiers \ {0} :
        \/ Checkout(i, tier)
        \/ \E day \in {now - 1, now} \ {0} : ManualCreate(i, tier, day)
StaleSweep == \E r \in Requests : StaleRead(r)
GraceSweep == \E r \in Requests : EnterGraceRead(r)
ExpirySweep == \E r \in Requests : FinalizeGraceRead(r)
Begin(r) ==
    \/ \E i \in Invoices : FailRead(r, i) \/ RejectRead(r, i) \/ PaymentRead(r, i)
                             \/ ApproveRead(r, i)
    \/ \E i \in Invoices, amount \in 1..Full : RefundRead(r, i, amount)
    \/ DowngradeRead(r)
    \/ \E tier \in Tiers \ {0} : CompRead(r, tier)
Continue(r) ==
    \/ MarkPaid(r) \/ AccountRead(r) \/ Deliver(r)
    \/ MarkRefunded(r) \/ RefundAccount(r) \/ RefundCommit(r)

Next ==
    \/ Buy
    \/ \E i \in Invoices : Collect(i)
    \/ StaleSweep \/ GraceSweep \/ ExpirySweep
    \/ \E r \in Requests : Begin(r) \/ Continue(r) \/ CloseCommit(r) \/ PlanCommit(r)
                            \/ Abort(r)
    \/ Tick

Spec == Init /\ [][Next]_vars

\* Celery beat starts the sweeps again and again, the rows they wait for are released, and
\* the database does not fail for ever (a commit that changes nothing looks like an abort).
Fairness ==
    /\ WF_vars(Tick)
    /\ SF_vars(StaleSweep) /\ SF_vars(ExpirySweep)
    /\ \A r \in Requests : SF_vars(Continue(r)) /\ SF_vars(CloseCommit(r) \/ PlanCommit(r))
    /\ <>[][\A r \in Requests :
                Abort(r) => Continue(r) \/ CloseCommit(r) \/ PlanCommit(r)]_vars

FairSpec == Spec /\ Fairness

-----------------------------------------------------------------------------
(* Properties.                                                              *)

\* Every variable stays in its domain.
TypeOK ==
    /\ invoice \in [Invoices -> InvoiceRow]
    /\ subscription \in SubscriptionRow
    /\ locked \in BOOLEAN
    /\ refunds \in [Invoices -> Nat]
    /\ receipts \in 0..MaxReceipts
    /\ collected \subseteq Invoices
    /\ now \in Time
    /\ req \in [Requests -> RequestState]

Moves == {<<"absent", "pending">>, <<"absent", "awaiting_approval">>,
          <<"pending", "paid">>, <<"pending", "failed">>, <<"pending", "cancelled">>,
          <<"awaiting_approval", "paid">>, <<"awaiting_approval", "cancelled">>,
          <<"cancelled", "paid">>, <<"failed", "paid">>, <<"paid", "refunded">>}

\* The life cycle of a transaction: what is paid can only be refunded, what is refunded
\* stays so, and a late payment revives a cancelled or failed invoice (SRS 5.5, BR-30).
TransactionMoves ==
    [][\A i \in Invoices :
          invoice'[i].status # invoice[i].status
             => <<invoice[i].status, invoice'[i].status>> \in Moves]_vars

\* What is paid can only be refunded (SRS 5.5).
PaidStays ==
    [][\A i \in Invoices :
          invoice[i].status = "paid" => invoice'[i].status \in {"paid", "refunded"}]_vars

BecomesPaid(i) == invoice[i].status # "paid" /\ invoice'[i].status = "paid"

\* The tier, an active plan that names the invoice, and unlocked projects.
Delivered(i) ==
    /\ subscription'.tier = invoice[i].tier /\ subscription'.status = "active"
    /\ subscription'.last = i
    /\ ~locked'

\* Whenever an invoice becomes paid, the plan it was paid for is delivered with it
\* (activate_invoice).
PlanDelivered == [][\A i \in Invoices : BecomesPaid(i) => Delivered(i)]_vars

\* No more is given back for an invoice than was paid for it (BR-97).
RefundBounded == \A i \in Invoices : refunds[i] <= Full

\* An invoice given back in full carries no plan: the account is on Free, on a later
\* invoice or on a granted plan (admin_refund_invoice).
RefundEndsPlan ==
    \A i \in Invoices :
        refunds[i] >= Full /\ subscription.last = i /\ subscription.tier # 0
            => subscription.comp

\* Only a paid plan that has run out is in its grace period (SRS 5.5, BR-90).
GraceAfterExpiry ==
    subscription.status = "grace"
        => /\ subscription.tier # 0
           /\ subscription.expires # 0 /\ subscription.expires <= now

\* Projects are read-only for want of a plan only while the account is on Free (BR-27).
LockedOnlyOnFree == locked => subscription.tier = 0

\* No plan without money: a plan that was not granted stands on an invoice the gateway
\* collected, or on a manual one that names who collected it (BR-29).
EntitlementBacked ==
    subscription.tier # 0 /\ ~subscription.comp
        => \E i \in Invoices : /\ i = subscription.last
                               /\ i \in collected \/ invoice[i].manual

\* The sweep ends every invoice that is left unpaid (SF-06).
PendingEnds ==
    \A i \in Invoices :
        (invoice[i].status = "pending" /\ invoice[i].at < MaxTime)
            ~> invoice[i].status # "pending"

\* No account stays in its grace period for ever (BR-90); the clock of the model must
\* reach the end of the period.
GraceEnds ==
    (subscription.status = "grace" /\ subscription.grace <= MaxTime)
        ~> subscription.status # "grace" \/ subscription.grace > MaxTime

-----------------------------------------------------------------------------
(* Why no plan comes without money.                                         *)

Backed(i) == i \in collected \/ invoice[i].manual

\* Only an invoice that exists is backed, one that waits for approval is manual, and every
\* invoice that a payment is working on is backed.
PaymentInv ==
    /\ \A i \in Invoices :
        /\ Backed(i) => invoice[i].status # "absent"
        /\ invoice[i].status = "awaiting_approval" => invoice[i].manual
    /\ \A r \in Requests :
        /\ req[r].pc = "close" => req[r].status \in {"failed", "cancelled"}
        /\ req[r].pc \in {"pay", "account", "deliver"} => \A i \in req[r].on : Backed(i)

\* The invoice a plan names is backed, and a plan without one was granted.  Columns of two
\* writers may mix, so what a request loaded counts as well: a name is never taken back, a
\* grant only by a payment, which leaves its name, and a tier that a request adds without a
\* payment comes with a grant.
PlanInv ==
    /\ subscription.last # None => Backed(subscription.last)
    /\ subscription.tier # 0 /\ ~subscription.comp => subscription.last # None
    /\ \A r \in Requests :
        /\ req[r].pc = "deliver" => req[r].new.last # None /\ Backed(req[r].new.last)
        /\ req[r].pc \in {"return", "plan"} =>
              /\ req[r].new.last = req[r].loaded.last
              /\ req[r].new.comp \/ req[r].new.comp = req[r].loaded.comp
              /\ req[r].new.tier \in {0, req[r].loaded.tier} \/ req[r].new.comp
        /\ req[r].pc \in {"deliver", "return", "plan"} =>
              /\ req[r].loaded.last # None => subscription.last # None
              /\ req[r].loaded.comp => subscription.comp \/ subscription.last # None

IInv == TypeOK /\ PaymentInv /\ PlanInv

-----------------------------------------------------------------------------
(* What can go wrong without row locks, and what cannot.                    *)

PlanSteps == {"deliver", "return", "plan"}

\* A row that the request works on is no longer what the request read.
Outdated(r) ==
    \/ \E i \in req[r].on : \/ invoice[i].status # req[r].seen
                            \/ req[r].pc = "deliver" /\ invoice[i].receipt # req[r].receipt
    \/ req[r].pc \in PlanSteps /\ subscription # req[r].loaded

\* A request commits over a row that another one has changed since.
LostUpdate == \E r \in Requests : req[r].pc # "idle" /\ req'[r].pc = "idle" /\ Outdated(r)

\* Money back, plan, grace period and project locks agree.
InOrder ==
    /\ \A i \in Invoices : refunds[i] > 0 => invoice[i].status = "refunded"
    /\ RefundBounded /\ RefundEndsPlan /\ GraceAfterExpiry /\ LockedOnlyOnFree

\* A step that keeps the account in order, transactions on their life cycle and receipts as
\* they were issued, and that delivers the plan of what it makes paid.
Harmless ==
    /\ InOrder => InOrder'
    /\ \A i \in Invoices :
        /\ invoice'[i].status # invoice[i].status
              => <<invoice[i].status, invoice'[i].status>> \in Moves
        /\ invoice[i].status # "absent" /\ invoice[i].receipt # 0
              => invoice'[i].receipt = invoice[i].receipt
        /\ BecomesPaid(i) => Delivered(i)

\* Nothing but a lost update does harm: whatever else webhooks, admins and sweeps do at
\* once leaves the account in order (SRS 5.5, BR-27, BR-90, BR-97).
OnlyLostUpdates == [][LostUpdate \/ Harmless]_vars

\* What a request decided on follows from what it read.
Decided(s) ==
    /\ s.pc = "close" => <<s.seen, s.status>> \in Moves
    /\ s.pc \in {"pay", "account", "deliver"} => <<s.seen, "paid">> \in Moves
    /\ s.pc \in {"refund", "refunded", "return"} => s.seen = "paid" /\ s.amount \in 1..Full
    /\ s.pc \notin {"idle", "plan", "close"} => \E i \in Invoices : s.on = {i}
    /\ s.pc \in {"idle", "plan"} => s.on = {}
    /\ s.pc = "deliver" =>
          /\ s.new.status = "active" /\ s.projects = "unlock"
          /\ \A i \in s.on : s.new.last = i /\ s.new.tier = invoice[i].tier
    /\ s.pc = "return" /\ s.amount = Full /\ s.new.last \in s.on => s.new.tier = 0
    /\ s.pc = "return" => s.new.last = s.loaded.last
    /\ s.pc \in {"return", "plan"} =>
          /\ s.projects = "keep" => s.new.tier = s.loaded.tier
          /\ s.projects = "lock" => s.new.tier = 0
          /\ s.new.status = "grace" =>
                \/ /\ s.loaded.status = "grace"
                   /\ s.new.tier = s.loaded.tier /\ s.new.expires = s.loaded.expires
                \/ s.new.tier # 0 /\ s.new.expires # 0 /\ s.new.expires <= now

AllDecided == \A r \in Requests : Decided(req[r])
=============================================================================
