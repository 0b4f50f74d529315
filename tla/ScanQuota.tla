------------------------------ MODULE ScanQuota ------------------------------
(***************************************************************************)
(* What a 3D scan costs: the plan's scans of a billing cycle, the Credits  *)
(* that are bought on top, and the requests that spend, buy, refund and    *)
(* expire them for one account.                                            *)
(*                                                                         *)
(* A scan is charged when the compute service confirms its output, in the  *)
(* transaction that completes the asset; a lock in Redis with a time to    *)
(* live keeps two confirmations apart.  A service may also charge a        *)
(* reference directly.  A charge takes a plan scan under the lock of the   *)
(* usage row, or else the oldest Credit nobody has locked, which it marks  *)
(* with the reference under a unique index.                                *)
(*                                                                         *)
(* Rows are read without a lock unless an action says otherwise; what a    *)
(* request has written it holds locked until its commit.                   *)
(***************************************************************************)
EXTENDS Integers, Sequences, FiniteSetsExt

CONSTANTS
    Invoices,       \* ids of the Credit invoices that can be created
    Scans,          \* mobile scans; the asset id is the reference of the charge
    Calls,          \* references charged by a service directly
    Requests,       \* requests served at the same time
    Limits,         \* plan scans a cycle may have; 0 is the Free tier
    MaxPerCycle,    \* CREDIT_MAX_PER_CYCLE
    Validity,       \* CREDIT_VALIDITY_MONTHS
    MaxCycle,       \* bound: billing cycles in a behaviour
    MaxTime,        \* bound: the clock stops there
    None

ASSUME QuotaAssumption ==
    /\ Limits \subseteq Nat /\ 0 \in Limits
    /\ MaxPerCycle \in Nat \ {0} /\ Validity \in Nat \ {0}
    /\ MaxCycle \in Nat \ {0} /\ MaxTime \in Nat
    /\ Scans \cap Calls = {}
    /\ None \notin Invoices \cup Scans \cup Calls \cup Requests

References == Scans \cup Calls

VARIABLES
    plan,           \* scan limit, status and cycle of the subscriptions row
    scansUsed,      \* monthly_usage.scans_used of each cycle
    invoice,        \* Credit invoices
    credit,         \* scan_credits rows in the order they were minted
    asset,          \* status of each scan's output asset
    lock,           \* the confirmation lock of each scan, in Redis
    planCharges,    \* history: plan scans charged for each mobile scan
    allowance,      \* history: the plan scans each cycle has had
    now,
    req

vars == <<plan, scansUsed, invoice, credit, asset, lock, planCharges, allowance, now, req>>
ledger == <<scansUsed, credit, planCharges, allowance>>
scans == <<asset, lock>>

Cycles == 1..MaxCycle
PlanRow == [limit : Limits, status : {"active", "grace"}, cycle : Cycles]
InvoiceRow == [status : {"absent", "pending", "closed", "paid", "refunded"},
               quantity : 0..MaxPerCycle, cycle : Cycles]
CreditRow == [invoice : Invoices, status : {"available", "used", "expired", "revoked"},
              expires : Nat, ref : References \cup {None}]
Steps == {"idle", "raw", "replay", "usage", "pick", "spend", "commit",
          "capped", "close", "pay", "mint", "refund", "revoke"}
RequestState == [pc : Steps, ref : References \cup {None}, limit : Limits, cycle : Cycles, at : Nat,
                 credit : Nat, charge : {"none", "plan", "credit", "free"},
                 invoice : Invoices \cup {None}, quantity : Nat, bought : Nat]

FreePlan == [limit |-> 0, status |-> "active", cycle |-> 1]
Idle == [pc |-> "idle", ref |-> None, limit |-> 0, cycle |-> 1, at |-> 0, credit |-> 0,
         charge |-> "none", invoice |-> None, quantity |-> 0, bought |-> 0]

Init ==
    /\ plan = FreePlan
    /\ scansUsed = [c \in Cycles |-> 0]
    /\ invoice = [i \in Invoices |-> [status |-> "absent", quantity |-> 0, cycle |-> 1]]
    /\ credit = <<>>
    /\ asset = [s \in Scans |-> "absent"]
    /\ lock = [s \in Scans |-> None]
    /\ planCharges = [s \in Scans |-> 0]
    /\ allowance = [c \in Cycles |-> 0]
    /\ now = 0
    /\ req = [r \in Requests |-> Idle]

-----------------------------------------------------------------------------
(* Rows, locks and counts.                                                  *)

Rows == 1..Len(credit)
Move(r, new) == req' = [req EXCEPT ![r] = new]
Start(r, state) == req[r].pc = "idle" /\ Move(r, state)

\* Row locks: whose transaction has written or selected the row FOR UPDATE.
AssetFree(s) ==
    \A r \in Requests :
        ~(req[r].ref = s /\ req[r].pc \in {"replay", "usage", "pick", "spend", "commit"})
UsageHeld(r) == req[r].pc \in {"pick", "spend"} \/ (req[r].pc = "commit" /\ req[r].charge # "none")
UsageUnlocked(c) == TRUE
UsageFree(c) == \A r \in Requests : ~(UsageHeld(r) /\ req[r].cycle = c)
CreditUnlocked(k) == TRUE
CreditFree(k) ==
    \A r \in Requests : ~(req[r].credit = k /\ req[r].pc \in {"spend", "commit"})
InvoiceFree(i) ==
    \A r \in Requests : ~(req[r].invoice = i /\ req[r].pc \in {"mint", "revoke"})
PlanFree == \A r \in Requests : req[r].pc # "capped"

CreditsOf(i) == {k \in Rows : credit[k].invoice = i}
Spendable(k, at) == credit[k].status = "available" /\ credit[k].expires > at
Bought(c) == Cardinality({k \in Rows : invoice[credit[k].invoice].cycle = c
                                       /\ credit[k].status # "revoked"})
Charged(s) == planCharges[s] + Cardinality({k \in Rows : credit[k].ref = s})

Pending(c) == {i \in Invoices : invoice[i].status = "pending" /\ invoice[i].cycle = c}
Reserved(c) == MapThenSumSet(LAMBDA i : invoice[i].quantity, Pending(c))

-----------------------------------------------------------------------------
(* A mobile scan up to its confirmation.                                    *)

\* assert_scan_available: a scan is left in the plan, or a Credit, and there is no grace period.
ScanAvailable ==
    /\ plan.status # "grace"
    /\ scansUsed[plan.cycle] < plan.limit \/ \E k \in Rows : Spendable(k, now)

\* bootstrap_scan, claim_compute_grant and create_output_upload: nothing is reserved.
Accept(s) ==
    /\ asset[s] = "absent"
    /\ ScanAvailable
    /\ asset' = [asset EXCEPT ![s] = "uploading"]
    /\ UNCHANGED <<plan, ledger, invoice, lock, now, req>>

\* confirm_output and confirm_upload take the lock of the scan and look at its asset; a
\* refusal leaves everything as it was.
Confirm(r, s) ==
    /\ asset[s] = "uploading" /\ lock[s] = None
    /\ lock' = [lock EXCEPT ![s] = r]
    /\ Start(r, [Idle EXCEPT !.pc = "raw", !.ref = s])
    /\ UNCHANGED <<plan, ledger, invoice, asset, now>>

\* mark_raw flushes and locks the asset.
MarkRaw(r) ==
    /\ req[r].pc = "raw"
    /\ AssetFree(req[r].ref)
    /\ Move(r, [req[r] EXCEPT !.pc = "replay"])
    /\ UNCHANGED <<plan, ledger, invoice, scans, now>>

\* consume_scan_for_user
Call(r, f) ==
    /\ Start(r, [Idle EXCEPT !.pc = "replay", !.ref = f])
    /\ UNCHANGED <<plan, ledger, invoice, scans, now>>

-----------------------------------------------------------------------------
(* consume_scan                                                             *)

Spent(f) == \E k \in Rows : credit[k].ref = f

\* The subscription and the Credits of the reference are read.
Replay(r) ==
    /\ req[r].pc = "replay"
    /\ Move(r, IF Spent(req[r].ref)
                  THEN [req[r] EXCEPT !.pc = "commit"]
                  ELSE [req[r] EXCEPT !.pc = "usage", !.limit = plan.limit,
                                      !.cycle = plan.cycle, !.at = now])
    /\ UNCHANGED <<plan, ledger, invoice, scans, now>>

LimitNow(r) == plan.limit
LimitRead(r) == req[r].limit

LockUsage(r) ==
    /\ req[r].pc = "usage"
    /\ UsageFree(req[r].cycle)
    /\ LET left == scansUsed[req[r].cycle] < LimitRead(r)
       IN  Move(r, [req[r] EXCEPT !.pc = IF left THEN "commit" ELSE "pick",
                                  !.charge = IF left THEN "plan" ELSE "none"])
    /\ UNCHANGED <<plan, ledger, invoice, scans, now>>

\* pick_oldest_spendable_for_update, SKIP LOCKED.
Pick(r) ==
    LET free == {k \in Rows : Spendable(k, req[r].at) /\ CreditFree(k)} IN
    /\ req[r].pc = "pick"
    /\ \E k \in free :
          /\ \A l \in free : credit[k].expires <= credit[l].expires
          /\ Move(r, [req[r] EXCEPT !.pc = "spend", !.credit = k])
    /\ UNCHANGED <<plan, ledger, invoice, scans, now>>

\* ScanQuotaExhausted: a scan is delivered all the same, a service call fails.
Exhausted(r) ==
    /\ req[r].pc = "pick"
    /\ ~\E k \in Rows : Spendable(k, req[r].at) /\ CreditFree(k)
    /\ Move(r, IF req[r].ref \in Scans
                  THEN [req[r] EXCEPT !.pc = "commit", !.charge = "free"] ELSE Idle)
    /\ UNCHANGED <<plan, ledger, invoice, scans, now>>

NoRefIndex(f) == TRUE

\* uq_scan_credits_consumed_ref: no committed row has the reference.
RefUnique(f) == ~Spent(f)

\* mark_used flushes.  It waits for a transaction that has written the same reference, and
\* a reference that is committed rolls everything back and answers as a replay.
Spend(r) ==
    /\ req[r].pc = "spend"
    /\ \A q \in Requests : ~(req[q].pc = "commit" /\ req[q].charge = "credit"
                             /\ req[q].ref = req[r].ref)
    /\ Move(r, IF RefUnique(req[r].ref)
                  THEN [req[r] EXCEPT !.pc = "commit", !.charge = "credit"] ELSE Idle)
    /\ UNCHANGED <<plan, ledger, invoice, scans, now>>

\* The charge and, for a scan, the raw asset are committed; the completion record in Redis
\* tells no more than the asset, and the lock is deleted, whoever holds it by now.
ChargeCommit(r) ==
    LET f == req[r].ref
        charge == req[r].charge IN
    /\ req[r].pc = "commit"
    /\ scansUsed' = [scansUsed EXCEPT ![req[r].cycle] =
                        IF charge = "plan" THEN @ + 1 ELSE @]
    /\ planCharges' = [s \in Scans |->
                        IF s = f /\ charge = "plan" THEN planCharges[s] + 1 ELSE planCharges[s]]
    /\ credit' = IF charge = "credit"
                    THEN [credit EXCEPT ![req[r].credit].status = "used",
                                        ![req[r].credit].ref = f]
                    ELSE credit
    /\ asset' = [s \in Scans |-> IF s = f THEN "raw" ELSE asset[s]]
    /\ lock' = [s \in Scans |-> IF s = f THEN None ELSE lock[s]]
    /\ Move(r, Idle)
    /\ UNCHANGED <<plan, allowance, invoice, now>>

\* The 15 seconds of the lock are over, whatever its holder is doing.
LockLapse(s) ==
    /\ lock[s] # None
    /\ lock' = [lock EXCEPT ![s] = None]
    /\ UNCHANGED <<plan, ledger, invoice, asset, now, req>>

-----------------------------------------------------------------------------
(* Credits are bought, refunded and expire.                                 *)

\* assert_can_purchase locks the subscription and counts the Credits of the cycle.
Checkout(r, i, quantity) ==
    /\ invoice[i].status = "absent" /\ \A q \in Requests : req[q].invoice # i
    /\ PlanFree
    /\ plan.status = "active" /\ plan.limit # 0
    /\ Start(r, [Idle EXCEPT !.pc = "capped", !.invoice = i, !.cycle = plan.cycle,
                             !.quantity = quantity, !.bought = Bought(plan.cycle)])
    /\ UNCHANGED <<plan, ledger, invoice, scans, now>>

WithinCap(r) == req[r].bought + Reserved(req[r].cycle) + req[r].quantity <= MaxPerCycle

\* Then it adds up the pending invoices, and create_credit_checkout creates one more.
CheckoutCommit(r) ==
    /\ req[r].pc = "capped"
    /\ invoice' = IF WithinCap(r)
                     THEN [invoice EXCEPT ![req[r].invoice] =
                             [status |-> "pending", quantity |-> req[r].quantity,
                              cycle |-> req[r].cycle]]
                     ELSE invoice
    /\ Move(r, Idle)
    /\ UNCHANGED <<plan, ledger, scans, now>>

\* The stale sweep or a failed payment reads a pending invoice, and closes it.
CloseRead(r, i) ==
    /\ invoice[i].status = "pending"
    /\ Start(r, [Idle EXCEPT !.pc = "close", !.invoice = i])
    /\ UNCHANGED <<plan, ledger, invoice, scans, now>>

CloseCommit(r) ==
    /\ req[r].pc = "close"
    /\ InvoiceFree(req[r].invoice)
    /\ invoice' = [invoice EXCEPT ![req[r].invoice].status = "closed"]
    /\ Move(r, Idle)
    /\ UNCHANGED <<plan, ledger, scans, now>>

\* _activate_paid_invoice: a paid webhook, late or repeated.
PaymentRead(r, i) ==
    /\ invoice[i].status \in {"pending", "closed"}
    /\ Start(r, [Idle EXCEPT !.pc = "pay", !.invoice = i])
    /\ UNCHANGED <<plan, ledger, invoice, scans, now>>

MarkPaid(r) ==
    /\ req[r].pc = "pay"
    /\ InvoiceFree(req[r].invoice)
    /\ Move(r, [req[r] EXCEPT !.pc = "mint"])
    /\ UNCHANGED <<plan, ledger, invoice, scans, now>>

MintedAlways(i) ==
    [k \in 1..invoice[i].quantity |->
        [invoice |-> i, status |-> "available", expires |-> now + Validity, ref |-> None]]

\* mint_for_invoice
Minted(i) ==
    IF CreditsOf(i) # {} THEN <<>>
    ELSE [k \in 1..invoice[i].quantity |->
            [invoice |-> i, status |-> "available", expires |-> now + Validity, ref |-> None]]

MintCommit(r) ==
    /\ req[r].pc = "mint"
    /\ credit' = credit \o Minted(req[r].invoice)
    /\ invoice' = [invoice EXCEPT ![req[r].invoice].status = "paid"]
    /\ Move(r, Idle)
    /\ UNCHANGED <<plan, allowance, scansUsed, planCharges, scans, now>>

\* admin_refund_invoice; an override skips refund_violation.
RefundRead(r, i, override) ==
    /\ invoice[i].status = "paid"
    /\ override \/ \A k \in CreditsOf(i) : credit[k].status # "used"
    /\ Start(r, [Idle EXCEPT !.pc = "refund", !.invoice = i])
    /\ UNCHANGED <<plan, ledger, invoice, scans, now>>

MarkRefunded(r) ==
    /\ req[r].pc = "refund"
    /\ InvoiceFree(req[r].invoice)
    /\ Move(r, [req[r] EXCEPT !.pc = "revoke"])
    /\ UNCHANGED <<plan, ledger, invoice, scans, now>>

AvailableUnlocked(k) == credit[k].status = "available" /\ CreditFree(k)
Available(k) == credit[k].status = "available"

Updated(ks, status) ==
    [k \in Rows |-> IF k \in ks THEN [credit[k] EXCEPT !.status = status] ELSE credit[k]]

\* revoke_available_for_invoice waits for the rows that a charge holds.
RefundCommit(r) ==
    LET ks == {k \in CreditsOf(req[r].invoice) : Available(k)} IN
    /\ req[r].pc = "revoke"
    /\ \A k \in ks : CreditFree(k)
    /\ credit' = Updated(ks, "revoked")
    /\ invoice' = [invoice EXCEPT ![req[r].invoice].status = "refunded"]
    /\ Move(r, Idle)
    /\ UNCHANGED <<plan, allowance, scansUsed, planCharges, scans, now>>

\* expire_due waits likewise.
ExpireDue ==
    LET due == {k \in Rows : Available(k) /\ credit[k].expires <= now} IN
    /\ due # {} /\ \A k \in due : CreditFree(k)
    /\ credit' = Updated(due, "expired")
    /\ UNCHANGED <<plan, allowance, scansUsed, planCharges, invoice, scans, now, req>>

-----------------------------------------------------------------------------
(* The plan as Billing changes it, waiting for a checkout that holds it.    *)

\* A payment, a granted plan or a downgrade starts a cycle.
NewCycle(limit) ==
    /\ PlanFree
    /\ plan.cycle < MaxCycle
    /\ plan' = [limit |-> limit, status |-> "active", cycle |-> plan.cycle + 1]
    /\ allowance' = [allowance EXCEPT ![plan.cycle + 1] = limit]
    /\ UNCHANGED <<scansUsed, credit, planCharges, invoice, scans, now, req>>

\* An upgrade in mid-cycle keeps the cycle and its usage.
Upgrade(limit) ==
    /\ PlanFree
    /\ plan.status = "active" /\ plan.limit # 0 /\ plan.limit < limit
    /\ plan' = [plan EXCEPT !.limit = limit]
    /\ allowance' = [allowance EXCEPT ![plan.cycle] = limit]
    /\ UNCHANGED <<scansUsed, credit, planCharges, invoice, scans, now, req>>

EnterGrace ==
    /\ PlanFree
    /\ plan.status = "active" /\ plan.limit # 0
    /\ plan' = [plan EXCEPT !.status = "grace"]
    /\ UNCHANGED <<ledger, invoice, scans, now, req>>

-----------------------------------------------------------------------------
Tick == now < MaxTime /\ now' = now + 1 /\ UNCHANGED <<plan, ledger, invoice, scans, req>>

\* An error rolls the transaction back and deletes the lock of a confirmation; a crash
\* leaves the lock to its time to live.
Abort(r) ==
    /\ req[r].pc # "idle"
    /\ Move(r, Idle)
    /\ lock' \in {lock, IF req[r].ref \in Scans
                           THEN [lock EXCEPT ![req[r].ref] = None] ELSE lock}
    /\ UNCHANGED <<plan, ledger, invoice, asset, now>>

Scan(r) ==
    \/ \E s \in Scans : Confirm(r, s)
    \/ \E f \in Calls : Call(r, f)
    \/ MarkRaw(r)
Consume(r) ==
    Replay(r) \/ LockUsage(r) \/ Pick(r) \/ Exhausted(r) \/ Spend(r) \/ ChargeCommit(r)
Buy(r) ==
    \/ \E i \in Invoices, quantity \in 1..MaxPerCycle : Checkout(r, i, quantity)
    \/ \E i \in Invoices : CloseRead(r, i) \/ PaymentRead(r, i)
    \/ \E i \in Invoices, override \in BOOLEAN : RefundRead(r, i, override)
    \/ CheckoutCommit(r) \/ CloseCommit(r) \/ MarkPaid(r) \/ MintCommit(r)
    \/ MarkRefunded(r) \/ RefundCommit(r)

Next ==
    \/ \E s \in Scans : Accept(s) \/ LockLapse(s)
    \/ \E r \in Requests : Scan(r) \/ Consume(r) \/ Buy(r) \/ Abort(r)
    \/ \E limit \in Limits : NewCycle(limit) \/ Upgrade(limit)
    \/ EnterGrace \/ ExpireDue \/ Tick

Spec == Init /\ [][Next]_vars

-----------------------------------------------------------------------------
(* Properties.                                                              *)

\* Every variable stays in its domain.
TypeOK ==
    /\ plan \in PlanRow
    /\ scansUsed \in [Cycles -> Nat]
    /\ invoice \in [Invoices -> InvoiceRow]
    /\ credit \in Seq(CreditRow)
    /\ asset \in [Scans -> {"absent", "uploading", "raw"}]
    /\ lock \in [Scans -> Requests \cup {None}]
    /\ planCharges \in [Scans -> Nat]
    /\ allowance \in [Cycles -> Limits]
    /\ now \in 0..MaxTime
    /\ req \in [Requests -> RequestState]

\* The plan never pays for more scans in a cycle than the cycle has, whatever is charged at
\* once, and also when a charge commits after its cycle is over (BR-23, the FOR UPDATE of
\* consume_scan).
PlanScansBounded == \A c \in Cycles : scansUsed[c] <= allowance[c]

\* A reference spends at most one Credit, however often it is sent (uq_scan_credits_consumed_ref).
OneCreditPerReference ==
    \A f \in References : Cardinality({k \in Rows : credit[k].ref = f}) <= 1

\* A payment mints the Credits it paid for, once: webhooks that are repeated, late, or race
\* a close or a refund add nothing (mint_for_invoice).
MintedOnce ==
    \A i \in Invoices :
        /\ CreditsOf(i) # {} => Cardinality(CreditsOf(i)) = invoice[i].quantity
        /\ invoice[i].status \in {"paid", "refunded"} => CreditsOf(i) # {}

\* A Credit that is used, expired or revoked stays so, with its reference, although a
\* charge, the expiry and a refund may write it at the same time (ScanCredit: "Status only
\* moves forward").
CreditMovesForward ==
    [][\A k \in Rows : credit[k].status # "available" => credit'[k] = credit[k]]_vars

\* Money that was given back buys no scan: no Credit of a refunded invoice can be spent.
RefundedIsSpent ==
    \A i \in Invoices, k \in Rows :
        invoice[i].status = "refunded" /\ credit[k].invoice = i
            => credit[k].status # "available"

\* A scan is charged at most once (confirm_output).
ChargedOnce == \A s \in Scans : Charged(s) <= 1

-----------------------------------------------------------------------------
(* Why they hold.                                                           *)

\* A cycle's usage row is held by one charge at a time; what a charge knows of the plan is no
\* more than what its cycle has; a plan scan about to be charged is still left; a cycle to
\* come is unused.
UsageInv ==
    /\ allowance[plan.cycle] = plan.limit
    /\ \A c \in Cycles : c > plan.cycle => scansUsed[c] = 0
    /\ \A r \in Requests :
        /\ req[r].cycle <= plan.cycle
        /\ req[r].limit <= allowance[req[r].cycle]
        /\ req[r].charge # "none" => req[r].pc = "commit"
        /\ req[r].charge = "plan" => scansUsed[req[r].cycle] < req[r].limit
    /\ \A r, q \in Requests :
        UsageHeld(r) /\ UsageHeld(q) /\ req[r].cycle = req[q].cycle => r = q

\* No two Credits have one reference, and one without a charge has none.
RefsInv ==
    /\ \A k \in Rows : credit[k].status = "available" => credit[k].ref = None
    /\ \A k, l \in Rows : credit[k].ref = credit[l].ref /\ credit[k].ref # None => k = l

\* A Credit that is picked is available until its charge commits, and nobody else has it or
\* charges the same reference.
PickedInv ==
    /\ \A r \in Requests :
        /\ req[r].credit # 0 =>
              /\ req[r].pc \in {"spend", "commit"} /\ req[r].credit \in Rows
              /\ credit[req[r].credit].status = "available"
        /\ req[r].pc = "spend" \/ req[r].charge = "credit" => req[r].credit # 0
        /\ req[r].charge = "credit" => ~Spent(req[r].ref)
    /\ \A r, q \in Requests :
        /\ req[r].credit = req[q].credit /\ req[r].credit # 0 => r = q
        /\ req[r].charge = "credit" /\ req[q].charge = "credit" /\ req[r].ref = req[q].ref
              => r = q

\* An invoice is created by one checkout and keeps its quantity; before that it sells nothing
\* and has no Credits, and one that is refunded has them.
InvoiceInv ==
    /\ \A i \in Invoices :
        /\ invoice[i].status = "absent" => \A k \in Rows : credit[k].invoice # i
        /\ invoice[i].status # "absent" <=> invoice[i].quantity # 0
    /\ \A r \in Requests :
        /\ req[r].pc = "capped" =>
              /\ req[r].invoice \in Invoices /\ req[r].quantity \in 1..MaxPerCycle
              /\ invoice[req[r].invoice].status = "absent"
        /\ req[r].pc \in {"close", "pay", "mint", "refund", "revoke"} =>
              req[r].invoice \in Invoices /\ invoice[req[r].invoice].status # "absent"
        /\ req[r].pc \in {"refund", "revoke"} =>
              \E k \in Rows : credit[k].invoice = req[r].invoice
    /\ \A r, q \in Requests :
        req[r].pc = "capped" /\ req[r].invoice = req[q].invoice => r = q

IInv ==
    /\ TypeOK
    /\ UsageInv /\ PlanScansBounded
    /\ RefsInv /\ PickedInv
    /\ InvoiceInv /\ MintedOnce /\ RefundedIsSpent

-----------------------------------------------------------------------------
(* What a request has read or holds locked is nobody's business: an account *)
(* sees its charges, payments and refunds happen at once.                   *)

Sold == [i \in Invoices |-> invoice[i].quantity]
Settled == [i \in Invoices |->
              IF invoice[i].status \in {"paid", "refunded"} THEN invoice[i].status ELSE "open"]

Ledger == INSTANCE ScanLedger WITH cycle <- plan.cycle, sold <- Sold, settled <- Settled

\* Charges, webhooks, sweeps and refunds, in any order and cut off anywhere, change the rows
\* only as one of ScanLedger's steps would (the locks and the unique index of consume_scan,
\* mint_for_invoice, revoke_available_for_invoice).
ScanLedgerSpec == Ledger!Spec

-----------------------------------------------------------------------------
(* The lock of a confirmation ends after 15 seconds, so ChargedOnce does    *)
(* not hold.  What a second charge takes.                                   *)

\* A scan is charged when it becomes raw, not before, and nobody can lock it from then on.
ConfirmInv ==
    \A s \in Scans :
        /\ asset[s] # "raw" => planCharges[s] = 0 /\ ~Spent(s)
        /\ asset[s] = "raw" => lock[s] = None

\* A scan is charged again only once it is raw, by a confirmation that began before and has
\* lost its lock: one that still has its lock when it commits is the first (the SET NX of
\* confirm_output and the status check of confirm_upload).
ChargedAgain ==
    [][\A s \in Scans :
          Charged(s) # 0 /\ Charged(s)' # Charged(s) =>
              /\ asset[s] = "raw"
              /\ \E r \in Requests : req[r].ref = s /\ lock[s] # r /\ ChargeCommit(r)]_vars
=============================================================================
