---------------------------- MODULE BillingProofs ----------------------------
(***************************************************************************)
(* No plan without money: what Billing promises however many requests mix  *)
(* their columns in the subscription row, and for any number of invoices,  *)
(* tiers and days.  Then that only a lost update does harm: a commit over  *)
(* a row that changed after the request read it.                           *)
(***************************************************************************)
EXTENDS Billing, TLAPS

rows == <<invoice, subscription, locked, refunds, receipts, collected, now>>

LEMMA Constants ==
    /\ 0 \in Tiers /\ Tiers \subseteq Nat /\ 0 \in Date /\ Date \subseteq Nat
    /\ 1 \in Time /\ Time \subseteq Nat /\ Time \subseteq 0..MaxTime
    /\ 0 \in 0..MaxReceipts /\ 0 \in 0..MaxTime
    /\ \A t \in 0..MaxTime : t + Cycle \in Date
    /\ \A t \in Time : t + Grace \in Date
BY BillingAssumption DEF Tiers, Date, Time

LEMMA RowDomains ==
    ASSUME TypeOK
    PROVE  /\ subscription \in SubscriptionRow /\ now \in Time
           /\ \A i \in Invoices : invoice[i] \in InvoiceRow
           /\ \A r \in Requests : req[r] \in RequestState
BY DEF TypeOK

LEMMA IdleState ==
    /\ Idle \in RequestState /\ Idle.pc = "idle" /\ Idle.on = {} /\ Idle.status = "absent"
    /\ Idle.amount = 0 /\ Idle.receipt = 0 /\ Idle.projects = "keep" /\ Idle.late = FALSE
    /\ Free \in SubscriptionRow
<1>1. Free \in SubscriptionRow
  BY Constants DEF Free, SubscriptionRow
<1>2. Idle \in RequestState
  BY <1>1, Constants DEF Idle, RequestState, Steps, InvoiceStatus, Full
<1> QED
  BY <1>1, <1>2 DEF Idle

\* A flush keeps a column that the request did not change and writes the others.
LEMMA FlushedRow ==
    ASSUME NEW row \in SubscriptionRow, NEW loaded \in SubscriptionRow,
           NEW new \in SubscriptionRow
    PROVE  /\ Flushed(row, loaded, new) \in SubscriptionRow
           /\ Flushed(row, loaded, new).tier =
                IF new.tier = loaded.tier THEN row.tier ELSE new.tier
           /\ Flushed(row, loaded, new).last =
                IF new.last = loaded.last THEN row.last ELSE new.last
           /\ Flushed(row, loaded, new).comp =
                IF new.comp = loaded.comp THEN row.comp ELSE new.comp
<1>1. DOMAIN row = {"tier", "status", "expires", "grace", "last", "comp"}
  BY DEF SubscriptionRow
<1>2. Flushed(row, loaded, new) =
        [c \in {"tier", "status", "expires", "grace", "last", "comp"} |->
            IF new[c] = loaded[c] THEN row[c] ELSE new[c]]
  BY <1>1 DEF Flushed
<1>3. Flushed(row, loaded, new) =
        [tier |-> IF new.tier = loaded.tier THEN row.tier ELSE new.tier,
         status |-> IF new.status = loaded.status THEN row.status ELSE new.status,
         expires |-> IF new.expires = loaded.expires THEN row.expires ELSE new.expires,
         grace |-> IF new.grace = loaded.grace THEN row.grace ELSE new.grace,
         last |-> IF new.last = loaded.last THEN row.last ELSE new.last,
         comp |-> IF new.comp = loaded.comp THEN row.comp ELSE new.comp]
  BY <1>2
<1>4. Flushed(row, loaded, new) \in SubscriptionRow
  BY <1>3 DEF SubscriptionRow
<1> QED
  BY <1>3, <1>4

-----------------------------------------------------------------------------
(* What a request in flight knows.                                          *)

Fits(s) ==
    /\ s.pc = "close" => s.status \in {"failed", "cancelled"}
    /\ s.pc \in {"pay", "account", "deliver"} => \A i \in s.on : Backed(i)
    /\ s.pc = "deliver" => s.new.last # None /\ Backed(s.new.last)
    /\ s.pc \in {"return", "plan"} =>
          /\ s.new.last = s.loaded.last
          /\ s.new.comp \/ s.new.comp = s.loaded.comp
          /\ s.new.tier \in {0, s.loaded.tier} \/ s.new.comp
    /\ s.pc \in {"deliver", "return", "plan"} =>
          /\ s.loaded.last # None => subscription.last # None
          /\ s.loaded.comp => subscription.comp \/ subscription.last # None

LEMMA FitsNow ==
    ASSUME IInv, NEW r \in Requests
    PROVE  Fits(req[r])
BY DEF IInv, PaymentInv, PlanInv, Fits

LEMMA MovedRequests ==
    ASSUME TypeOK, NEW r \in Requests, NEW s \in RequestState, Move(r, s)
    PROVE  /\ req' \in [Requests -> RequestState]
           /\ \A q \in Requests : req'[q] = IF q = r THEN s ELSE req[q]
BY DEF TypeOK, Move

\* A request that reads, or flushes its invoice, keeps the invariant.
LEMMA MoveOK ==
    ASSUME IInv, NEW r \in Requests, NEW s \in RequestState, Move(r, s), Fits(s),
           UNCHANGED rows
    PROVE  IInv'
<1>1. /\ req' \in [Requests -> RequestState]
      /\ \A q \in Requests : req'[q] = IF q = r THEN s ELSE req[q]
  BY MovedRequests DEF IInv
<1>2. UNCHANGED <<invoice, subscription, locked, refunds, receipts, collected, now>>
  BY DEF rows
<1>3. TypeOK'
  BY <1>1, <1>2 DEF IInv, TypeOK
<1>4. PaymentInv'
  BY <1>1, <1>2 DEF IInv, PaymentInv, Fits, Backed
<1>5. PlanInv'
  BY <1>1, <1>2 DEF IInv, PlanInv, Fits, Backed
<1> QED
  BY <1>3, <1>4, <1>5 DEF IInv

\* A step that writes rows keeps the invariant if it backs no less, names an invoice that is
\* backed, and leaves the requests as they were or idle.
LEMMA WriteOK ==
    ASSUME IInv, TypeOK',
           \A q \in Requests : \/ req'[q].pc = "idle"
                               \/ /\ req'[q].pc = req[q].pc /\ req'[q].on = req[q].on
                                  /\ req'[q].status = req[q].status /\ req'[q].new = req[q].new
                                  /\ req'[q].loaded = req[q].loaded,
           \A i \in Invoices :
              /\ Backed(i) => Backed(i)'
              /\ Backed(i)' => invoice'[i].status # "absent"
              /\ invoice'[i].status = "awaiting_approval" => invoice'[i].manual,
           subscription.last # None => subscription'.last # None,
           subscription.comp => subscription'.comp \/ subscription'.last # None,
           (subscription.last # None => Backed(subscription.last))',
           subscription'.tier # 0 /\ ~subscription'.comp => subscription'.last # None
    PROVE  IInv'
<1>0. \A q \in Requests : req[q] \in RequestState
  BY RowDomains DEF IInv
<1>1. PaymentInv'
  <2>1. \A q \in Requests :
          /\ req'[q].pc = "close" => req'[q].status \in {"failed", "cancelled"}
          /\ req'[q].pc \in {"pay", "account", "deliver"} => \A i \in req'[q].on : Backed(i)'
    BY <1>0 DEF IInv, PaymentInv, RequestState
  <2> QED
    BY <2>1 DEF PaymentInv, Backed
<1>2. PlanInv'
  <2>1. \A q \in Requests :
          req'[q].pc = "deliver" => req'[q].new.last # None /\ Backed(req[q].new.last)'
    BY <1>0 DEF IInv, PlanInv, RequestState, SubscriptionRow
  <2>2. \A q \in Requests : req'[q].pc \in {"return", "plan"} =>
              /\ req'[q].new.last = req'[q].loaded.last
              /\ req'[q].new.comp \/ req'[q].new.comp = req'[q].loaded.comp
              /\ req'[q].new.tier \in {0, req'[q].loaded.tier} \/ req'[q].new.comp
    BY DEF IInv, PlanInv
  <2>3. \A q \in Requests : req'[q].pc \in {"deliver", "return", "plan"} =>
              /\ req'[q].loaded.last # None => subscription'.last # None
              /\ req'[q].loaded.comp => subscription'.comp \/ subscription'.last # None
    BY DEF IInv, PlanInv
  <2>4. (\A q \in Requests :
          /\ req[q].pc = "deliver" => req[q].new.last # None /\ Backed(req[q].new.last)
          /\ req[q].pc \in {"return", "plan"} =>
              /\ req[q].new.last = req[q].loaded.last
              /\ req[q].new.comp \/ req[q].new.comp = req[q].loaded.comp
              /\ req[q].new.tier \in {0, req[q].loaded.tier} \/ req[q].new.comp
          /\ req[q].pc \in {"deliver", "return", "plan"} =>
              /\ req[q].loaded.last # None => subscription.last # None
              /\ req[q].loaded.comp => subscription.comp \/ subscription.last # None)'
    BY <2>1, <2>2, <2>3, Zenon
  <2>5. (/\ subscription.last # None => Backed(subscription.last)
         /\ subscription.tier # 0 /\ ~subscription.comp => subscription.last # None)'
    BY DEF Backed
  <2> QED
    BY <2>4, <2>5, Zenon DEF PlanInv
<1> QED
  BY <1>1, <1>2 DEF IInv

-----------------------------------------------------------------------------
(* Requests that read.                                                      *)

LEMMA StartClose ==
    ASSUME IInv, NEW r \in Requests, NEW on \in SUBSET Invoices,
           NEW seen \in InvoiceStatus, NEW status \in {"failed", "cancelled"},
           Close(r, on, seen, status)
    PROVE  IInv'
<1> DEFINE s == [Idle EXCEPT !.pc = "close", !.on = on, !.seen = seen, !.status = status]
<1>1. /\ s \in RequestState /\ s.pc = "close" /\ s.status = status
  BY IdleState DEF RequestState, Steps, InvoiceStatus
<1>2. Move(r, s) /\ UNCHANGED rows
  BY DEF Close, Start, rows
<1> HIDE DEF s
<1>3. Fits(s)
  BY <1>1 DEF Fits
<1> QED
  BY <1>1, <1>2, <1>3, MoveOK

\* A payment starts on an invoice that the gateway collected or an admin vouches for.
LEMMA StartPay ==
    ASSUME IInv, NEW r \in Requests, NEW i \in Invoices, PaymentRead(r, i) \/ ApproveRead(r, i)
    PROVE  IInv'
<1> DEFINE s == [Idle EXCEPT !.pc = "pay", !.on = {i}, !.seen = invoice[i].status,
                             !.receipt = invoice[i].receipt]
<1>1. invoice[i].receipt \in 0..MaxReceipts /\ invoice[i].status \in InvoiceStatus
  BY RowDomains DEF IInv, InvoiceRow
<1>2. /\ s \in RequestState /\ s.pc = "pay" /\ s.on = {i}
  BY <1>1, IdleState DEF RequestState, Steps
<1>3. Move(r, s) /\ UNCHANGED rows
  BY DEF PaymentRead, ApproveRead, LoadPayment, Start, rows
<1>4. Backed(i)
  BY DEF IInv, PaymentInv, PaymentRead, ApproveRead, Backed
<1> HIDE DEF s
<1>5. Fits(s)
  BY <1>2, <1>4 DEF Fits
<1> QED
  BY <1>2, <1>3, <1>5, MoveOK

LEMMA StartRefund ==
    ASSUME IInv, NEW r \in Requests, NEW i \in Invoices, NEW amount \in 1..Full,
           RefundRead(r, i, amount)
    PROVE  IInv'
<1> DEFINE s == [Idle EXCEPT !.pc = "refund", !.on = {i}, !.seen = invoice[i].status,
                             !.amount = amount]
<1>1. /\ s \in RequestState /\ s.pc = "refund"
  <2>1. {i} \in SUBSET Invoices /\ amount \in 0..Full
    BY DEF Full
  <2>2. invoice[i].status \in InvoiceStatus
    BY RowDomains DEF IInv, InvoiceRow
  <2> QED
    BY <2>1, <2>2, IdleState DEF RequestState, Steps
<1>2. Move(r, s) /\ UNCHANGED rows
  BY DEF RefundRead, Start, rows
<1> HIDE DEF s
<1>3. Fits(s)
  BY <1>1 DEF Fits
<1> QED
  BY <1>1, <1>2, <1>3, MoveOK

\* The row of a request is flushed, or aborted.
LEMMA PassOK ==
    ASSUME IInv, NEW r \in Requests, MarkPaid(r) \/ MarkRefunded(r) \/ Abort(r)
    PROVE  IInv'
<1>0. req[r] \in RequestState /\ Fits(req[r])
  BY RowDomains, FitsNow DEF IInv
<1>1. CASE MarkPaid(r)
  <2> DEFINE s == [req[r] EXCEPT !.pc = "account"]
  <2>1. s \in RequestState /\ s.pc = "account" /\ s.on = req[r].on
    BY <1>0 DEF RequestState, Steps
  <2>2. Move(r, s) /\ req[r].pc = "pay" /\ UNCHANGED rows
    BY <1>1 DEF MarkPaid, rows
  <2> HIDE DEF s
  <2>3. Fits(s)
    BY <1>0, <2>1, <2>2 DEF Fits
  <2> QED
    BY <2>1, <2>2, <2>3, MoveOK
<1>2. CASE MarkRefunded(r)
  <2> DEFINE s == [req[r] EXCEPT !.pc = "refunded"]
  <2>1. s \in RequestState /\ s.pc = "refunded"
    BY <1>0 DEF RequestState, Steps
  <2>2. Move(r, s) /\ UNCHANGED rows
    BY <1>2 DEF MarkRefunded, rows
  <2> HIDE DEF s
  <2>3. Fits(s)
    BY <2>1 DEF Fits
  <2> QED
    BY <2>1, <2>2, <2>3, MoveOK
<1>3. CASE Abort(r)
  <2>1. Move(r, Idle) /\ UNCHANGED rows
    BY <1>3 DEF Abort, rows
  <2>2. Fits(Idle)
    BY IdleState DEF Fits
  <2> QED
    BY <2>1, <2>2, IdleState, MoveOK
<1> QED
  BY <1>1, <1>2, <1>3

\* What a payment makes of the plan.
LEMMA RenewedRow ==
    ASSUME TypeOK, NEW i \in Invoices
    PROVE  Renewed(i) \in SubscriptionRow /\ Renewed(i).last = i
<1>1. /\ invoice[i].tier \in Tiers /\ invoice[i].at \in 0..MaxTime
      /\ subscription.expires \in Date /\ now \in Time
  BY RowDomains DEF InvoiceRow, SubscriptionRow
<1>2. (IF invoice[i].manual THEN invoice[i].at ELSE now) + Cycle \in Date
  BY <1>1, Constants
<1>3. (IF invoice[i].upgrade /\ subscription.expires # 0 THEN subscription.expires
       ELSE (IF invoice[i].manual THEN invoice[i].at ELSE now) + Cycle) \in Date
  BY <1>1, <1>2
<1>4. 0 \in Date
  BY Constants
<1> QED
  BY <1>1, <1>3, <1>4 DEF Renewed, SubscriptionRow

LEMMA AccountReadOK ==
    ASSUME IInv, NEW r \in Requests, AccountRead(r)
    PROVE  IInv'
<1>1. PICK i \in req[r].on :
        Move(r, [req[r] EXCEPT !.pc = "deliver", !.loaded = subscription,
                               !.new = Renewed(i), !.projects = "unlock"])
  BY DEF AccountRead
<1>0. /\ req[r] \in RequestState /\ i \in Invoices /\ subscription \in SubscriptionRow
      /\ Fits(req[r]) /\ req[r].pc = "account" /\ UNCHANGED rows
  BY RowDomains, FitsNow DEF IInv, RequestState, AccountRead, rows
<1>2. Renewed(i) \in SubscriptionRow /\ Renewed(i).last = i
  BY <1>0, RenewedRow DEF IInv
<1> DEFINE n == Renewed(i)
<1> HIDE DEF n
<1> DEFINE s == [req[r] EXCEPT !.pc = "deliver", !.loaded = subscription,
                               !.new = n, !.projects = "unlock"]
<1>3. /\ s \in RequestState /\ s.pc = "deliver" /\ s.on = req[r].on
      /\ s.loaded = subscription /\ s.new = n
  BY <1>0, <1>2 DEF RequestState, Steps, n
<1>4. Move(r, s)
  BY <1>1 DEF n
<1> HIDE DEF s
<1>5. i # None /\ Backed(i)
  BY <1>0, BillingAssumption DEF Fits
<1>6. Fits(s)
  BY <1>0, <1>2, <1>3, <1>5 DEF Fits, n
<1> QED
  BY <1>0, <1>3, <1>4, <1>6, MoveOK

\* A plan change that keeps the name, and the grant or adds one.
LEMMA ChangeFits ==
    ASSUME NEW s \in RequestState, s.pc \in {"return", "plan"}, s.loaded = subscription,
           s.new.last = subscription.last,
           s.new.comp \/ s.new.comp = subscription.comp,
           s.new.tier \in {0, subscription.tier} \/ s.new.comp
    PROVE  Fits(s)
BY DEF Fits

LEMMA DowngradedRow ==
    ASSUME TypeOK
    PROVE  /\ Downgraded(subscription) \in SubscriptionRow
           /\ Downgraded(subscription).last = subscription.last
           /\ Downgraded(subscription).comp = subscription.comp
           /\ Downgraded(subscription).tier = 0
BY RowDomains, Constants DEF Downgraded, SubscriptionRow

LEMMA RefundAccountOK ==
    ASSUME IInv, NEW r \in Requests, RefundAccount(r)
    PROVE  IInv'
<1>1. PICK new \in {subscription, Downgraded(subscription)}, projects \in {"lock", "keep"} :
        Move(r, [req[r] EXCEPT !.pc = "return", !.loaded = subscription,
                               !.projects = projects, !.new = new])
  BY DEF RefundAccount
<1>0. /\ req[r] \in RequestState /\ subscription \in SubscriptionRow /\ UNCHANGED rows
  BY RowDomains DEF IInv, RefundAccount, rows
<1>2. /\ new \in SubscriptionRow /\ new.last = subscription.last
      /\ new.comp = subscription.comp /\ new.tier \in {0, subscription.tier}
  BY <1>0, DowngradedRow DEF IInv
<1> DEFINE s == [req[r] EXCEPT !.pc = "return", !.loaded = subscription,
                               !.projects = projects, !.new = new]
<1>3. /\ s \in RequestState /\ s.pc = "return" /\ s.loaded = subscription /\ s.new = new
  BY <1>0, <1>2 DEF RequestState, Steps
<1>4. Move(r, s)
  BY <1>1
<1> HIDE DEF s
<1>5. Fits(s)
  BY <1>2, <1>3, ChangeFits
<1> QED
  BY <1>0, <1>3, <1>4, <1>5, MoveOK

LEMMA StartPlan ==
    ASSUME IInv, NEW r \in Requests, NEW new \in SubscriptionRow,
           NEW projects \in {"keep", "lock", "unlock"}, ChangePlan(r, new, projects),
           new.last = subscription.last, new.comp \/ new.comp = subscription.comp,
           new.tier \in {0, subscription.tier} \/ new.comp
    PROVE  IInv'
<1> DEFINE s == [Idle EXCEPT !.pc = "plan", !.loaded = subscription, !.new = new,
                             !.projects = projects]
<1>1. /\ s \in RequestState /\ s.pc = "plan" /\ s.loaded = subscription /\ s.new = new
  BY IdleState, RowDomains DEF IInv, RequestState, Steps
<1>2. Move(r, s) /\ UNCHANGED rows
  BY DEF ChangePlan, Start, rows
<1> HIDE DEF s
<1>3. Fits(s)
  BY <1>1, ChangeFits
<1> QED
  BY <1>1, <1>2, <1>3, MoveOK

\* Tasks and admins that change the plan: a grant is the only one that adds a tier.
LEMMA PlanReadOK ==
    ASSUME IInv, NEW r \in Requests,
           \/ EnterGraceRead(r) \/ FinalizeGraceRead(r) \/ DowngradeRead(r)
           \/ \E tier \in Tiers \ {0} : CompRead(r, tier)
    PROVE  IInv'
<1>0. /\ subscription \in SubscriptionRow /\ now \in Time
      /\ now + Cycle \in Date /\ now + Grace \in Date /\ 0 \in Date
  BY RowDomains, Constants DEF IInv
<1>1. CASE EnterGraceRead(r)
  <2> DEFINE new == [subscription EXCEPT !.status = "grace", !.grace = now + Grace]
  <2>1. /\ new \in SubscriptionRow /\ new.last = subscription.last
        /\ new.comp = subscription.comp /\ new.tier = subscription.tier
    BY <1>0 DEF SubscriptionRow
  <2>2. ChangePlan(r, new, "keep")
    BY <1>1 DEF EnterGraceRead
  <2> HIDE DEF new
  <2> QED
    BY <2>1, <2>2, StartPlan
<1>2. CASE FinalizeGraceRead(r) \/ DowngradeRead(r)
  <2>1. ChangePlan(r, Downgraded(subscription), "lock")
    BY <1>2 DEF FinalizeGraceRead, DowngradeRead
  <2> QED
    BY <2>1, DowngradedRow, StartPlan DEF IInv
<1>3. ASSUME NEW tier \in Tiers \ {0}, CompRead(r, tier) PROVE IInv'
  <2> DEFINE new == [subscription EXCEPT !.tier = tier, !.status = "active", !.grace = 0,
                                         !.expires = now + Cycle, !.comp = TRUE]
  <2>1. new \in SubscriptionRow /\ new.last = subscription.last /\ new.comp = TRUE
    BY <1>0 DEF SubscriptionRow
  <2>2. ChangePlan(r, new, "unlock")
    BY <1>3 DEF CompRead
  <2> HIDE DEF new
  <2> QED
    BY <2>1, <2>2, StartPlan
<1> QED
  BY <1>1, <1>2, <1>3

-----------------------------------------------------------------------------
(* Rows that are written.                                                   *)

\* An invoice comes into being, or its money is collected.
LEMMA BuyOK ==
    ASSUME IInv, Buy \/ \E i \in Invoices : Collect(i)
    PROVE  IInv'
<1>0. /\ TypeOK /\ UNCHANGED <<subscription, locked, refunds, receipts, now, req>>
      /\ now \in Time /\ now \in 0..MaxTime /\ 0 \in 0..MaxReceipts
  BY Constants DEF IInv, TypeOK, Buy, Checkout, ManualCreate, Collect
<1>1. ASSUME NEW i \in Invoices, NEW row \in InvoiceRow, invoice[i].status = "absent",
             row.status = IF row.manual THEN "awaiting_approval" ELSE "pending",
             invoice' = [invoice EXCEPT ![i] = row], collected' = collected
      PROVE  IInv'
  <2>1. /\ invoice' \in [Invoices -> InvoiceRow]
        /\ \A j \in Invoices : invoice'[j] = IF j = i THEN row ELSE invoice[j]
    BY <1>0, <1>1 DEF TypeOK
  <2>2. TypeOK'
    BY <1>0, <1>1, <2>1 DEF TypeOK
  <2>3. ~Backed(i)
    BY <1>1 DEF IInv, PaymentInv
  <2>4. \A j \in Invoices :
            /\ Backed(j) => Backed(j)'
            /\ Backed(j)' => invoice'[j].status # "absent"
            /\ invoice'[j].status = "awaiting_approval" => invoice'[j].manual
    BY <1>1, <2>1, <2>3 DEF IInv, PaymentInv, Backed
  <2>5. (subscription.last # None => Backed(subscription.last))'
    <3>1. subscription.last # None =>
            subscription.last \in Invoices /\ Backed(subscription.last)
      BY <1>0 DEF IInv, PlanInv, TypeOK, SubscriptionRow
    <3> QED
      BY <1>0, <2>4, <3>1 DEF Backed
  <2>6. subscription' = subscription /\ req' = req
    BY <1>0
  <2>7. subscription.tier # 0 /\ ~subscription.comp => subscription.last # None
    BY DEF IInv, PlanInv
  <2> QED
    BY <2>2, <2>4, <2>5, <2>6, <2>7, WriteOK
<1>2. ASSUME NEW i \in Invoices, NEW tier \in Tiers \ {0}, Checkout(i, tier) PROVE IInv'
  <2> DEFINE row == [status |-> "pending", tier |-> tier, upgrade |-> MidcycleUpgrade(tier),
                     manual |-> FALSE, at |-> now, receipt |-> 0]
  <2>0. MidcycleUpgrade(tier) \in BOOLEAN
    BY DEF MidcycleUpgrade
  <2>1. row \in InvoiceRow /\ row.status = "pending" /\ row.manual = FALSE
    BY <1>0, <2>0, Zenon DEF InvoiceRow, InvoiceStatus
  <2>2. /\ invoice[i].status = "absent" /\ invoice' = [invoice EXCEPT ![i] = row]
        /\ collected' = collected
    BY <1>2 DEF Checkout
  <2> HIDE DEF row
  <2> QED
    BY <1>1, <2>1, <2>2
<1>3. ASSUME NEW i \in Invoices, NEW tier \in Tiers \ {0}, NEW d \in {now - 1, now} \ {0},
             ManualCreate(i, tier, d)
      PROVE  IInv'
  <2> DEFINE row == [status |-> "awaiting_approval", tier |-> tier, upgrade |-> FALSE,
                     manual |-> TRUE, at |-> d, receipt |-> 0]
  <2>0. d \in 0..MaxTime
    BY <1>0, BillingAssumption DEF Time
  <2>1. row \in InvoiceRow /\ row.status = "awaiting_approval" /\ row.manual = TRUE
    BY <1>0, <2>0 DEF InvoiceRow, InvoiceStatus
  <2>2. /\ invoice[i].status = "absent" /\ invoice' = [invoice EXCEPT ![i] = row]
        /\ collected' = collected
    BY <1>3 DEF ManualCreate
  <2> HIDE DEF row
  <2> QED
    BY <1>1, <2>1, <2>2
<1>4. ASSUME NEW i \in Invoices, Collect(i) PROVE IInv'
  <2>1. /\ invoice' = invoice /\ collected' = collected \cup {i}
        /\ invoice[i].status # "absent"
    BY <1>4 DEF Collect
  <2>2. TypeOK'
    BY <1>0, <2>1 DEF TypeOK
  <2>3. \A j \in Invoices :
            /\ Backed(j) => Backed(j)'
            /\ Backed(j)' => invoice'[j].status # "absent"
            /\ invoice'[j].status = "awaiting_approval" => invoice'[j].manual
    BY <2>1 DEF IInv, PaymentInv, Backed
  <2>4. (subscription.last # None => Backed(subscription.last))'
    BY <1>0, <2>1 DEF IInv, PlanInv, Backed
  <2>5. subscription' = subscription /\ req' = req
    BY <1>0
  <2>6. subscription.tier # 0 /\ ~subscription.comp => subscription.last # None
    BY DEF IInv, PlanInv
  <2> QED
    BY <2>2, <2>3, <2>4, <2>5, <2>6, WriteOK
<1> QED
  BY <1>2, <1>3, <1>4 DEF Buy

\* The invoices after a request has written the status of those it is on.
LEMMA StatusWritten ==
    ASSUME IInv, NEW on \in SUBSET Invoices, NEW status \in InvoiceStatus,
           status \notin {"absent", "awaiting_approval"},
           NEW receipt \in 0..MaxReceipts, NEW issued \in BOOLEAN, collected' = collected,
           invoice' = [i \in Invoices |->
              IF i \in on THEN [invoice[i] EXCEPT !.status = status,
                                                  !.receipt = IF issued THEN receipt ELSE @]
              ELSE invoice[i]]
    PROVE  /\ invoice' \in [Invoices -> InvoiceRow]
           /\ \A i \in Invoices :
                /\ Backed(i) => Backed(i)'
                /\ Backed(i)' => invoice'[i].status # "absent"
                /\ invoice'[i].status = "awaiting_approval" => invoice'[i].manual
           /\ \A i \in Invoices : Backed(i)' <=> Backed(i)
<1>1. \A i \in Invoices : invoice[i] \in InvoiceRow
  BY RowDomains DEF IInv
<1>2. \A i \in Invoices :
        /\ invoice'[i] \in InvoiceRow
        /\ invoice'[i].manual = invoice[i].manual
        /\ invoice'[i].status = IF i \in on THEN status ELSE invoice[i].status
  BY <1>1 DEF InvoiceRow
<1>3. invoice' \in [Invoices -> InvoiceRow]
  BY <1>2
<1>4. \A i \in Invoices : Backed(i)' <=> Backed(i)
  BY <1>2 DEF Backed
<1>5. \A i \in Invoices :
        /\ Backed(i) => invoice'[i].status # "absent"
        /\ invoice'[i].status = "awaiting_approval" => invoice'[i].manual
  BY <1>2 DEF IInv, PaymentInv
<1> QED
  BY <1>3, <1>4, <1>5

\* A request that ends leaves the others as they were.
LEMMA Ended ==
    ASSUME TypeOK, NEW r \in Requests, Move(r, Idle)
    PROVE  /\ req' \in [Requests -> RequestState]
           /\ \A q \in Requests :
                \/ req'[q].pc = "idle"
                \/ /\ req'[q].pc = req[q].pc /\ req'[q].on = req[q].on
                   /\ req'[q].status = req[q].status /\ req'[q].new = req[q].new
                   /\ req'[q].loaded = req[q].loaded
BY IdleState, MovedRequests

LEMMA CloseCommitOK ==
    ASSUME IInv, NEW r \in Requests, CloseCommit(r)
    PROVE  IInv'
<1>1. /\ TypeOK /\ req[r] \in RequestState /\ Move(r, Idle)
      /\ UNCHANGED <<subscription, locked, refunds, receipts, collected, now>>
      /\ req[r].status \in {"failed", "cancelled"} /\ req[r].on \in SUBSET Invoices
      /\ 0 \in 0..MaxReceipts
  BY RowDomains, Constants DEF IInv, PaymentInv, CloseCommit, RequestState
<1>2. invoice' = [i \in Invoices |->
        IF i \in req[r].on THEN [invoice[i] EXCEPT !.status = req[r].status,
                                                   !.receipt = IF FALSE THEN 0 ELSE @]
        ELSE invoice[i]]
  <2>1. \A i \in Invoices : [invoice[i] EXCEPT !.status = req[r].status] =
            [invoice[i] EXCEPT !.status = req[r].status, !.receipt = IF FALSE THEN 0 ELSE @]
    <3>1. \A i \in Invoices : invoice[i] \in InvoiceRow
      BY <1>1, RowDomains
    <3> QED
      BY <3>1 DEF InvoiceRow
  <2> QED
    BY <2>1 DEF CloseCommit
<1>3. req[r].status \in InvoiceStatus
  BY <1>1 DEF InvoiceStatus
<1> DEFINE on == req[r].on
           status == req[r].status
<1> HIDE DEF on, status
<1>4. /\ invoice' \in [Invoices -> InvoiceRow]
      /\ \A i \in Invoices :
            /\ Backed(i) => Backed(i)'
            /\ Backed(i)' => invoice'[i].status # "absent"
            /\ invoice'[i].status = "awaiting_approval" => invoice'[i].manual
  BY <1>1, <1>2, <1>3, StatusWritten
<1>5. TypeOK'
  BY <1>1, <1>4, Ended DEF TypeOK
<1>6. (subscription.last # None => Backed(subscription.last))'
  <2>1. subscription.last # None => subscription.last \in Invoices /\ Backed(subscription.last)
    BY <1>1 DEF IInv, PlanInv, TypeOK, SubscriptionRow
  <2> QED
    BY <1>1, <1>4, <2>1 DEF Backed
<1>7. subscription' = subscription
      /\ (subscription.tier # 0 /\ ~subscription.comp => subscription.last # None)
  BY <1>1 DEF IInv, PlanInv
<1> QED
  BY <1>1, <1>4, <1>5, <1>6, <1>7, Ended, WriteOK

\* The plan after the flush of a request: it is named as long as it was, or by a payment.
LEMMA PlanWritten ==
    ASSUME IInv, NEW r \in Requests, req[r].pc \in {"deliver", "return", "plan"},
           subscription' = Flushed(subscription, req[r].loaded, req[r].new),
           \A i \in Invoices : Backed(i) => Backed(i)'
    PROVE  /\ subscription' \in SubscriptionRow
           /\ subscription.last # None => subscription'.last # None
           /\ subscription.comp => subscription'.comp \/ subscription'.last # None
           /\ (subscription.last # None => Backed(subscription.last))'
           /\ subscription'.tier # 0 /\ ~subscription'.comp => subscription'.last # None
<1> DEFINE L == req[r].loaded
           N == req[r].new
           S == subscription
<1>1. /\ L \in SubscriptionRow /\ N \in SubscriptionRow /\ S \in SubscriptionRow
      /\ Fits(req[r])
  BY RowDomains, FitsNow DEF IInv, RequestState
<1>2. /\ subscription' \in SubscriptionRow
      /\ subscription'.tier = IF N.tier = L.tier THEN S.tier ELSE N.tier
      /\ subscription'.last = IF N.last = L.last THEN S.last ELSE N.last
      /\ subscription'.comp = IF N.comp = L.comp THEN S.comp ELSE N.comp
  BY <1>1, FlushedRow
<1>3. /\ req[r].pc = "deliver" => N.last # None /\ Backed(N.last)
      /\ req[r].pc \in {"return", "plan"} =>
            /\ N.last = L.last
            /\ N.comp \/ N.comp = L.comp
            /\ N.tier \in {0, L.tier} \/ N.comp
      /\ L.last # None => S.last # None
      /\ L.comp => S.comp \/ S.last # None
  BY <1>1 DEF Fits
<1>4. /\ S.last # None => Backed(S.last)
      /\ S.tier # 0 /\ ~S.comp => S.last # None
  BY DEF IInv, PlanInv
<1>5. /\ N.last \in Invoices \cup {None} /\ S.last \in Invoices \cup {None}
      /\ N.comp \in BOOLEAN /\ L.comp \in BOOLEAN /\ S.comp \in BOOLEAN
  BY <1>1 DEF SubscriptionRow
<1> HIDE DEF L, N
<1>6. CASE req[r].pc = "deliver"
  <2>1. subscription'.last # None
    BY <1>2, <1>3, <1>6
  <2>2. Backed(subscription'.last)
    BY <1>2, <1>3, <1>4, <1>6
  <2>3. subscription'.last \in Invoices
    BY <1>2, <1>5, <2>1
  <2>4. (subscription.last # None => Backed(subscription.last))'
    BY <2>2, <2>3 DEF Backed
  <2> QED
    BY <1>2, <2>1, <2>4
<1>7. CASE req[r].pc \in {"return", "plan"}
  <2>1. subscription'.last = S.last
    BY <1>2, <1>3, <1>7
  <2>2. (subscription.last # None => Backed(subscription.last))'
    BY <1>4, <1>5, <2>1 DEF Backed
  <2>3. subscription.comp => subscription'.comp \/ subscription'.last # None
    BY <1>2, <1>3, <1>5, <1>7, <2>1
  <2>4. subscription'.tier # 0 /\ ~subscription'.comp => subscription'.last # None
    BY <1>2, <1>3, <1>4, <1>5, <1>7, <2>1
  <2> QED
    BY <1>2, <2>1, <2>2, <2>3, <2>4
<1> QED
  BY <1>6, <1>7

LEMMA LockingType ==
    ASSUME locked \in BOOLEAN, NEW projects \in {"keep", "lock", "unlock"}
    PROVE  Locking(projects) \in BOOLEAN
BY DEF Locking

\* A payment delivers the plan, and its invoice with a receipt.
LEMMA DeliverOK ==
    ASSUME IInv, NEW r \in Requests, Deliver(r)
    PROVE  IInv'
<1>1. /\ TypeOK /\ req[r] \in RequestState /\ Move(r, Idle) /\ req[r].pc = "deliver"
      /\ UNCHANGED <<refunds, collected, now>>
      /\ req[r].on \in SUBSET Invoices /\ receipts \in 0..MaxReceipts
      /\ subscription' = Flushed(subscription, req[r].loaded, req[r].new)
  BY RowDomains DEF IInv, TypeOK, Deliver, RequestState
<1>0. PICK found \in BOOLEAN :
        LET issued == found /\ req[r].receipt = 0 IN
          /\ receipts' = IF issued THEN receipts + 1 ELSE receipts
          /\ invoice' = [i \in Invoices |->
                IF i \in req[r].on
                   THEN [invoice[i] EXCEPT !.status = "paid",
                                           !.receipt = IF issued THEN receipts' ELSE @]
                   ELSE invoice[i]]
  BY DEF Deliver
<1>2. receipts' \in 0..MaxReceipts
  <2>1. receipts' = receipts + 1 \/ receipts' = receipts
    BY <1>0
  <2>2. receipts < MaxReceipts /\ MaxReceipts \in Nat
    BY BillingAssumption DEF Deliver
  <2> QED
    BY <1>1, <2>1, <2>2
<1>3. locked' \in BOOLEAN
  BY <1>1, LockingType DEF Deliver, TypeOK, RequestState
<1> DEFINE on == req[r].on
           issued == found /\ req[r].receipt = 0
<1>4. invoice' = [i \in Invoices |->
        IF i \in on THEN [invoice[i] EXCEPT !.status = "paid",
                                            !.receipt = IF issued THEN receipts' ELSE @]
        ELSE invoice[i]]
  BY <1>0
<1>5. on \in SUBSET Invoices /\ issued \in BOOLEAN /\ "paid" \in InvoiceStatus
  BY <1>1 DEF InvoiceStatus
<1> HIDE DEF on, issued
<1>6. /\ invoice' \in [Invoices -> InvoiceRow]
      /\ \A i \in Invoices :
            /\ Backed(i) => Backed(i)'
            /\ Backed(i)' => invoice'[i].status # "absent"
            /\ invoice'[i].status = "awaiting_approval" => invoice'[i].manual
  BY <1>1, <1>2, <1>4, <1>5, StatusWritten
<1>7. /\ subscription' \in SubscriptionRow
      /\ subscription.last # None => subscription'.last # None
      /\ subscription.comp => subscription'.comp \/ subscription'.last # None
      /\ (subscription.last # None => Backed(subscription.last))'
      /\ subscription'.tier # 0 /\ ~subscription'.comp => subscription'.last # None
  BY <1>1, <1>6, PlanWritten
<1>8. TypeOK'
  BY <1>1, <1>2, <1>3, <1>6, <1>7, Ended DEF TypeOK
<1> QED
  BY <1>1, <1>6, <1>7, <1>8, Ended, WriteOK

LEMMA RefundCommitOK ==
    ASSUME IInv, NEW r \in Requests, RefundCommit(r)
    PROVE  IInv'
<1>1. /\ TypeOK /\ req[r] \in RequestState /\ Move(r, Idle) /\ req[r].pc = "return"
      /\ UNCHANGED <<receipts, collected, now>>
      /\ req[r].on \in SUBSET Invoices /\ req[r].amount \in Nat /\ 0 \in 0..MaxReceipts
      /\ subscription' = Flushed(subscription, req[r].loaded, req[r].new)
  BY RowDomains, Constants DEF IInv, RefundCommit, RequestState, Full
<1>2. refunds' \in [Invoices -> Nat]
  BY <1>1 DEF RefundCommit, TypeOK
<1>3. locked' \in BOOLEAN
  BY <1>1, LockingType DEF RefundCommit, TypeOK, RequestState
<1> DEFINE on == req[r].on
<1>4. invoice' = [i \in Invoices |->
        IF i \in on THEN [invoice[i] EXCEPT !.status = "refunded",
                                            !.receipt = IF FALSE THEN 0 ELSE @]
        ELSE invoice[i]]
  <2>1. \A i \in Invoices : [invoice[i] EXCEPT !.status = "refunded"] =
            [invoice[i] EXCEPT !.status = "refunded", !.receipt = IF FALSE THEN 0 ELSE @]
    <3>1. \A i \in Invoices : invoice[i] \in InvoiceRow
      BY <1>1, RowDomains
    <3> QED
      BY <3>1 DEF InvoiceRow
  <2> QED
    BY <2>1 DEF RefundCommit
<1>5. on \in SUBSET Invoices /\ "refunded" \in InvoiceStatus
  BY <1>1 DEF InvoiceStatus
<1> HIDE DEF on
<1>6. /\ invoice' \in [Invoices -> InvoiceRow]
      /\ \A i \in Invoices :
            /\ Backed(i) => Backed(i)'
            /\ Backed(i)' => invoice'[i].status # "absent"
            /\ invoice'[i].status = "awaiting_approval" => invoice'[i].manual
  BY <1>1, <1>4, <1>5, StatusWritten
<1>7. /\ subscription' \in SubscriptionRow
      /\ subscription.last # None => subscription'.last # None
      /\ subscription.comp => subscription'.comp \/ subscription'.last # None
      /\ (subscription.last # None => Backed(subscription.last))'
      /\ subscription'.tier # 0 /\ ~subscription'.comp => subscription'.last # None
  BY <1>1, <1>6, PlanWritten
<1>8. TypeOK'
  BY <1>1, <1>2, <1>3, <1>6, <1>7, Ended DEF TypeOK
<1> QED
  BY <1>1, <1>6, <1>7, <1>8, Ended, WriteOK

LEMMA PlanCommitOK ==
    ASSUME IInv, NEW r \in Requests, PlanCommit(r)
    PROVE  IInv'
<1>1. /\ TypeOK /\ req[r] \in RequestState /\ Move(r, Idle) /\ req[r].pc = "plan"
      /\ UNCHANGED <<invoice, refunds, receipts, collected, now>>
      /\ subscription' = Flushed(subscription, req[r].loaded, req[r].new)
  BY RowDomains DEF IInv, PlanCommit
<1>2. locked' \in BOOLEAN
  BY <1>1, LockingType DEF PlanCommit, TypeOK, RequestState
<1>3. \A i \in Invoices :
            /\ Backed(i) => Backed(i)'
            /\ Backed(i)' => invoice'[i].status # "absent"
            /\ invoice'[i].status = "awaiting_approval" => invoice'[i].manual
  BY <1>1 DEF IInv, PaymentInv, Backed
<1>4. /\ subscription' \in SubscriptionRow
      /\ subscription.last # None => subscription'.last # None
      /\ subscription.comp => subscription'.comp \/ subscription'.last # None
      /\ (subscription.last # None => Backed(subscription.last))'
      /\ subscription'.tier # 0 /\ ~subscription'.comp => subscription'.last # None
  BY <1>1, <1>3, PlanWritten
<1>5. TypeOK'
  BY <1>1, <1>2, <1>4, Ended DEF TypeOK
<1> QED
  BY <1>1, <1>3, <1>4, <1>5, Ended, WriteOK

\* The clock moves, under requests at most once.
LEMMA TickOK ==
    ASSUME IInv, Tick
    PROVE  IInv'
<1>1. /\ TypeOK /\ UNCHANGED <<invoice, subscription, locked, refunds, receipts, collected>>
      /\ req' = [r \in Requests |-> [req[r] EXCEPT !.late = (req[r].pc # "idle")]]
  BY DEF IInv, Tick
<1>2. now' \in Time
  BY <1>1, BillingAssumption DEF Tick, TypeOK, Time
<1>3. ASSUME NEW q \in Requests
      PROVE  /\ req'[q] \in RequestState
             /\ req'[q].pc = req[q].pc /\ req'[q].on = req[q].on
             /\ req'[q].status = req[q].status /\ req'[q].new = req[q].new
             /\ req'[q].loaded = req[q].loaded
  <2> DEFINE late == req[q].pc # "idle"
  <2>1. late \in BOOLEAN
    OBVIOUS
  <2>2. req'[q] = [req[q] EXCEPT !.late = late] /\ req[q] \in RequestState
    BY <1>1, RowDomains
  <2> HIDE DEF late
  <2> QED
    BY <2>1, <2>2 DEF RequestState
<1>4. req' \in [Requests -> RequestState]
  BY <1>1, <1>3
<1>5. TypeOK'
  BY <1>1, <1>2, <1>4 DEF TypeOK
<1>6. \A i \in Invoices :
            /\ Backed(i) => Backed(i)'
            /\ Backed(i)' => invoice'[i].status # "absent"
            /\ invoice'[i].status = "awaiting_approval" => invoice'[i].manual
  BY <1>1 DEF IInv, PaymentInv, Backed
<1>7. /\ (subscription.last # None => Backed(subscription.last))'
      /\ subscription' = subscription
      /\ subscription.tier # 0 /\ ~subscription.comp => subscription.last # None
  BY <1>1 DEF IInv, PlanInv, Backed
<1> QED
  BY <1>3, <1>5, <1>6, <1>7, WriteOK

-----------------------------------------------------------------------------
(* The theorems.                                                            *)

LEMMA InitOK == Init => IInv
<1> SUFFICES ASSUME Init PROVE IInv
  OBVIOUS
<1>1. NoInvoice \in InvoiceRow
  BY Constants DEF NoInvoice, InvoiceRow, InvoiceStatus
<1>2. TypeOK
  BY <1>1, IdleState, Constants DEF Init, TypeOK
<1>3. PaymentInv
  BY IdleState DEF Init, PaymentInv, Backed, NoInvoice
<1>4. PlanInv
  BY IdleState DEF Init, PlanInv, Free
<1> QED
  BY <1>2, <1>3, <1>4 DEF IInv

LEMMA NextOK == IInv /\ [Next]_vars => IInv'
<1> SUFFICES ASSUME IInv, [Next]_vars PROVE IInv'
  OBVIOUS
<1>1. ASSUME NEW r \in Requests, Begin(r) PROVE IInv'
  <2>1. {"pending", "awaiting_approval"} \subseteq InvoiceStatus
    BY DEF InvoiceStatus
  <2> QED
    BY <1>1, <2>1, StartClose, StartPay, StartRefund, PlanReadOK DEF Begin, FailRead, RejectRead
<1>2. ASSUME NEW r \in Requests, StaleRead(r) PROVE IInv'
  <2>1. Stale \in SUBSET Invoices /\ "pending" \in InvoiceStatus
    BY DEF Stale, InvoiceStatus
  <2> QED
    BY <1>2, <2>1, StartClose DEF StaleRead
<1>3. ASSUME NEW r \in Requests, EnterGraceRead(r) \/ FinalizeGraceRead(r) PROVE IInv'
  BY <1>3, PlanReadOK
<1>4. ASSUME NEW r \in Requests, Continue(r) \/ Abort(r) PROVE IInv'
  BY <1>4, PassOK, AccountReadOK, DeliverOK, RefundAccountOK, RefundCommitOK DEF Continue
<1>5. ASSUME NEW r \in Requests, CloseCommit(r) \/ PlanCommit(r) PROVE IInv'
  BY <1>5, CloseCommitOK, PlanCommitOK
<1>6. CASE Buy \/ \E i \in Invoices : Collect(i)
  BY <1>6, BuyOK
<1>7. CASE Tick
  BY <1>7, TickOK
<1>8. CASE UNCHANGED vars
  <2>1. UNCHANGED <<invoice, subscription, locked, refunds, receipts, collected, now, req>>
    BY <1>8 DEF vars
  <2> QED
    BY <2>1 DEF IInv, TypeOK, PaymentInv, PlanInv, Backed
<1> QED
  BY <1>1, <1>2, <1>3, <1>4, <1>5, <1>6, <1>7, <1>8
     DEF Next, StaleSweep, GraceSweep, ExpirySweep

\* What the account's plan rests on, in every state, however columns mix.
THEOREM BillingInvariant == Spec => []IInv
BY InitOK, NextOK, PTL DEF Spec

\* Rows, requests and dates stay in their domains.
THEOREM BillingTypes == Spec => []TypeOK
<1>1. IInv => TypeOK
  BY DEF IInv
<1> QED
  BY <1>1, BillingInvariant, PTL

\* A plan that was not granted stands on money, however many payments, refunds, grants,
\* downgrades and sweeps write the subscription at once.
THEOREM NoPlanWithoutMoney == Spec => []EntitlementBacked
<1>1. ASSUME IInv PROVE EntitlementBacked
  <2>1. subscription.last \in Invoices \cup {None}
    BY <1>1 DEF IInv, TypeOK, SubscriptionRow
  <2> QED
    BY <1>1, <2>1 DEF IInv, PlanInv, Backed, EntitlementBacked
<1> QED
  BY <1>1, BillingInvariant, PTL

-----------------------------------------------------------------------------
(* What a request decided on follows from what it read.                     *)

LEMMA OpenMoves ==
    /\ \A a : <<a, "pending">> \in Moves <=> a = "absent"
    /\ \A a : <<a, "awaiting_approval">> \in Moves <=> a = "absent"
    /\ \A a : <<a, "paid">> \in Moves
                <=> a \in {"pending", "awaiting_approval", "cancelled", "failed"}
    /\ \A a : <<a, "failed">> \in Moves <=> a = "pending"
    /\ \A a : <<a, "cancelled">> \in Moves <=> a \in {"pending", "awaiting_approval"}
    /\ \A a : <<a, "refunded">> \in Moves <=> a = "paid"
BY DEF Moves

LEMMA IdleDecided == Decided(Idle)
BY IdleState DEF Decided

\* A request that reads, or flushes its invoice.
LEMMA MoveKeeps ==
    ASSUME IInv, AllDecided, NEW r \in Requests, NEW s \in RequestState, Move(r, s),
           UNCHANGED rows, Decided(s)
    PROVE  AllDecided'
<1>1. \A q \in Requests : req'[q] = IF q = r THEN s ELSE req[q]
  BY MovedRequests DEF IInv
<1>2. invoice' = invoice /\ now' = now
  BY DEF rows
<1>3. ASSUME NEW q \in Requests PROVE Decided(req[q])'
  <2>1. Decided(req'[q])
    BY <1>1 DEF AllDecided
  <2> QED
    BY <1>2, <2>1 DEF Decided
<1> QED
  BY <1>3 DEF AllDecided

LEMMA StartCloseKeeps ==
    ASSUME IInv, AllDecided, NEW r \in Requests, NEW on \in SUBSET Invoices,
           NEW seen \in InvoiceStatus, NEW status \in {"failed", "cancelled"},
           Close(r, on, seen, status), <<seen, status>> \in Moves
    PROVE  AllDecided'
<1> DEFINE s == [Idle EXCEPT !.pc = "close", !.on = on, !.seen = seen, !.status = status]
<1>1. /\ s \in RequestState /\ s.pc = "close" /\ s.on = on /\ s.seen = seen
      /\ s.status = status
  BY IdleState DEF RequestState, Steps, InvoiceStatus
<1>2. Move(r, s) /\ UNCHANGED rows
  BY DEF Close, Start, rows
<1> HIDE DEF s
<1>3. Decided(s)
  BY <1>1 DEF Decided
<1> QED
  BY <1>1, <1>2, <1>3, MoveKeeps

LEMMA ClosesKeep ==
    ASSUME IInv, AllDecided, NEW r \in Requests,
           StaleRead(r) \/ \E i \in Invoices : FailRead(r, i) \/ RejectRead(r, i)
    PROVE  AllDecided'
<1>0. "pending" \in InvoiceStatus /\ "awaiting_approval" \in InvoiceStatus
  BY DEF InvoiceStatus
<1>1. CASE \E i \in Invoices : FailRead(r, i) \/ RejectRead(r, i)
  BY <1>0, <1>1, OpenMoves, StartCloseKeeps DEF FailRead, RejectRead
<1>2. CASE StaleRead(r)
  <2>1. Stale \in SUBSET Invoices
    BY DEF Stale
  <2> QED
    BY <1>0, <1>2, <2>1, OpenMoves, StartCloseKeeps DEF StaleRead
<1> QED
  BY <1>1, <1>2

LEMMA StartPayKeeps ==
    ASSUME IInv, AllDecided, NEW r \in Requests, NEW i \in Invoices,
           PaymentRead(r, i) \/ ApproveRead(r, i)
    PROVE  AllDecided'
<1> DEFINE s == [Idle EXCEPT !.pc = "pay", !.on = {i}, !.seen = invoice[i].status,
                             !.receipt = invoice[i].receipt]
<1>1. invoice[i].receipt \in 0..MaxReceipts /\ invoice[i].status \in InvoiceStatus
  BY RowDomains DEF IInv, InvoiceRow
<1>2. /\ s \in RequestState /\ s.pc = "pay" /\ s.on = {i} /\ s.seen = invoice[i].status
  BY <1>1, IdleState DEF RequestState, Steps
<1>3. Move(r, s) /\ UNCHANGED rows
  BY DEF PaymentRead, ApproveRead, LoadPayment, Start, rows
<1>4. <<invoice[i].status, "paid">> \in Moves
  BY OpenMoves DEF PaymentRead, ApproveRead, Payable
<1> HIDE DEF s
<1>5. Decided(s)
  BY <1>2, <1>4 DEF Decided
<1> QED
  BY <1>2, <1>3, <1>5, MoveKeeps

LEMMA StartRefundKeeps ==
    ASSUME IInv, AllDecided, NEW r \in Requests, NEW i \in Invoices, NEW amount \in 1..Full,
           RefundRead(r, i, amount)
    PROVE  AllDecided'
<1> DEFINE s == [Idle EXCEPT !.pc = "refund", !.on = {i}, !.seen = invoice[i].status,
                             !.amount = amount]
<1>1. /\ s \in RequestState /\ s.pc = "refund" /\ s.on = {i} /\ s.amount = amount
      /\ s.seen = invoice[i].status
  <2>1. {i} \in SUBSET Invoices /\ amount \in 0..Full
    BY DEF Full
  <2>2. invoice[i].status \in InvoiceStatus
    BY RowDomains DEF IInv, InvoiceRow
  <2> QED
    BY <2>1, <2>2, IdleState DEF RequestState, Steps
<1>2. Move(r, s) /\ invoice[i].status = "paid" /\ UNCHANGED rows
  BY DEF RefundRead, Refundable, Start, rows
<1> HIDE DEF s
<1>3. Decided(s)
  BY <1>1, <1>2 DEF Decided
<1> QED
  BY <1>1, <1>2, <1>3, MoveKeeps

LEMMA PassKeeps ==
    ASSUME IInv, AllDecided, NEW r \in Requests, MarkPaid(r) \/ MarkRefunded(r) \/ Abort(r)
    PROVE  AllDecided'
<1>0. req[r] \in RequestState /\ Decided(req[r])
  BY RowDomains DEF IInv, AllDecided
<1>1. CASE MarkPaid(r)
  <2> DEFINE s == [req[r] EXCEPT !.pc = "account"]
  <2>1. s \in RequestState /\ s.pc = "account" /\ s.on = req[r].on /\ s.seen = req[r].seen
    BY <1>0 DEF RequestState, Steps
  <2>2. Move(r, s) /\ req[r].pc = "pay" /\ UNCHANGED rows
    BY <1>1 DEF MarkPaid, rows
  <2> HIDE DEF s
  <2>3. Decided(s)
    BY <1>0, <2>1, <2>2 DEF Decided
  <2> QED
    BY <2>1, <2>2, <2>3, MoveKeeps
<1>2. CASE MarkRefunded(r)
  <2> DEFINE s == [req[r] EXCEPT !.pc = "refunded"]
  <2>1. /\ s \in RequestState /\ s.pc = "refunded" /\ s.on = req[r].on
        /\ s.seen = req[r].seen /\ s.amount = req[r].amount
    BY <1>0 DEF RequestState, Steps
  <2>2. Move(r, s) /\ req[r].pc = "refund" /\ UNCHANGED rows
    BY <1>2 DEF MarkRefunded, rows
  <2> HIDE DEF s
  <2>3. Decided(s)
    BY <1>0, <2>1, <2>2 DEF Decided
  <2> QED
    BY <2>1, <2>2, <2>3, MoveKeeps
<1>3. CASE Abort(r)
  <2>1. Move(r, Idle) /\ UNCHANGED rows
    BY <1>3 DEF Abort, rows
  <2> QED
    BY <2>1, IdleDecided, IdleState, MoveKeeps
<1> QED
  BY <1>1, <1>2, <1>3

\* A payment that reads the plan decides on the one its invoice is for.
LEMMA AccountReadKeeps ==
    ASSUME IInv, AllDecided, NEW r \in Requests, AccountRead(r)
    PROVE  AllDecided'
<1>1. PICK i \in req[r].on :
        Move(r, [req[r] EXCEPT !.pc = "deliver", !.loaded = subscription,
                               !.new = Renewed(i), !.projects = "unlock"])
  BY DEF AccountRead
<1>0. /\ req[r] \in RequestState /\ i \in Invoices /\ subscription \in SubscriptionRow
      /\ req[r].pc = "account" /\ UNCHANGED rows /\ Decided(req[r])
  BY RowDomains DEF IInv, RequestState, AccountRead, rows, AllDecided
<1>2. /\ Renewed(i) \in SubscriptionRow /\ Renewed(i).last = i
      /\ Renewed(i).tier = invoice[i].tier /\ Renewed(i).status = "active"
  <2>1. Renewed(i).tier = invoice[i].tier /\ Renewed(i).status = "active"
    BY DEF Renewed
  <2> QED
    BY <1>0, <2>1, RenewedRow DEF IInv
<1> DEFINE n == Renewed(i)
<1> HIDE DEF n
<1> DEFINE s == [req[r] EXCEPT !.pc = "deliver", !.loaded = subscription,
                               !.new = n, !.projects = "unlock"]
<1>3. /\ s \in RequestState /\ s.pc = "deliver" /\ s.on = req[r].on
      /\ s.seen = req[r].seen /\ s.new = n /\ s.projects = "unlock"
  BY <1>0, <1>2 DEF RequestState, Steps, n
<1>4. Move(r, s)
  BY <1>1 DEF n
<1> HIDE DEF s
<1>5. \A j \in s.on : j = i
  BY <1>0, <1>1, <1>3 DEF Decided
<1>6. Decided(s)
  BY <1>0, <1>2, <1>3, <1>5 DEF Decided, n
<1> QED
  BY <1>0, <1>3, <1>4, <1>6, MoveKeeps

\* A refund that reads the plan ends it if it is a full one and the plan stands on it.
LEMMA RefundAccountKeeps ==
    ASSUME IInv, AllDecided, NEW r \in Requests, RefundAccount(r)
    PROVE  AllDecided'
<1>1. PICK i \in req[r].on, ends \in BOOLEAN :
        /\ ends = RefundEnds(req[r].amount, i)
        /\ Move(r, [req[r] EXCEPT
                     !.pc = "return", !.loaded = subscription,
                     !.projects = IF ends THEN "lock" ELSE "keep",
                     !.new = IF ends THEN Downgraded(subscription) ELSE subscription])
  BY DEF RefundAccount, RefundEnds
<1> DEFINE new == IF ends THEN Downgraded(subscription) ELSE subscription
           projects == IF ends THEN "lock" ELSE "keep"
<1>0. /\ req[r] \in RequestState /\ subscription \in SubscriptionRow /\ UNCHANGED rows
      /\ req[r].pc = "refunded" /\ Decided(req[r])
  BY RowDomains DEF IInv, RefundAccount, rows, AllDecided
<1>2. /\ new \in SubscriptionRow /\ projects \in {"keep", "lock"}
      /\ ends => new.tier = 0 /\ new.status = "active" /\ projects = "lock"
      /\ ~ends => new = subscription /\ projects = "keep"
      /\ new.last = subscription.last
  <2>1. Downgraded(subscription).status = "active"
    BY <1>0 DEF Downgraded, SubscriptionRow
  <2> QED
    BY <1>0, <2>1, DowngradedRow DEF IInv
<1> HIDE DEF new, projects
<1> DEFINE s == [req[r] EXCEPT !.pc = "return", !.loaded = subscription,
                               !.projects = projects, !.new = new]
<1>3. /\ s \in RequestState /\ s.pc = "return" /\ s.loaded = subscription /\ s.new = new
      /\ s.on = req[r].on /\ s.amount = req[r].amount /\ s.projects = projects
      /\ s.seen = req[r].seen
  BY <1>0, <1>2 DEF RequestState, Steps
<1>4. Move(r, s)
  BY <1>1 DEF new, projects
<1> HIDE DEF s
<1>5. \A j \in s.on : j = i
  BY <1>0, <1>1, <1>3 DEF Decided
<1>6. s.amount = Full /\ s.new.last \in s.on => s.new.tier = 0
  BY <1>1, <1>2, <1>3, <1>5 DEF RefundEnds
<1>7. Decided(s)
  BY <1>0, <1>2, <1>3, <1>6 DEF Decided
<1> QED
  BY <1>0, <1>3, <1>4, <1>7, MoveKeeps

\* A change of the plan that is not about an invoice.
LEMMA StartPlanKeeps ==
    ASSUME IInv, AllDecided, NEW r \in Requests, NEW new \in SubscriptionRow,
           NEW projects \in {"keep", "lock", "unlock"}, ChangePlan(r, new, projects),
           projects = "keep" => new.tier = subscription.tier,
           projects = "lock" => new.tier = 0,
           new.status = "grace" => new.tier # 0 /\ new.expires # 0 /\ new.expires <= now
    PROVE  AllDecided'
<1> DEFINE s == [Idle EXCEPT !.pc = "plan", !.loaded = subscription, !.new = new,
                             !.projects = projects]
<1>1. /\ s \in RequestState /\ s.pc = "plan" /\ s.on = {} /\ s.loaded = subscription
      /\ s.new = new /\ s.projects = projects
  BY RowDomains, IdleState DEF IInv, RequestState, Steps
<1>2. Move(r, s) /\ UNCHANGED rows
  BY DEF ChangePlan, Start, rows
<1> HIDE DEF s
<1>3. Decided(s)
  BY <1>1 DEF Decided
<1> QED
  BY <1>1, <1>2, <1>3, MoveKeeps

LEMMA PlanReadKeeps ==
    ASSUME IInv, AllDecided, NEW r \in Requests,
           \/ EnterGraceRead(r) \/ FinalizeGraceRead(r) \/ DowngradeRead(r)
           \/ \E tier \in Tiers \ {0} : CompRead(r, tier)
    PROVE  AllDecided'
<1>0. /\ subscription \in SubscriptionRow /\ now \in Time
      /\ now + Cycle \in Date /\ now + Grace \in Date /\ 0 \in Date
  BY RowDomains, Constants DEF IInv
<1>1. CASE EnterGraceRead(r)
  <2> DEFINE new == [subscription EXCEPT !.status = "grace", !.grace = now + Grace]
  <2>1. /\ new \in SubscriptionRow /\ new.tier = subscription.tier
        /\ new.expires = subscription.expires
    BY <1>0 DEF SubscriptionRow
  <2>2. /\ ChangePlan(r, new, "keep") /\ subscription.tier # 0
        /\ subscription.expires # 0 /\ subscription.expires <= now
    BY <1>1 DEF EnterGraceRead
  <2> HIDE DEF new
  <2> QED
    BY <2>1, <2>2, StartPlanKeeps
<1>2. CASE FinalizeGraceRead(r) \/ DowngradeRead(r)
  <2>1. ChangePlan(r, Downgraded(subscription), "lock")
    BY <1>2 DEF FinalizeGraceRead, DowngradeRead
  <2>2. /\ Downgraded(subscription) \in SubscriptionRow
        /\ Downgraded(subscription).tier = 0 /\ Downgraded(subscription).status = "active"
    <3>1. Downgraded(subscription).status = "active"
      BY <1>0 DEF Downgraded, SubscriptionRow
    <3> QED
      BY <3>1, DowngradedRow DEF IInv
  <2> QED
    BY <2>1, <2>2, StartPlanKeeps
<1>3. ASSUME NEW tier \in Tiers \ {0}, CompRead(r, tier) PROVE AllDecided'
  <2> DEFINE new == [subscription EXCEPT !.tier = tier, !.status = "active", !.grace = 0,
                                         !.expires = now + Cycle, !.comp = TRUE]
  <2>1. new \in SubscriptionRow /\ new.status = "active"
    BY <1>0 DEF SubscriptionRow
  <2>2. ChangePlan(r, new, "unlock")
    BY <1>3 DEF CompRead
  <2> HIDE DEF new
  <2> QED
    BY <2>1, <2>2, StartPlanKeeps
<1> QED
  BY <1>1, <1>2, <1>3

\* A request that a step of others, or the clock, leaves where it is.
Unmoved(q) ==
    /\ req'[q].pc = req[q].pc /\ req'[q].on = req[q].on /\ req'[q].seen = req[q].seen
    /\ req'[q].status = req[q].status /\ req'[q].amount = req[q].amount
    /\ req'[q].loaded = req[q].loaded /\ req'[q].new = req[q].new
    /\ req'[q].projects = req[q].projects

\* A request that commits.
LEMMA Committed ==
    ASSUME TypeOK, NEW r \in Requests, Move(r, Idle)
    PROVE  req'[r] = Idle /\ \A q \in Requests : q # r => req'[q] = req[q] /\ Unmoved(q)
BY IdleState, MovedRequests DEF Unmoved

\* A step that writes rows, or the clock, keeps the decisions of the requests that go on: an
\* invoice keeps its tier once it exists, and what has expired stays so.
LEMMA WriteKeeps ==
    ASSUME IInv, AllDecided, now' \in Time, now <= now',
           \A q \in Requests : req'[q] = Idle \/ Unmoved(q),
           \A i \in Invoices : invoice[i].status # "absent" => invoice'[i].tier = invoice[i].tier
    PROVE  AllDecided'
<1>0. /\ now \in Nat /\ now' \in Nat
      /\ \A q \in Requests : req[q].new.expires \in Nat /\ req[q].on \subseteq Invoices
  BY RowDomains, Constants DEF IInv, SubscriptionRow, RequestState
<1>1. ASSUME NEW q \in Requests PROVE Decided(req[q])'
  <2>1. CASE req'[q] = Idle
    BY <2>1, IdleState DEF Decided
  <2>2. CASE Unmoved(q)
    <3>1. Decided(req[q])
      BY DEF AllDecided
    <3>2. req[q].pc = "deliver" => \A i \in req[q].on : invoice'[i].tier = invoice[i].tier
      BY <1>0 DEF IInv, PaymentInv
    <3> QED
      BY <1>0, <2>2, <3>1, <3>2 DEF Decided, Unmoved
  <2> QED
    BY <2>1, <2>2
<1> QED
  BY <1>1 DEF AllDecided

-----------------------------------------------------------------------------
(* What the commits write.                                                  *)

LEMMA ClosedRows ==
    ASSUME IInv, NEW r \in Requests, CloseCommit(r)
    PROVE  \A i \in Invoices :
             /\ invoice'[i].tier = invoice[i].tier /\ invoice'[i].receipt = invoice[i].receipt
             /\ invoice'[i].status = IF i \in req[r].on THEN req[r].status ELSE invoice[i].status
<1>1. \A i \in Invoices : invoice[i] \in InvoiceRow
  BY RowDomains DEF IInv
<1> QED
  BY <1>1 DEF CloseCommit, InvoiceRow

LEMMA DeliveredRows ==
    ASSUME IInv, NEW r \in Requests, Deliver(r)
    PROVE  \A i \in Invoices :
             /\ invoice'[i].tier = invoice[i].tier
             /\ i \notin req[r].on => invoice'[i] = invoice[i]
             /\ i \in req[r].on =>
                   /\ invoice'[i].status = "paid"
                   /\ req[r].receipt # 0 => invoice'[i].receipt = invoice[i].receipt
<1>1. \A i \in Invoices : invoice[i] \in InvoiceRow
  BY RowDomains DEF IInv
<1>2. PICK found \in BOOLEAN :
        invoice' = [i \in Invoices |->
           IF i \in req[r].on
              THEN [invoice[i] EXCEPT
                      !.status = "paid",
                      !.receipt = IF found /\ req[r].receipt = 0 THEN receipts' ELSE @]
              ELSE invoice[i]]
  BY DEF Deliver
<1> DEFINE issued == found /\ req[r].receipt = 0
           on == req[r].on
           number == receipts'
<1>3. invoice' = [i \in Invoices |->
        IF i \in on THEN [invoice[i] EXCEPT !.status = "paid",
                                            !.receipt = IF issued THEN number ELSE @]
        ELSE invoice[i]]
  BY <1>2
<1> HIDE DEF issued, on, number
<1>4. \A i \in Invoices :
        /\ invoice'[i].tier = invoice[i].tier
        /\ i \notin on => invoice'[i] = invoice[i]
        /\ i \in on => /\ invoice'[i].status = "paid"
                       /\ ~issued => invoice'[i].receipt = invoice[i].receipt
  BY <1>1, <1>3 DEF InvoiceRow
<1> QED
  BY <1>4 DEF issued, on

LEMMA RefundedRows ==
    ASSUME IInv, NEW r \in Requests, RefundCommit(r)
    PROVE  \A i \in Invoices :
             /\ invoice'[i].tier = invoice[i].tier /\ invoice'[i].receipt = invoice[i].receipt
             /\ invoice'[i].status = IF i \in req[r].on THEN "refunded" ELSE invoice[i].status
             /\ refunds'[i] = IF i \in req[r].on THEN refunds[i] + req[r].amount ELSE refunds[i]
<1>1. \A i \in Invoices : invoice[i] \in InvoiceRow
  BY RowDomains DEF IInv
<1> QED
  BY <1>1 DEF RefundCommit, InvoiceRow

LEMMA CommitsKeep ==
    ASSUME IInv, AllDecided, NEW r \in Requests,
           CloseCommit(r) \/ Deliver(r) \/ RefundCommit(r) \/ PlanCommit(r)
    PROVE  AllDecided'
<1>1. Move(r, Idle) /\ now' = now /\ now \in Time /\ now \in Nat
  BY RowDomains, Constants DEF IInv, CloseCommit, Deliver, RefundCommit, PlanCommit
<1>2. \A q \in Requests : req'[q] = Idle \/ Unmoved(q)
  BY <1>1, Committed DEF IInv
<1>3. \A i \in Invoices : invoice'[i].tier = invoice[i].tier
  BY ClosedRows, DeliveredRows, RefundedRows DEF PlanCommit
<1> QED
  BY <1>1, <1>2, <1>3, WriteKeeps

\* An invoice comes into being, its money is collected, or the clock moves.
LEMMA OutsideKeeps ==
    ASSUME IInv, AllDecided, Buy \/ Tick \/ \E i \in Invoices : Collect(i)
    PROVE  AllDecided'
<1>0. TypeOK /\ now \in Time /\ now \in Nat
  BY Constants DEF IInv, TypeOK
<1>1. CASE Buy \/ \E i \in Invoices : Collect(i)
  <2>1. req' = req /\ now' = now
    BY <1>1 DEF Buy, Checkout, ManualCreate, Collect
  <2>2. \A i \in Invoices : invoice[i].status # "absent" => invoice'[i].tier = invoice[i].tier
    BY <1>0, <1>1 DEF TypeOK, Buy, Checkout, ManualCreate, Collect
  <2> QED
    BY <1>0, <2>1, <2>2, WriteKeeps DEF Unmoved
<1>2. CASE Tick
  <2>1. /\ req' = [r \in Requests |-> [req[r] EXCEPT !.late = (req[r].pc # "idle")]]
        /\ now' = now + 1 /\ now < MaxTime /\ invoice' = invoice
    BY <1>2 DEF Tick
  <2>2. now' \in Time /\ now <= now'
    BY <1>0, <2>1, BillingAssumption DEF Time
  <2>3. ASSUME NEW q \in Requests PROVE Unmoved(q)
    <3> DEFINE late == req[q].pc # "idle"
    <3>1. req'[q] = [req[q] EXCEPT !.late = late] /\ req[q] \in RequestState
      BY <1>0, <2>1, RowDomains
    <3> HIDE DEF late
    <3> QED
      BY <3>1 DEF RequestState, Unmoved
  <2> QED
    BY <2>1, <2>2, <2>3, WriteKeeps
<1> QED
  BY <1>1, <1>2

LEMMA DecidedInit == Init => AllDecided
BY IdleDecided DEF Init, AllDecided

LEMMA DecidedNext == IInv /\ AllDecided /\ [Next]_vars => AllDecided'
<1> SUFFICES ASSUME IInv, AllDecided, [Next]_vars PROVE AllDecided'
  OBVIOUS
<1>1. ASSUME NEW r \in Requests, Begin(r) PROVE AllDecided'
  BY <1>1, ClosesKeep, StartPayKeeps, StartRefundKeeps, PlanReadKeeps DEF Begin
<1>2. ASSUME NEW r \in Requests, StaleRead(r) \/ EnterGraceRead(r) \/ FinalizeGraceRead(r)
      PROVE  AllDecided'
  BY <1>2, ClosesKeep, PlanReadKeeps
<1>3. ASSUME NEW r \in Requests,
             Continue(r) \/ Abort(r) \/ CloseCommit(r) \/ PlanCommit(r)
      PROVE  AllDecided'
  BY <1>3, PassKeeps, AccountReadKeeps, RefundAccountKeeps, CommitsKeep DEF Continue
<1>4. CASE Buy \/ Tick \/ \E i \in Invoices : Collect(i)
  BY <1>4, OutsideKeeps
<1>5. CASE UNCHANGED vars
  BY <1>5 DEF vars, AllDecided, Decided
<1> QED
  BY <1>1, <1>2, <1>3, <1>4, <1>5
     DEF Next, StaleSweep, GraceSweep, ExpirySweep

\* Every commit writes what follows from the rows its request read, in every state.
THEOREM DecisionsFollow == Spec => []AllDecided
BY DecidedInit, DecidedNext, BillingInvariant, PTL DEF Spec

-----------------------------------------------------------------------------
(* What is not a lost update does no harm.                                  *)

\* A step that leaves the rows alone, while time may pass.
LEMMA RowsAlone ==
    ASSUME IInv, UNCHANGED <<invoice, subscription, locked, refunds>>, now' \in Time,
           now <= now'
    PROVE  Harmless
<1>1. subscription.expires \in Nat /\ now \in Nat /\ now' \in Nat
  BY RowDomains, Constants DEF IInv, SubscriptionRow
<1>2. InOrder => InOrder'
  BY <1>1 DEF InOrder, RefundBounded, RefundEndsPlan, GraceAfterExpiry, LockedOnlyOnFree
<1> QED
  BY <1>2 DEF Harmless, BecomesPaid

LEMMA BuyHarmless ==
    ASSUME IInv, Buy
    PROVE  Harmless
<1>0. /\ TypeOK /\ UNCHANGED <<subscription, locked, refunds, now>>
  BY DEF IInv, Buy, Checkout, ManualCreate
<1>1. \A i \in Invoices :
        \/ invoice'[i] = invoice[i]
        \/ /\ invoice[i].status = "absent"
           /\ invoice'[i].status \in {"pending", "awaiting_approval"}
           /\ invoice'[i].receipt = 0
  BY <1>0 DEF TypeOK, Buy, Checkout, ManualCreate
<1>2. InOrder => InOrder'
  BY <1>0, <1>1 DEF InOrder, RefundBounded, RefundEndsPlan, GraceAfterExpiry, LockedOnlyOnFree
<1> QED
  BY <1>1, <1>2, OpenMoves DEF Harmless, BecomesPaid

\* The request that commits found its rows as it had read them.
LEMMA UpToDate ==
    ASSUME TypeOK, ~LostUpdate, NEW r \in Requests, req[r].pc # "idle", Move(r, Idle)
    PROVE  ~Outdated(r)
BY Committed, IdleState DEF LostUpdate

LEMMA CloseHarmless ==
    ASSUME IInv, AllDecided, NEW r \in Requests, CloseCommit(r), ~LostUpdate
    PROVE  Harmless
<1>1. /\ TypeOK /\ Decided(req[r]) /\ req[r].pc = "close"
      /\ UNCHANGED <<subscription, locked, refunds, now>>
      /\ req[r].status \in {"failed", "cancelled"}
  BY DEF IInv, PaymentInv, CloseCommit, AllDecided
<1>2. ~Outdated(r)
  BY <1>1, UpToDate DEF CloseCommit
<1>3. \A i \in Invoices : i \in req[r].on =>
        /\ <<invoice[i].status, req[r].status>> \in Moves
        /\ invoice[i].status # "refunded"
  BY <1>1, <1>2, OpenMoves DEF Outdated, Decided
<1>4. InOrder => InOrder'
  BY <1>1, <1>3, ClosedRows
     DEF InOrder, RefundBounded, RefundEndsPlan, GraceAfterExpiry, LockedOnlyOnFree
<1> QED
  BY <1>1, <1>3, <1>4, ClosedRows DEF Harmless, BecomesPaid

\* A flush to the row that was loaded writes the row.
LEMMA FlushedAlone ==
    ASSUME NEW row \in SubscriptionRow, NEW new \in SubscriptionRow
    PROVE  Flushed(row, row, new) = new
<1>1. DOMAIN row = {"tier", "status", "expires", "grace", "last", "comp"}
  BY DEF SubscriptionRow
<1>2. Flushed(row, row, new) =
        [tier |-> new.tier, status |-> new.status, expires |-> new.expires,
         grace |-> new.grace, last |-> new.last, comp |-> new.comp]
  BY <1>1 DEF Flushed
<1> QED
  BY <1>2 DEF SubscriptionRow

LEMMA FlushedUpToDate ==
    ASSUME IInv, NEW r \in Requests, req[r].pc \in PlanSteps, ~Outdated(r),
           subscription' = Flushed(subscription, req[r].loaded, req[r].new)
    PROVE  subscription' = req[r].new /\ req[r].loaded = subscription
<1>1. req[r] \in RequestState /\ subscription \in SubscriptionRow
  BY RowDomains DEF IInv
<1>2. req[r].loaded = subscription
  BY DEF Outdated
<1> QED
  BY <1>1, <1>2, FlushedAlone DEF RequestState

\* A plan change that was decided on the plan that is still there keeps grace period and
\* project locks in order.
LEMMA ChangeInOrder ==
    ASSUME IInv, NEW r \in Requests, Decided(req[r]), req[r].pc \in {"return", "plan"},
           subscription' = req[r].new, req[r].loaded = subscription,
           locked' = Locking(req[r].projects), now' = now, InOrder
    PROVE  GraceAfterExpiry' /\ LockedOnlyOnFree'
<1>1. req[r] \in RequestState
  BY RowDomains DEF IInv
<1>2. req[r].projects \in {"keep", "lock", "unlock"}
  BY <1>1 DEF RequestState
<1>3. GraceAfterExpiry'
  BY DEF InOrder, GraceAfterExpiry, Decided
<1>4. LockedOnlyOnFree'
  BY <1>2 DEF InOrder, LockedOnlyOnFree, Decided, Locking
<1> QED
  BY <1>3, <1>4

LEMMA PlanHarmless ==
    ASSUME IInv, AllDecided, NEW r \in Requests, PlanCommit(r), ~LostUpdate
    PROVE  Harmless
<1>1. /\ TypeOK /\ Decided(req[r]) /\ req[r].pc = "plan" /\ Fits(req[r])
      /\ UNCHANGED <<invoice, refunds, receipts, now>> /\ Move(r, Idle)
      /\ subscription' = Flushed(subscription, req[r].loaded, req[r].new)
      /\ locked' = Locking(req[r].projects)
  BY FitsNow DEF IInv, PlanCommit, AllDecided
<1>2. ~Outdated(r)
  BY <1>1, UpToDate
<1>3. subscription' = req[r].new /\ req[r].loaded = subscription
  BY <1>1, <1>2, FlushedUpToDate DEF PlanSteps
<1>4. /\ subscription'.last = subscription.last
      /\ subscription'.comp \/ subscription'.comp = subscription.comp
      /\ subscription'.tier \in {0, subscription.tier} \/ subscription'.comp
  BY <1>1, <1>3 DEF Fits
<1>5. ASSUME InOrder PROVE InOrder'
  <2>1. RefundEndsPlan'
    BY <1>1, <1>4, <1>5 DEF InOrder, RefundEndsPlan
  <2>2. GraceAfterExpiry' /\ LockedOnlyOnFree'
    BY <1>1, <1>3, <1>5, ChangeInOrder
  <2> QED
    BY <1>1, <1>5, <2>1, <2>2 DEF InOrder, RefundBounded
<1> QED
  BY <1>1, <1>5 DEF Harmless, BecomesPaid

LEMMA DeliverHarmless ==
    ASSUME IInv, AllDecided, NEW r \in Requests, Deliver(r), ~LostUpdate
    PROVE  Harmless
<1>1. /\ TypeOK /\ Decided(req[r]) /\ req[r].pc = "deliver"
      /\ UNCHANGED <<refunds, collected, now>> /\ Move(r, Idle)
      /\ subscription' = Flushed(subscription, req[r].loaded, req[r].new)
      /\ locked' = Locking(req[r].projects)
  BY DEF IInv, Deliver, AllDecided
<1>2. ~Outdated(r)
  BY <1>1, UpToDate
<1>3. subscription' = req[r].new
  BY <1>1, <1>2, FlushedUpToDate DEF PlanSteps
<1>4. PICK i \in Invoices : req[r].on = {i}
  BY <1>1 DEF Decided
<1>5. /\ <<invoice[i].status, "paid">> \in Moves
      /\ invoice[i].receipt = req[r].receipt
  BY <1>1, <1>2, <1>4 DEF Outdated, Decided
<1>6. /\ subscription'.status = "active" /\ subscription'.last = i
      /\ subscription'.tier = invoice[i].tier /\ ~locked'
  BY <1>1, <1>3, <1>4 DEF Decided, Locking
<1>7. ASSUME InOrder PROVE InOrder'
  <2>1. refunds[i] = 0
    <3>1. refunds[i] \in Nat /\ ~(refunds[i] > 0)
      BY <1>1, <1>5, <1>7, OpenMoves DEF TypeOK, InOrder
    <3> QED
      BY <3>1
  <2>2. RefundEndsPlan'
    BY <1>1, <1>6, <2>1 DEF RefundEndsPlan, Full
  <2>3. \A j \in Invoices : refunds'[j] > 0 => invoice'[j].status = "refunded"
    BY <1>1, <1>4, <1>7, <2>1, DeliveredRows DEF InOrder
  <2>4. GraceAfterExpiry' /\ LockedOnlyOnFree'
    BY <1>6 DEF GraceAfterExpiry, LockedOnlyOnFree
  <2> QED
    BY <1>1, <1>7, <2>2, <2>3, <2>4 DEF InOrder, RefundBounded
<1>8. ASSUME NEW j \in Invoices
      PROVE  /\ invoice'[j].status # invoice[j].status
                   => <<invoice[j].status, invoice'[j].status>> \in Moves
             /\ invoice[j].status # "absent" /\ invoice[j].receipt # 0
                   => invoice'[j].receipt = invoice[j].receipt
             /\ BecomesPaid(j) => Delivered(j)
  <2>1. CASE j = i
    BY <1>4, <1>5, <1>6, <2>1, DeliveredRows DEF Delivered
  <2>2. CASE j # i
    BY <1>4, <2>2, DeliveredRows DEF BecomesPaid
  <2> QED
    BY <2>1, <2>2
<1> QED
  BY <1>7, <1>8 DEF Harmless

LEMMA RefundHarmless ==
    ASSUME IInv, AllDecided, NEW r \in Requests, RefundCommit(r), ~LostUpdate
    PROVE  Harmless
<1>1. /\ TypeOK /\ Decided(req[r]) /\ req[r].pc = "return" /\ Fits(req[r])
      /\ UNCHANGED <<receipts, collected, now>> /\ Move(r, Idle)
      /\ subscription' = Flushed(subscription, req[r].loaded, req[r].new)
      /\ locked' = Locking(req[r].projects)
  BY FitsNow DEF IInv, RefundCommit, AllDecided
<1>2. ~Outdated(r)
  BY <1>1, UpToDate
<1>3. subscription' = req[r].new /\ req[r].loaded = subscription
  BY <1>1, <1>2, FlushedUpToDate DEF PlanSteps
<1>4. PICK i \in Invoices : req[r].on = {i}
  BY <1>1 DEF Decided
<1>5. invoice[i].status = "paid" /\ req[r].amount \in 1..Full
  BY <1>1, <1>2, <1>4 DEF Outdated, Decided
<1>6. /\ subscription'.last = subscription.last
      /\ subscription'.comp \/ subscription'.comp = subscription.comp
      /\ subscription'.tier \in {0, subscription.tier} \/ subscription'.comp
  BY <1>1, <1>3 DEF Fits
<1>7. ASSUME InOrder PROVE InOrder'
  <2>1. refunds[i] = 0
    <3>1. refunds[i] \in Nat /\ ~(refunds[i] > 0)
      BY <1>1, <1>5, <1>7 DEF TypeOK, InOrder
    <3> QED
      BY <3>1
  <2>2. /\ refunds'[i] = req[r].amount /\ invoice'[i].status = "refunded"
        /\ \A j \in Invoices : j # i => /\ refunds'[j] = refunds[j]
                                        /\ invoice'[j].status = invoice[j].status
    BY <1>4, <1>5, <2>1, RefundedRows DEF Full
  <2>3. \A j \in Invoices : /\ refunds'[j] > 0 => invoice'[j].status = "refunded"
                            /\ refunds'[j] <= Full
    BY <1>5, <1>7, <2>2 DEF InOrder, RefundBounded, Full
  <2>4. ASSUME NEW j \in Invoices, refunds'[j] >= Full, subscription'.last = j,
               subscription'.tier # 0
        PROVE  subscription'.comp
    <3>1. CASE j = i
      <4>1. req[r].amount = Full
        BY <1>5, <2>2, <2>4, <3>1 DEF Full
      <4> QED
        BY <1>1, <1>3, <1>4, <2>4, <3>1, <4>1 DEF Decided
    <3>2. CASE j # i
      BY <1>6, <1>7, <2>2, <2>4, <3>2 DEF InOrder, RefundEndsPlan
    <3> QED
      BY <3>1, <3>2
  <2>5. GraceAfterExpiry' /\ LockedOnlyOnFree'
    BY <1>1, <1>3, <1>7, ChangeInOrder DEF RefundCommit
  <2>6. RefundEndsPlan'
    BY <2>4 DEF RefundEndsPlan
  <2> QED
    BY <2>3, <2>5, <2>6 DEF InOrder, RefundBounded
<1> QED
  BY <1>4, <1>5, <1>7, RefundedRows, OpenMoves DEF Harmless, BecomesPaid

LEMMA NextHarmless ==
    ASSUME IInv, AllDecided, [Next]_vars, ~LostUpdate
    PROVE  Harmless
<1>0. now \in Time /\ now \in Nat
  BY Constants DEF IInv, TypeOK
<1>1. ASSUME NEW r \in Requests, Begin(r) \/ StaleRead(r) \/ EnterGraceRead(r)
                                  \/ FinalizeGraceRead(r)
      PROVE  UNCHANGED <<invoice, subscription, locked, refunds, now>>
  BY <1>1 DEF Begin, FailRead, RejectRead, StaleRead, Close, PaymentRead, ApproveRead, RefundRead,
     DowngradeRead, CompRead, EnterGraceRead, FinalizeGraceRead, ChangePlan
<1>2. ASSUME NEW r \in Requests,
             \/ MarkPaid(r) \/ AccountRead(r) \/ MarkRefunded(r) \/ RefundAccount(r) \/ Abort(r)
      PROVE  UNCHANGED <<invoice, subscription, locked, refunds, now>>
  BY <1>2 DEF MarkPaid, AccountRead, MarkRefunded, RefundAccount, Abort
<1>3. (\E i \in Invoices : Collect(i)) \/ UNCHANGED vars
        => UNCHANGED <<invoice, subscription, locked, refunds, now>>
  BY DEF Collect, vars
<1>4. CASE Tick
  <2>1. now' \in Time /\ now <= now' /\ UNCHANGED <<invoice, subscription, locked, refunds>>
    BY <1>0, <1>4, BillingAssumption DEF Tick, Time
  <2> QED
    BY <2>1, RowsAlone
<1>5. CASE UNCHANGED <<invoice, subscription, locked, refunds, now>>
  BY <1>0, <1>5, RowsAlone
<1>6. CASE Buy
  BY <1>6, BuyHarmless
<1>7. ASSUME NEW r \in Requests,
             CloseCommit(r) \/ Deliver(r) \/ RefundCommit(r) \/ PlanCommit(r)
      PROVE  Harmless
  BY <1>7, CloseHarmless, DeliverHarmless, RefundHarmless, PlanHarmless
<1> QED
  BY <1>1, <1>2, <1>3, <1>4, <1>5, <1>6, <1>7
     DEF Next, StaleSweep, GraceSweep, ExpirySweep, Continue

\* However many payments, closes, refunds, grants, downgrades and sweeps run at once, a step
\* that is not a commit over a changed row keeps the account in order, its transactions on
\* their life cycle and its receipts, and delivers the plan of what it makes paid.
THEOREM HarmOnlyByLostUpdates == Spec => OnlyLostUpdates
<1>1. IInv /\ AllDecided /\ [Next]_vars => [LostUpdate \/ Harmless]_vars
  BY NextHarmless
<1> QED
  BY <1>1, BillingInvariant, DecisionsFollow, PTL DEF Spec, OnlyLostUpdates
=============================================================================
