-------------------------- MODULE ScanQuotaProofs --------------------------
(***************************************************************************)
(* What ScanQuota promises, for any number of requests, scans, references,  *)
(* invoices and cycles.                                                     *)
(***************************************************************************)
EXTENDS ScanQuota, FiniteSetTheorems, SequenceTheorems, TLAPS

-----------------------------------------------------------------------------
(* Requests: what the new state of one must satisfy to fit the others.       *)

HoldsUsage(s) == s.pc \in {"pick", "spend"} \/ (s.pc = "commit" /\ s.charge # "none")

UsageFits(r, s) ==
    /\ s.cycle <= plan.cycle
    /\ s.limit <= allowance[s.cycle]
    /\ s.charge # "none" => s.pc = "commit"
    /\ s.charge = "plan" => scansUsed[s.cycle] < s.limit
    /\ HoldsUsage(s) => \A q \in Requests \ {r} : ~(UsageHeld(q) /\ req[q].cycle = s.cycle)

PickFits(r, s) ==
    /\ s.credit # 0 =>
          /\ s.pc \in {"spend", "commit"} /\ s.credit \in Rows
          /\ credit[s.credit].status = "available"
          /\ \A q \in Requests \ {r} : req[q].credit # s.credit
    /\ s.pc = "spend" \/ s.charge = "credit" => s.credit # 0
    /\ s.charge = "credit" =>
          /\ ~Spent(s.ref)
          /\ \A q \in Requests \ {r} : ~(req[q].charge = "credit" /\ req[q].ref = s.ref)

InvoiceFits(r, s) ==
    /\ s.pc = "capped" =>
          /\ s.invoice \in Invoices /\ s.quantity \in 1..MaxPerCycle
          /\ invoice[s.invoice].status = "absent"
          /\ \A q \in Requests \ {r} : req[q].invoice # s.invoice
    /\ s.pc \in {"close", "pay", "mint", "refund", "revoke"} =>
          s.invoice \in Invoices /\ invoice[s.invoice].status # "absent"
    /\ s.pc \in {"refund", "revoke"} => \E k \in Rows : credit[k].invoice = s.invoice
    /\ \A q \in Requests \ {r} : req[q].pc = "capped" => s.invoice # req[q].invoice

\* Every request in flight fits.
LEMMA FitsNow ==
    ASSUME IInv, NEW r \in Requests
    PROVE  UsageFits(r, req[r]) /\ PickFits(r, req[r]) /\ InvoiceFits(r, req[r])
<1>1. UsageFits(r, req[r])
  BY DEF IInv, UsageInv, UsageFits, HoldsUsage, UsageHeld
<1>2. PickFits(r, req[r])
  BY DEF IInv, PickedInv, PickFits
<1>3. InvoiceFits(r, req[r])
  BY DEF IInv, InvoiceInv, InvoiceFits
<1> QED
  BY <1>1, <1>2, <1>3

LEMMA MovedRequests ==
    ASSUME TypeOK, NEW r \in Requests, NEW s \in RequestState, Move(r, s)
    PROVE  /\ req' \in [Requests -> RequestState]
           /\ \A q \in Requests : req'[q] = IF q = r THEN s ELSE req[q]
  BY DEF TypeOK, Move

\* A request that moves to a state that fits keeps the invariant.
LEMMA MoveOK ==
    ASSUME IInv, NEW r \in Requests, NEW s \in RequestState, Move(r, s),
           UsageFits(r, s), PickFits(r, s), InvoiceFits(r, s),
           UNCHANGED <<plan, ledger, invoice, asset, now>>,
           lock' \in [Scans -> Requests \cup {None}]
    PROVE  IInv'
<1>1. /\ req' \in [Requests -> RequestState]
      /\ \A q \in Requests : req'[q] = IF q = r THEN s ELSE req[q]
  BY MovedRequests DEF IInv
<1>2. UNCHANGED <<plan, allowance, scansUsed, credit, planCharges, invoice, asset, now>>
  BY DEF ledger
<1>3. TypeOK'
  BY <1>1, <1>2 DEF IInv, TypeOK
<1>4. UsageInv'
  BY <1>1, <1>2 DEF IInv, UsageInv, UsageFits, HoldsUsage, UsageHeld
<1>5. PickedInv'
  BY <1>1, <1>2 DEF IInv, PickedInv, PickFits, Rows, Spent
<1>6. InvoiceInv'
  BY <1>1, <1>2 DEF IInv, InvoiceInv, InvoiceFits, CreditsOf, Rows
<1>7. /\ PlanScansBounded' /\ RefsInv' /\ MintedOnce' /\ RefundedIsSpent'
  BY <1>2 DEF IInv, PlanScansBounded, RefsInv, MintedOnce, RefundedIsSpent, CreditsOf, Rows
<1> QED
  BY <1>3, <1>4, <1>5, <1>6, <1>7 DEF IInv

\* The bounds on what rows and requests hold.
LEMMA Domains ==
    ASSUME TypeOK
    PROVE  /\ plan.limit \in Limits /\ plan.limit \in Nat /\ plan.cycle \in Cycles
           /\ plan.cycle \in Nat /\ plan.cycle >= 1
           /\ 1 \in Cycles /\ \A c \in Cycles : c \in Nat
           /\ allowance \in [Cycles -> Limits] /\ \A c \in Cycles : allowance[c] \in Nat
           /\ \A i \in Invoices : invoice[i].quantity \in Nat /\ invoice[i].cycle \in Cycles
           /\ Len(credit) \in Nat /\ \A k \in Rows : credit[k] \in CreditRow
           /\ now \in Nat
           /\ \A r \in Requests :
                 /\ req[r] \in RequestState
                 /\ req[r].cycle \in Cycles /\ req[r].cycle \in Nat /\ req[r].limit \in Nat
<1>1. Limits \subseteq Nat
  BY QuotaAssumption
<1>2. plan.limit \in Limits /\ plan.cycle \in Cycles
  BY DEF TypeOK, PlanRow
<1>3. plan.cycle \in Nat /\ plan.cycle >= 1
  BY <1>2, QuotaAssumption DEF Cycles
<1>4. \A i \in Invoices : invoice[i].quantity \in Nat /\ invoice[i].cycle \in Cycles
  BY QuotaAssumption DEF TypeOK, InvoiceRow
<1>5. Len(credit) \in Nat /\ \A k \in Rows : credit[k] \in CreditRow
  BY DEF TypeOK, Rows
<1>6. now \in Nat
  BY QuotaAssumption DEF TypeOK
<1>7. 1 \in Cycles /\ \A c \in Cycles : c \in Nat
  BY QuotaAssumption DEF Cycles
<1>8. allowance \in [Cycles -> Limits] /\ \A c \in Cycles : allowance[c] \in Nat
  BY <1>1 DEF TypeOK
<1>9. ASSUME NEW r \in Requests
      PROVE  /\ req[r] \in RequestState
             /\ req[r].cycle \in Cycles /\ req[r].cycle \in Nat /\ req[r].limit \in Nat
  <2>1. req[r] \in RequestState
    BY DEF TypeOK
  <2>2. req[r].cycle \in Cycles /\ req[r].limit \in Limits
    BY <2>1 DEF RequestState
  <2> QED
    BY <1>1, <1>7, <2>1, <2>2
<1> QED
  BY <1>1, <1>2, <1>3, <1>4, <1>5, <1>6, <1>7, <1>8, <1>9

LEMMA IdleFits ==
    /\ Idle \in RequestState
    /\ Idle.pc = "idle" /\ Idle.charge = "none" /\ Idle.credit = 0
    /\ Idle.invoice = None /\ Idle.ref = None /\ Idle.limit = 0 /\ Idle.cycle = 1
    /\ Idle.quantity = 0 /\ Idle.bought = 0 /\ Idle.at = 0
<1>1. 0 \in Limits /\ 1 \in Cycles
  BY QuotaAssumption DEF Cycles
<1> QED
  BY <1>1 DEF Idle, RequestState, Steps

\* A state without charge, Credit and invoice fits anywhere.
LEMMA PlainFits ==
    ASSUME IInv, NEW r \in Requests, NEW s \in RequestState,
           s.charge = "none", s.credit = 0, s.invoice = None,
           s.cycle <= plan.cycle, s.limit <= allowance[s.cycle],
           s.pc \in {"idle", "raw", "replay", "usage", "commit"}
    PROVE  UsageFits(r, s) /\ PickFits(r, s) /\ InvoiceFits(r, s)
<1>1. UsageFits(r, s) /\ PickFits(r, s)
  BY DEF UsageFits, PickFits, HoldsUsage
<1>2. \A q \in Requests : req[q].pc = "capped" => req[q].invoice # None
  BY QuotaAssumption DEF IInv, InvoiceInv
<1>3. InvoiceFits(r, s)
  BY <1>2 DEF InvoiceFits
<1> QED
  BY <1>1, <1>3

-----------------------------------------------------------------------------
(* Scans and charges.                                                       *)

LEMMA InitOK == Init => IInv
<1> SUFFICES ASSUME Init PROVE IInv
  OBVIOUS
<1>1. 0 \in Limits /\ 1 \in Cycles /\ 0 \in 0..MaxPerCycle /\ 0 \in 0..MaxTime
  BY QuotaAssumption DEF Cycles
<1>2. FreePlan \in PlanRow /\ FreePlan.cycle = 1 /\ FreePlan.limit = 0
  BY <1>1 DEF FreePlan, PlanRow
<1>3. TypeOK
  <2>1. invoice \in [Invoices -> InvoiceRow]
    BY <1>1 DEF Init, InvoiceRow
  <2>2. credit \in Seq(CreditRow)
    BY DEF Init
  <2> QED
    BY <1>1, <1>2, <2>1, <2>2, IdleFits DEF Init, TypeOK
<1>4. UsageInv /\ PlanScansBounded
  BY <1>1, <1>2, IdleFits DEF Init, UsageInv, UsageHeld, PlanScansBounded
<1>5. Rows = {}
  BY DEF Init, Rows
<1>6. RefsInv /\ PickedInv
  BY <1>5, IdleFits DEF Init, RefsInv, PickedInv
<1>7. InvoiceInv /\ MintedOnce /\ RefundedIsSpent
  BY <1>5, IdleFits DEF Init, InvoiceInv, MintedOnce, RefundedIsSpent, CreditsOf
<1> QED
  BY <1>3, <1>4, <1>6, <1>7 DEF IInv

\* A scan up to its charge.
LEMMA ScanOK ==
    ASSUME IInv, NEW r \in Requests, Scan(r)
    PROVE  IInv'
<1>0. TypeOK /\ lock \in [Scans -> Requests \cup {None}]
  BY DEF IInv, TypeOK
<1>1. ASSUME NEW pc \in {"raw", "replay"}, NEW f \in References
      PROVE  LET s == [Idle EXCEPT !.pc = pc, !.ref = f]
             IN  /\ s \in RequestState
                 /\ UsageFits(r, s) /\ PickFits(r, s) /\ InvoiceFits(r, s)
  <2> DEFINE s == [Idle EXCEPT !.pc = pc, !.ref = f]
  <2>1. /\ s \in RequestState /\ s.charge = "none" /\ s.credit = 0 /\ s.invoice = None
        /\ s.cycle = 1 /\ s.limit = 0 /\ s.pc = pc
    BY IdleFits DEF RequestState, Steps
  <2> HIDE DEF s
  <2>2. UsageFits(r, s) /\ PickFits(r, s) /\ InvoiceFits(r, s)
    BY <1>0, <2>1, Domains, PlainFits
  <2> QED
    BY <2>1, <2>2 DEF s
<1>2. ASSUME NEW x \in Scans, Confirm(r, x) PROVE IInv'
  <2> DEFINE s == [Idle EXCEPT !.pc = "raw", !.ref = x]
  <2>1. s \in RequestState /\ UsageFits(r, s) /\ PickFits(r, s) /\ InvoiceFits(r, s)
    BY <1>1 DEF References
  <2> HIDE DEF s
  <2>2. /\ Move(r, s) /\ UNCHANGED <<plan, ledger, invoice, asset, now>>
        /\ lock' \in [Scans -> Requests \cup {None}]
    BY <1>0, <1>2 DEF Confirm, Start, s
  <2> QED
    BY <2>1, <2>2, MoveOK
<1>3. ASSUME NEW f \in Calls, Call(r, f) PROVE IInv'
  <2> DEFINE s == [Idle EXCEPT !.pc = "replay", !.ref = f]
  <2>1. s \in RequestState /\ UsageFits(r, s) /\ PickFits(r, s) /\ InvoiceFits(r, s)
    BY <1>1 DEF References
  <2> HIDE DEF s
  <2>2. Move(r, s) /\ UNCHANGED <<plan, ledger, invoice, asset, now, lock>>
    BY <1>3 DEF Call, Start, scans, s
  <2> QED
    BY <1>0, <2>1, <2>2, MoveOK
<1>4. CASE MarkRaw(r)
  <2> DEFINE s == [req[r] EXCEPT !.pc = "replay"]
  <2>1. req[r] \in RequestState /\ req[r].pc = "raw"
    BY <1>0, <1>4, Domains DEF MarkRaw
  <2>2. /\ s \in RequestState /\ s.pc = "replay" /\ s.charge = req[r].charge
        /\ s.credit = req[r].credit /\ s.invoice = req[r].invoice /\ s.cycle = req[r].cycle
        /\ s.limit = req[r].limit /\ s.ref = req[r].ref
    BY <2>1 DEF RequestState, Steps
  <2> HIDE DEF s
  <2>3. UsageFits(r, s) /\ PickFits(r, s) /\ InvoiceFits(r, s)
    BY <2>1, <2>2, FitsNow DEF UsageFits, PickFits, InvoiceFits, HoldsUsage
  <2>4. Move(r, s) /\ UNCHANGED <<plan, ledger, invoice, asset, now, lock>>
    BY <1>4 DEF MarkRaw, scans, s
  <2> QED
    BY <1>0, <2>2, <2>3, <2>4, MoveOK
<1> QED
  BY <1>2, <1>3, <1>4 DEF Scan

\* A charge up to its commit: the usage row is locked before a plan scan is taken, a Credit
\* is one nobody holds, and a reference is new when it is written.
LEMMA ChargeOK ==
    ASSUME IInv, NEW r \in Requests,
           Replay(r) \/ LockUsage(r) \/ Pick(r) \/ Exhausted(r) \/ Spend(r)
    PROVE  IInv'
<1>0. /\ TypeOK /\ lock \in [Scans -> Requests \cup {None}] /\ req[r] \in RequestState
      /\ UNCHANGED <<plan, ledger, invoice, asset, now, lock>>
  BY Domains DEF IInv, TypeOK, Replay, LockUsage, Pick, Exhausted, Spend, scans
<1>1. UsageFits(r, req[r]) /\ PickFits(r, req[r]) /\ InvoiceFits(r, req[r])
  BY FitsNow
<1>2. CASE Replay(r)
  <2>1. CASE Spent(req[r].ref)
    <3> DEFINE s == [req[r] EXCEPT !.pc = "commit"]
    <3>1. /\ s \in RequestState /\ s.pc = "commit" /\ s.charge = req[r].charge
          /\ s.credit = req[r].credit /\ s.invoice = req[r].invoice /\ s.cycle = req[r].cycle
          /\ s.limit = req[r].limit /\ s.ref = req[r].ref
      BY <1>0 DEF RequestState, Steps
    <3>2. req[r].pc = "replay" /\ Move(r, s)
      BY <1>2, <2>1 DEF Replay
    <3> HIDE DEF s
    <3>3. UsageFits(r, s) /\ PickFits(r, s) /\ InvoiceFits(r, s)
      BY <1>1, <3>1, <3>2 DEF UsageFits, PickFits, InvoiceFits, HoldsUsage
    <3> QED
      BY <1>0, <3>1, <3>2, <3>3, MoveOK
  <2>2. CASE ~Spent(req[r].ref)
    <3> DEFINE s == [req[r] EXCEPT !.pc = "usage", !.limit = plan.limit,
                                   !.cycle = plan.cycle, !.at = now]
    <3>1. /\ s \in RequestState /\ s.pc = "usage" /\ s.charge = req[r].charge
          /\ s.credit = req[r].credit /\ s.invoice = req[r].invoice
          /\ s.cycle = plan.cycle /\ s.limit = plan.limit /\ s.ref = req[r].ref
      BY <1>0, Domains DEF RequestState, Steps
    <3>2. req[r].pc = "replay" /\ Move(r, s)
      BY <1>2, <2>2 DEF Replay
    <3> HIDE DEF s
    <3>3. UsageFits(r, s) /\ PickFits(r, s) /\ InvoiceFits(r, s)
      <4>1. plan.limit <= allowance[plan.cycle] /\ plan.cycle <= plan.cycle
        BY <1>0, Domains DEF IInv, UsageInv
      <4> QED
        BY <1>1, <3>1, <3>2, <4>1 DEF UsageFits, PickFits, InvoiceFits, HoldsUsage
    <3> QED
      BY <1>0, <3>1, <3>2, <3>3, MoveOK
  <2> QED
    BY <2>1, <2>2
<1>3. CASE LockUsage(r)
  <2> DEFINE left == scansUsed[req[r].cycle] < req[r].limit
             s == [req[r] EXCEPT !.pc = IF left THEN "commit" ELSE "pick",
                                 !.charge = IF left THEN "plan" ELSE "none"]
  <2>1. /\ s \in RequestState
        /\ s.pc = IF left THEN "commit" ELSE "pick"
        /\ s.charge = IF left THEN "plan" ELSE "none"
        /\ s.credit = req[r].credit /\ s.invoice = req[r].invoice /\ s.cycle = req[r].cycle
        /\ s.limit = req[r].limit /\ s.ref = req[r].ref
    BY <1>0 DEF RequestState, Steps
  <2>2. /\ req[r].pc = "usage" /\ Move(r, s)
        /\ \A q \in Requests : ~(UsageHeld(q) /\ req[q].cycle = req[r].cycle)
    BY <1>3 DEF LockUsage, UsageFree, LimitRead
  <2> HIDE DEF s
  <2>3. UsageFits(r, s)
    BY <1>1, <2>1, <2>2 DEF UsageFits, HoldsUsage
  <2>4. PickFits(r, s) /\ InvoiceFits(r, s)
    BY <1>1, <2>1, <2>2 DEF PickFits, InvoiceFits
  <2> QED
    BY <1>0, <2>1, <2>2, <2>3, <2>4, MoveOK
<1>4. CASE Pick(r)
  <2>1. PICK k \in Rows : /\ Spendable(k, req[r].at) /\ CreditFree(k)
                          /\ Move(r, [req[r] EXCEPT !.pc = "spend", !.credit = k])
    BY <1>4 DEF Pick
  <2> DEFINE s == [req[r] EXCEPT !.pc = "spend", !.credit = k]
  <2>2. k \in Nat /\ k # 0
    BY <1>0, Domains DEF Rows
  <2>3. /\ s \in RequestState /\ s.pc = "spend" /\ s.charge = req[r].charge
        /\ s.credit = k /\ s.invoice = req[r].invoice /\ s.cycle = req[r].cycle
        /\ s.limit = req[r].limit /\ s.ref = req[r].ref
    BY <1>0, <2>2 DEF RequestState, Steps
  <2>4. req[r].pc = "pick" /\ Move(r, s)
    BY <1>4, <2>1 DEF Pick
  <2> HIDE DEF s
  <2>5. UsageFits(r, s) /\ InvoiceFits(r, s)
    BY <1>1, <2>3, <2>4 DEF UsageFits, InvoiceFits, HoldsUsage
  <2>6. \A q \in Requests : req[q].credit # k
    BY <2>1, <2>2 DEF CreditFree, IInv, PickedInv
  <2>7. PickFits(r, s)
    BY <1>1, <2>1, <2>2, <2>3, <2>4, <2>6 DEF PickFits, UsageFits, Spendable
  <2> QED
    BY <1>0, <2>3, <2>4, <2>5, <2>7, MoveOK
<1>5. CASE Exhausted(r)
  <2>1. CASE req[r].ref \in Scans
    <3> DEFINE s == [req[r] EXCEPT !.pc = "commit", !.charge = "free"]
    <3>1. /\ s \in RequestState /\ s.pc = "commit" /\ s.charge = "free"
          /\ s.credit = req[r].credit /\ s.invoice = req[r].invoice /\ s.cycle = req[r].cycle
          /\ s.limit = req[r].limit /\ s.ref = req[r].ref
      BY <1>0 DEF RequestState, Steps
    <3>2. req[r].pc = "pick" /\ Move(r, s)
      BY <1>5, <2>1 DEF Exhausted
    <3> HIDE DEF s
    <3>3. UsageFits(r, s) /\ PickFits(r, s) /\ InvoiceFits(r, s)
      BY <1>1, <3>1, <3>2 DEF UsageFits, PickFits, InvoiceFits, HoldsUsage
    <3> QED
      BY <1>0, <3>1, <3>2, <3>3, MoveOK
  <2>2. CASE req[r].ref \notin Scans
    BY <1>0, <1>5, <2>2, IdleFits, Domains, PlainFits, MoveOK DEF Exhausted
  <2> QED
    BY <2>1, <2>2
<1>6. CASE Spend(r)
  <2>1. CASE ~Spent(req[r].ref)
    <3> DEFINE s == [req[r] EXCEPT !.pc = "commit", !.charge = "credit"]
    <3>1. /\ s \in RequestState /\ s.pc = "commit" /\ s.charge = "credit"
          /\ s.credit = req[r].credit /\ s.invoice = req[r].invoice /\ s.cycle = req[r].cycle
          /\ s.limit = req[r].limit /\ s.ref = req[r].ref
      BY <1>0 DEF RequestState, Steps
    <3>2. /\ req[r].pc = "spend" /\ Move(r, s)
          /\ \A q \in Requests : ~(req[q].pc = "commit" /\ req[q].charge = "credit"
                                   /\ req[q].ref = req[r].ref)
      BY <1>6, <2>1 DEF Spend, RefUnique
    <3> HIDE DEF s
    <3>3. \A q \in Requests : req[q].charge = "credit" => req[q].pc = "commit"
      BY DEF IInv, UsageInv
    <3>4. UsageFits(r, s) /\ InvoiceFits(r, s)
      BY <1>1, <3>1, <3>2 DEF UsageFits, InvoiceFits, HoldsUsage
    <3>5. PickFits(r, s)
      BY <1>1, <2>1, <3>1, <3>2, <3>3 DEF PickFits
    <3> QED
      BY <1>0, <3>1, <3>2, <3>4, <3>5, MoveOK
  <2>2. CASE Spent(req[r].ref)
    BY <1>0, <1>6, <2>2, IdleFits, Domains, PlainFits, MoveOK DEF Spend, RefUnique
  <2> QED
    BY <2>1, <2>2
<1> QED
  BY <1>2, <1>3, <1>4, <1>5, <1>6

\* A request that ends while rows and invoices stay leaves InvoiceInv to the others.
LEMMA OthersInvoices ==
    ASSUME InvoiceInv, NEW r \in Requests, UNCHANGED invoice, Rows' = Rows,
           \A k \in Rows : credit'[k].invoice = credit[k].invoice,
           \A q \in Requests : req'[q] = IF q = r THEN Idle ELSE req[q]
    PROVE  InvoiceInv'
<1>1. \A i \in Invoices :
        /\ invoice'[i].status = "absent" => \A k \in Rows' : credit'[k].invoice # i
        /\ invoice'[i].status # "absent" <=> invoice'[i].quantity # 0
  BY DEF InvoiceInv
<1>2. ASSUME NEW q \in Requests
      PROVE  /\ req'[q].pc = "capped" =>
                   /\ req'[q].invoice \in Invoices /\ req'[q].quantity \in 1..MaxPerCycle
                   /\ invoice'[req'[q].invoice].status = "absent"
             /\ req'[q].pc \in {"close", "pay", "mint", "refund", "revoke"} =>
                   req'[q].invoice \in Invoices /\ invoice'[req'[q].invoice].status # "absent"
             /\ req'[q].pc \in {"refund", "revoke"} =>
                   \E k \in Rows' : credit'[k].invoice = req'[q].invoice
  <2>1. CASE q = r
    BY <2>1, IdleFits
  <2>2. CASE q # r
    BY <2>2 DEF InvoiceInv
  <2> QED
    BY <2>1, <2>2
<1>3. \A p, q \in Requests :
        req'[p].pc = "capped" /\ req'[p].invoice = req'[q].invoice => p = q
  BY IdleFits, QuotaAssumption DEF InvoiceInv
<1> QED
  BY <1>1, <1>2, <1>3 DEF InvoiceInv

\* Whatever a charge commits: a plan scan that was left, or a Credit that was its own with a
\* reference that was new.
LEMMA ChargeCommitOK ==
    ASSUME IInv, NEW r \in Requests, ChargeCommit(r)
    PROVE  IInv'
<1> DEFINE f == req[r].ref
           charge == req[r].charge
           k == req[r].credit
           c == req[r].cycle
<1>0. /\ TypeOK /\ req[r] \in RequestState /\ req[r].pc = "commit"
      /\ UNCHANGED <<plan, invoice, now>> /\ Move(r, Idle)
  BY Domains DEF IInv, ChargeCommit
<1>1. UsageFits(r, req[r]) /\ PickFits(r, req[r]) /\ InvoiceFits(r, req[r])
  BY FitsNow
<1>2. /\ req' \in [Requests -> RequestState]
      /\ \A q \in Requests : req'[q] = IF q = r THEN Idle ELSE req[q]
  BY <1>0, IdleFits, MovedRequests
<1>3. /\ scansUsed' \in [Cycles -> Nat]
      /\ \A d \in Cycles : scansUsed'[d] = IF d = c /\ charge = "plan" THEN scansUsed[d] + 1
                                           ELSE scansUsed[d]
  <2>1. c \in Cycles
    BY <1>0 DEF RequestState
  <2>2. scansUsed' = [scansUsed EXCEPT ![c] = IF charge = "plan" THEN scansUsed[c] + 1
                                              ELSE scansUsed[c]]
    BY <1>0 DEF ChargeCommit
  <2> HIDE DEF c, charge
  <2> QED
    BY <1>0, <2>1, <2>2 DEF TypeOK
<1>4. /\ credit' \in Seq(CreditRow) /\ Len(credit') = Len(credit)
      /\ \A l \in Rows : credit'[l] = IF charge = "credit" /\ l = k
                                       THEN [credit[l] EXCEPT !.status = "used", !.ref = f]
                                       ELSE credit[l]
  <2>1. CASE charge = "credit"
    <3>1. k \in Rows /\ credit[k] \in CreditRow
      BY <1>0, <1>1, <2>1, Domains DEF PickFits
    <3> DEFINE row == [credit[k] EXCEPT !.status = "used", !.ref = f]
    <3>2. credit' = [credit EXCEPT ![k] = row]
      BY <1>0, <2>1 DEF ChargeCommit
    <3>3. row \in CreditRow
      BY <1>0, <3>1 DEF CreditRow, RequestState
    <3> HIDE DEF row, k
    <3>4. /\ credit' \in Seq(CreditRow) /\ Len(credit') = Len(credit)
          /\ \A l \in Rows : credit'[l] = IF l = k THEN row ELSE credit[l]
      BY <1>0, <3>1, <3>2, <3>3 DEF TypeOK, Rows
    <3> QED
      BY <2>1, <3>4 DEF row
  <2>2. CASE charge # "credit"
    BY <1>0, <2>2 DEF ChargeCommit, TypeOK
  <2> QED
    BY <2>1, <2>2
<1>5. TypeOK'
  <2>1. planCharges' \in [Scans -> Nat]
    BY <1>0 DEF ChargeCommit, TypeOK
  <2>2. asset' \in [Scans -> {"absent", "uploading", "raw"}]
    BY <1>0 DEF ChargeCommit, TypeOK
  <2>3. lock' \in [Scans -> Requests \cup {None}]
    BY <1>0 DEF ChargeCommit, TypeOK
  <2>4. allowance' \in [Cycles -> Limits]
    BY <1>0, Domains DEF ChargeCommit
  <2> QED
    BY <1>0, <1>2, <1>3, <1>4, <2>1, <2>2, <2>3, <2>4 DEF TypeOK
<1>6. UsageInv' /\ PlanScansBounded'
  <2>1. charge = "plan" => UsageHeld(r) /\ scansUsed[c] < req[r].limit
    BY <1>0, <1>1 DEF UsageFits, UsageHeld
  <2>2. /\ c \in Cycles /\ c \in Nat /\ c <= plan.cycle /\ req[r].limit \in Nat
        /\ req[r].limit <= allowance[c] /\ allowance' = allowance
    BY <1>0, <1>1, Domains DEF UsageFits, ChargeCommit
  <2>3. \A d \in Cycles : d \in Nat /\ scansUsed[d] \in Nat /\ allowance[d] \in Nat
    BY <1>0, Domains DEF TypeOK
  <2>4. plan.cycle \in Cycles /\ plan.cycle \in Nat /\ plan.limit \in Nat /\ plan.cycle >= 1
    BY <1>0, Domains
  <2>5. PlanScansBounded'
    BY <1>0, <1>3, <2>1, <2>2, <2>3, <2>4 DEF IInv, PlanScansBounded
  <2>6. \A d \in Cycles : d > plan.cycle => scansUsed'[d] = 0
    BY <1>3, <2>2, <2>3, <2>4 DEF IInv, UsageInv
  <2>7. \A q \in Requests :
            /\ req'[q].cycle <= plan.cycle
            /\ req'[q].limit <= allowance[req'[q].cycle]
            /\ req'[q].charge # "none" => req'[q].pc = "commit"
    <3>1. 0 <= allowance[1]
      BY <1>0, Domains
    <3> QED
      BY <1>2, <2>4, <3>1, IdleFits DEF IInv, UsageInv
  <2>8. ASSUME NEW q \in Requests, req'[q].charge = "plan"
        PROVE  scansUsed'[req'[q].cycle] < req'[q].limit
    <3>1. q # r /\ req'[q] = req[q]
      BY <1>2, <2>8, IdleFits
    <3>2. UsageHeld(q) /\ scansUsed[req[q].cycle] < req[q].limit /\ req[q].cycle \in Cycles
      BY <1>0, <2>8, <3>1, Domains DEF IInv, UsageInv, UsageHeld, RequestState
    <3>3. charge = "plan" => req[q].cycle # c
      BY <2>1, <3>1, <3>2 DEF IInv, UsageInv
    <3> QED
      BY <1>3, <3>1, <3>2, <3>3
  <2>9. \A p, q \in Requests :
            UsageHeld(p)' /\ UsageHeld(q)' /\ req'[p].cycle = req'[q].cycle => p = q
    BY <1>2, IdleFits DEF IInv, UsageInv, UsageHeld
  <2> QED
    BY <1>0, <2>2, <2>5, <2>6, <2>7, <2>8, <2>9 DEF IInv, UsageInv
<1>7. RefsInv' /\ PickedInv'
  <2>1. charge = "credit" =>
            /\ k \in Rows /\ credit[k].status = "available" /\ ~Spent(f)
            /\ \A q \in Requests \ {r} :
                  req[q].credit # k /\ ~(req[q].charge = "credit" /\ req[q].ref = f)
    BY <1>1 DEF PickFits
  <2>2. \A l \in Rows : credit[l] \in CreditRow
    BY <1>0, Domains
  <2>3. Rows' = Rows
    BY <1>4 DEF Rows
  <2>4. \A l \in Rows :
            IF charge = "credit" /\ l = k THEN credit'[l].status = "used" /\ credit'[l].ref = f
            ELSE credit'[l] = credit[l]
    BY <1>4, <2>2 DEF CreditRow
  <2>5. RefsInv'
    BY <2>1, <2>3, <2>4 DEF IInv, RefsInv, Spent
  <2>6. \A q \in Requests : req'[q].credit # 0 =>
            /\ req'[q].pc \in {"spend", "commit"} /\ req'[q].credit \in Rows
            /\ credit'[req'[q].credit].status = "available"
    BY <1>2, <2>1, <2>4, IdleFits DEF IInv, PickedInv
  <2>7. ASSUME NEW q \in Requests, req'[q].charge = "credit"
        PROVE  \A l \in Rows : credit'[l].ref # req'[q].ref
    <3>1. q # r /\ req'[q] = req[q]
      BY <1>2, <2>7, IdleFits
    <3>2. ~Spent(req[q].ref) /\ (charge = "credit" => req[q].ref # f)
      BY <2>1, <2>7, <3>1 DEF IInv, PickedInv
    <3> QED
      BY <2>4, <3>1, <3>2 DEF Spent
  <2>8. PickedInv'
    BY <1>2, <2>3, <2>6, <2>7, IdleFits DEF IInv, PickedInv, Spent
  <2> QED
    BY <2>5, <2>8
<1>8. InvoiceInv' /\ MintedOnce' /\ RefundedIsSpent'
  <2>1. Rows' = Rows
    BY <1>4 DEF Rows
  <2>2. \A l \in Rows : /\ credit'[l].invoice = credit[l].invoice
                        /\ credit[l].status # "available" => credit'[l].status # "available"
    BY <1>0, <1>4, Domains DEF CreditRow
  <2>3. \A i : {l \in Rows' : credit'[l].invoice = i} = {l \in Rows : credit[l].invoice = i}
    BY <2>1, <2>2
  <2>4. InvoiceInv'
    <3>1. InvoiceInv /\ invoice' = invoice
      BY <1>0 DEF IInv
    <3>2. \A l \in Rows : credit'[l].invoice = credit[l].invoice
      BY <2>2
    <3>3. \A q \in Requests : req'[q] = IF q = r THEN Idle ELSE req[q]
      BY <1>2
    <3> QED
      BY <2>1, <3>1, <3>2, <3>3, OthersInvoices
  <2>5. MintedOnce'
    BY <1>0, <2>3 DEF IInv, MintedOnce, CreditsOf
  <2>6. RefundedIsSpent'
    BY <1>0, <2>1, <2>2 DEF IInv, RefundedIsSpent
  <2> QED
    BY <2>4, <2>5, <2>6
<1> QED
  BY <1>5, <1>6, <1>7, <1>8 DEF IInv

-----------------------------------------------------------------------------
(* Invoices up to their commit.                                             *)

LEMMA BoughtType ==
    ASSUME TypeOK, NEW c
    PROVE  Bought(c) \in Nat
<1> DEFINE S == {k \in Rows : invoice[credit[k].invoice].cycle = c
                              /\ credit[k].status # "revoked"}
<1>1. IsFiniteSet(Rows)
  BY Domains, FS_Interval DEF Rows
<1>2. IsFiniteSet(S)
  BY <1>1, FS_Subset
<1> QED
  BY <1>2, FS_CardinalityType DEF Bought

\* A request that starts on an invoice, with a quantity or without.
LEMMA StartFits ==
    ASSUME IInv, NEW r \in Requests, NEW i \in Invoices, NEW s \in RequestState,
           s.charge = "none", s.credit = 0, s.invoice = i, s.limit = 0, s.cycle <= plan.cycle,
           \/ /\ s.pc = "capped" /\ s.quantity \in 1..MaxPerCycle
              /\ invoice[i].status = "absent" /\ \A q \in Requests : req[q].invoice # i
           \/ /\ s.pc \in {"close", "pay", "refund"} /\ invoice[i].status # "absent"
              /\ s.pc = "refund" => \E k \in Rows : credit[k].invoice = i
    PROVE  UsageFits(r, s) /\ PickFits(r, s) /\ InvoiceFits(r, s)
<1>1. UsageFits(r, s)
  <2>1. s.cycle \in Cycles
    BY DEF RequestState
  <2>2. 0 <= allowance[s.cycle]
    BY <2>1, Domains DEF IInv
  <2> QED
    BY <2>2 DEF UsageFits, HoldsUsage
<1>2. PickFits(r, s)
  BY DEF PickFits
<1>3. InvoiceFits(r, s)
  BY DEF IInv, InvoiceInv, InvoiceFits
<1> QED
  BY <1>1, <1>2, <1>3

\* Reads of an invoice, and the locks on it that a payment and a refund take.
LEMMA BuyOK ==
    ASSUME IInv, NEW r \in Requests,
           \/ \E i \in Invoices, quantity \in 1..MaxPerCycle : Checkout(r, i, quantity)
           \/ \E i \in Invoices : CloseRead(r, i) \/ PaymentRead(r, i)
           \/ \E i \in Invoices, override \in BOOLEAN : RefundRead(r, i, override)
           \/ MarkPaid(r) \/ MarkRefunded(r)
    PROVE  IInv'
<1>0. /\ TypeOK /\ lock \in [Scans -> Requests \cup {None}] /\ req[r] \in RequestState
      /\ UNCHANGED <<plan, ledger, invoice, asset, now, lock>>
  BY Domains DEF IInv, TypeOK, Checkout, CloseRead, PaymentRead, RefundRead, MarkPaid,
                 MarkRefunded, scans
<1>1. plan.cycle \in Cycles /\ plan.cycle \in Nat /\ plan.cycle >= 1
  BY <1>0, Domains
<1>2. ASSUME NEW i \in Invoices, NEW quantity \in 1..MaxPerCycle, Checkout(r, i, quantity)
      PROVE  IInv'
  <2> DEFINE s == [Idle EXCEPT !.pc = "capped", !.invoice = i, !.cycle = plan.cycle,
                               !.quantity = quantity, !.bought = Bought(plan.cycle)]
  <2>1. Bought(plan.cycle) \in Nat /\ quantity \in Nat
    BY <1>0, BoughtType, QuotaAssumption
  <2>2. /\ s \in RequestState /\ s.pc = "capped" /\ s.charge = "none" /\ s.credit = 0
        /\ s.invoice = i /\ s.limit = 0 /\ s.cycle = plan.cycle /\ s.quantity = quantity
    BY <1>1, <2>1, IdleFits DEF RequestState, Steps
  <2>3. /\ Move(r, s) /\ invoice[i].status = "absent"
        /\ \A q \in Requests : req[q].invoice # i
    BY <1>2 DEF Checkout, Start
  <2> HIDE DEF s
  <2>4. UsageFits(r, s) /\ PickFits(r, s) /\ InvoiceFits(r, s)
    BY <1>1, <2>2, <2>3, StartFits
  <2> QED
    BY <1>0, <2>2, <2>3, <2>4, MoveOK
<1>3. ASSUME NEW i \in Invoices, NEW pc \in {"close", "pay", "refund"},
             invoice[i].status # "absent",
             pc = "refund" => \E k \in Rows : credit[k].invoice = i,
             Move(r, [Idle EXCEPT !.pc = pc, !.invoice = i])
      PROVE  IInv'
  <2> DEFINE s == [Idle EXCEPT !.pc = pc, !.invoice = i]
  <2>1. /\ s \in RequestState /\ s.pc = pc /\ s.charge = "none" /\ s.credit = 0
        /\ s.invoice = i /\ s.limit = 0 /\ s.cycle = 1
    BY IdleFits DEF RequestState, Steps
  <2>2. Move(r, s)
    BY <1>3
  <2> HIDE DEF s
  <2>3. UsageFits(r, s) /\ PickFits(r, s) /\ InvoiceFits(r, s)
    BY <1>1, <1>3, <2>1, StartFits
  <2> QED
    BY <1>0, <2>1, <2>2, <2>3, MoveOK
<1>4. ASSUME NEW i \in Invoices, CloseRead(r, i) \/ PaymentRead(r, i) PROVE IInv'
  BY <1>3, <1>4 DEF CloseRead, PaymentRead, Start
<1>5. ASSUME NEW i \in Invoices, NEW override \in BOOLEAN, RefundRead(r, i, override)
      PROVE  IInv'
  <2>1. \E k \in Rows : credit[k].invoice = i
    BY <1>5 DEF RefundRead, IInv, MintedOnce, CreditsOf
  <2> QED
    BY <1>3, <1>5, <2>1 DEF RefundRead, Start
<1>6. CASE MarkPaid(r) \/ MarkRefunded(r)
  <2> DEFINE to == IF req[r].pc = "pay" THEN "mint" ELSE "revoke"
             s == [req[r] EXCEPT !.pc = to]
  <2>1. /\ s \in RequestState /\ s.pc = to /\ s.charge = req[r].charge
        /\ s.credit = req[r].credit /\ s.invoice = req[r].invoice /\ s.limit = req[r].limit
        /\ s.cycle = req[r].cycle
    BY <1>0 DEF RequestState, Steps
  <2>2. Move(r, s) /\ req[r].pc = IF to = "mint" THEN "pay" ELSE "refund"
    BY <1>6 DEF MarkPaid, MarkRefunded
  <2>3. to \in {"mint", "revoke"}
    OBVIOUS
  <2>4. UsageFits(r, req[r]) /\ PickFits(r, req[r]) /\ InvoiceFits(r, req[r])
    BY FitsNow
  <2> HIDE DEF s, to
  <2>5. UsageFits(r, s) /\ PickFits(r, s) /\ InvoiceFits(r, s)
    BY <2>1, <2>2, <2>3, <2>4 DEF UsageFits, PickFits, InvoiceFits, HoldsUsage
  <2> QED
    BY <1>0, <2>1, <2>2, <2>5, MoveOK
<1> QED
  BY <1>2, <1>4, <1>5, <1>6

\* A rollback, or a crash: nothing was written.
LEMMA AbortOK ==
    ASSUME IInv, NEW r \in Requests, Abort(r)
    PROVE  IInv'
<1>1. TypeOK /\ lock \in [Scans -> Requests \cup {None}]
  BY DEF IInv, TypeOK
<1>2. lock' \in [Scans -> Requests \cup {None}]
  BY <1>1 DEF Abort
<1>3. UsageFits(r, Idle) /\ PickFits(r, Idle) /\ InvoiceFits(r, Idle)
  BY <1>1, IdleFits, Domains, PlainFits
<1>4. Move(r, Idle) /\ UNCHANGED <<plan, ledger, invoice, asset, now>>
  BY DEF Abort
<1> QED
  BY <1>2, <1>3, <1>4, IdleFits, MoveOK

-----------------------------------------------------------------------------
(* The plan, the clock and the locks in Redis.                              *)

LEMMA AroundOK ==
    ASSUME IInv,
           \/ \E s \in Scans : Accept(s) \/ LockLapse(s)
           \/ \E limit \in Limits : NewCycle(limit) \/ Upgrade(limit)
           \/ EnterGrace \/ Tick
    PROVE  IInv'
<1>0. TypeOK /\ UNCHANGED <<scansUsed, credit, planCharges, invoice, req>>
  BY DEF IInv, Accept, LockLapse, NewCycle, Upgrade, EnterGrace, Tick, ledger
<1>1. asset' \in [Scans -> {"absent", "uploading", "raw"}]
  BY <1>0 DEF TypeOK, Accept, LockLapse, NewCycle, Upgrade, EnterGrace, Tick, scans
<1>2. lock' \in [Scans -> Requests \cup {None}]
  BY <1>0 DEF TypeOK, Accept, LockLapse, NewCycle, Upgrade, EnterGrace, Tick, scans
<1>3. now' \in 0..MaxTime
  BY <1>0, QuotaAssumption
     DEF TypeOK, Accept, LockLapse, NewCycle, Upgrade, EnterGrace, Tick
<1>4. /\ plan \in PlanRow /\ plan.limit \in Limits /\ plan.limit \in Nat
      /\ plan.cycle \in 1..MaxCycle /\ plan.cycle \in Nat
  BY <1>0, Domains DEF TypeOK, PlanRow, Cycles
<1>5. /\ plan' \in PlanRow /\ allowance' \in [Cycles -> Limits]
      /\ \A c \in Cycles \ {plan'.cycle} : allowance'[c] = allowance[c]
      /\ allowance'[plan'.cycle] = plan'.limit
      /\ \/ plan'.cycle = plan.cycle + 1
         \/ plan'.cycle = plan.cycle /\ plan'.limit >= plan.limit
  <2> DEFINE Result ==
        /\ plan' \in PlanRow /\ allowance' \in [Cycles -> Limits]
        /\ \A c \in Cycles \ {plan'.cycle} : allowance'[c] = allowance[c]
        /\ allowance'[plan'.cycle] = plan'.limit
        /\ \/ plan'.cycle = plan.cycle + 1
           \/ plan'.cycle = plan.cycle /\ plan'.limit >= plan.limit
  <2>0. allowance \in [Cycles -> Limits] /\ allowance[plan.cycle] = plan.limit
    BY <1>0, Domains DEF IInv, UsageInv
  <2>1. ASSUME NEW limit \in Limits, NewCycle(limit) PROVE Result
    <3>1. plan.cycle + 1 \in 1..MaxCycle
      BY <1>4, <2>1, QuotaAssumption DEF NewCycle
    <3>2. /\ plan' \in PlanRow /\ plan'.cycle = plan.cycle + 1 /\ plan'.limit = limit
          /\ allowance' = [allowance EXCEPT ![plan.cycle + 1] = limit]
      BY <2>1, <3>1 DEF NewCycle, PlanRow, Cycles
    <3> QED
      BY <2>0, <3>1, <3>2 DEF Cycles
  <2>2. ASSUME NEW limit \in Limits, Upgrade(limit) PROVE Result
    <3>1. /\ plan' \in PlanRow /\ plan'.cycle = plan.cycle /\ plan'.limit = limit
          /\ allowance' = [allowance EXCEPT ![plan.cycle] = limit]
          /\ limit >= plan.limit
      BY <1>4, <2>2, QuotaAssumption DEF Upgrade, PlanRow, Cycles
    <3> QED
      BY <1>4, <2>0, <3>1 DEF Cycles
  <2>3. CASE EnterGrace
    <3>1. /\ plan' \in PlanRow /\ plan'.cycle = plan.cycle /\ plan'.limit = plan.limit
          /\ allowance' = allowance
      BY <1>4, <2>3 DEF EnterGrace, PlanRow, Cycles, ledger
    <3> QED
      BY <1>4, <2>0, <3>1
  <2>4. CASE UNCHANGED <<plan, allowance>>
    BY <1>4, <2>0, <2>4
  <2>5. (\E s \in Scans : Accept(s) \/ LockLapse(s)) \/ Tick => UNCHANGED <<plan, allowance>>
    BY DEF Accept, LockLapse, Tick, ledger
  <2> QED
    BY <2>1, <2>2, <2>3, <2>4, <2>5
<1>6. TypeOK'
  BY <1>0, <1>1, <1>2, <1>3, <1>5 DEF TypeOK
<1>7. UsageInv' /\ PlanScansBounded'
  <2>1. \A r \in Requests :
          /\ req[r].cycle \in Cycles /\ req[r].cycle \in Nat /\ req[r].limit \in Nat
          /\ req[r].cycle <= plan.cycle /\ req[r].limit <= allowance[req[r].cycle]
    BY <1>0, Domains DEF IInv, UsageInv
  <2>2. /\ plan.cycle \in Nat /\ plan.limit \in Nat /\ plan'.cycle \in Nat /\ plan'.limit \in Nat
        /\ plan.cycle \in Cycles /\ plan'.cycle \in Cycles
        /\ \A c \in Cycles : c \in Nat /\ allowance[c] \in Nat /\ scansUsed[c] \in Nat
    <3>1. Limits \subseteq Nat
      BY QuotaAssumption
    <3>2. plan'.cycle \in Cycles /\ plan'.limit \in Limits
      BY <1>5 DEF PlanRow
    <3> QED
      BY <1>0, <3>1, <3>2, Domains DEF TypeOK
  <2>3. \A c \in Cycles : c <= plan.cycle => allowance'[c] \in Nat /\ allowance[c] <= allowance'[c]
    <3>1. allowance[plan.cycle] = plan.limit
      BY DEF IInv, UsageInv
    <3> QED
      BY <1>5, <2>2, <3>1
  <2>4. UsageInv'
    <3>1. (\A c \in Cycles : c > plan.cycle => scansUsed[c] = 0)'
      BY <1>0, <1>5, <2>2 DEF IInv, UsageInv
    <3>2. (\A r \in Requests : req[r].cycle <= plan.cycle
                               /\ req[r].limit <= allowance[req[r].cycle])'
      BY <1>0, <1>5, <2>1, <2>2, <2>3
    <3>3. (\A r \in Requests :
            /\ req[r].charge # "none" => req[r].pc = "commit"
            /\ req[r].charge = "plan" => scansUsed[req[r].cycle] < req[r].limit)'
      BY <1>0 DEF IInv, UsageInv
    <3>4. (\A r, q \in Requests :
            UsageHeld(r) /\ UsageHeld(q) /\ req[r].cycle = req[q].cycle => r = q)'
      BY <1>0 DEF IInv, UsageInv, UsageHeld
    <3> QED
      BY <1>5, <3>1, <3>2, <3>3, <3>4 DEF UsageInv
  <2>5. ASSUME NEW c \in Cycles PROVE scansUsed[c] <= allowance'[c]
    <3>1. CASE c <= plan.cycle
      BY <2>2, <2>3, <3>1 DEF IInv, PlanScansBounded
    <3>2. CASE c > plan.cycle
      <4>1. scansUsed[c] = 0 /\ allowance'[c] \in Nat
        BY <1>5, <2>2, <3>2, QuotaAssumption DEF IInv, UsageInv
      <4> QED
        BY <4>1
    <3> QED
      BY <2>2, <3>1, <3>2
  <2>6. PlanScansBounded'
    BY <1>0, <2>5 DEF PlanScansBounded
  <2> QED
    BY <2>4, <2>6
<1>8. RefsInv' /\ PickedInv'
  BY <1>0 DEF IInv, RefsInv, PickedInv, Rows, Spent
<1>9. InvoiceInv'
  BY <1>0 DEF IInv, InvoiceInv, Rows
<1>10. MintedOnce' /\ RefundedIsSpent'
  BY <1>0 DEF IInv, MintedOnce, RefundedIsSpent, CreditsOf, Rows
<1> QED
  BY <1>6, <1>7, <1>8, <1>9, <1>10 DEF IInv

-----------------------------------------------------------------------------
(* Requests that end.                                                       *)

\* The part of a request that ends with the usage and the picks of the others as they were.
LEMMA Ended ==
    ASSUME IInv, NEW r \in Requests, Move(r, Idle), UNCHANGED <<plan, allowance, scansUsed>>
    PROVE  /\ req' \in [Requests -> RequestState]
           /\ \A q \in Requests : req'[q] = IF q = r THEN Idle ELSE req[q]
           /\ UsageInv' /\ PlanScansBounded'
<1>1. /\ req' \in [Requests -> RequestState]
      /\ \A q \in Requests : req'[q] = IF q = r THEN Idle ELSE req[q]
  BY IdleFits, MovedRequests DEF IInv
<1>2. UsageInv' /\ PlanScansBounded'
  <2>1. plan.cycle >= 1 /\ plan.cycle \in Nat /\ plan.limit \in Nat /\ 0 <= allowance[1]
    BY Domains DEF IInv
  <2> QED
    BY <1>1, <2>1, IdleFits DEF IInv, UsageInv, UsageHeld, PlanScansBounded
<1> QED
  BY <1>1, <1>2

\* An invoice is created once, by the checkout that has its id.
LEMMA CheckoutCommitOK ==
    ASSUME IInv, NEW r \in Requests, CheckoutCommit(r)
    PROVE  IInv'
<1> DEFINE i == req[r].invoice
<1>0. /\ TypeOK /\ Move(r, Idle)
      /\ UNCHANGED <<plan, allowance, scansUsed, credit, planCharges, asset, lock, now>>
      /\ req[r].pc = "capped" /\ i \in Invoices /\ req[r].quantity \in 1..MaxPerCycle
      /\ req[r].cycle \in Cycles /\ invoice[i].status = "absent"
  BY Domains DEF IInv, InvoiceInv, CheckoutCommit, ledger, scans, RequestState
<1>1. /\ req' \in [Requests -> RequestState]
      /\ \A q \in Requests : req'[q] = IF q = r THEN Idle ELSE req[q]
      /\ UsageInv' /\ PlanScansBounded'
  BY <1>0, Ended
<1>2. CASE invoice' = invoice
  <2>1. TypeOK'
    BY <1>0, <1>1, <1>2 DEF TypeOK
  <2>2. PickedInv' /\ RefsInv'
    BY <1>0, <1>1, IdleFits DEF IInv, PickedInv, RefsInv, Rows, Spent
  <2>4. MintedOnce' /\ RefundedIsSpent'
    BY <1>0, <1>2 DEF IInv, MintedOnce, RefundedIsSpent, CreditsOf, Rows
  <2>3. InvoiceInv'
    <3>1. InvoiceInv /\ Rows' = Rows /\ \A k \in Rows : credit'[k].invoice = credit[k].invoice
      BY <1>0 DEF IInv, Rows
    <3> QED
      BY <1>1, <1>2, <3>1, OthersInvoices
  <2> QED
    BY <1>1, <2>1, <2>2, <2>3, <2>4 DEF IInv
<1>3. CASE invoice' = [invoice EXCEPT ![i] = [status |-> "pending",
                          quantity |-> req[r].quantity, cycle |-> req[r].cycle]]
  <2> DEFINE row == [status |-> "pending", quantity |-> req[r].quantity,
                     cycle |-> req[r].cycle]
  <2>1. /\ row \in InvoiceRow /\ row.status = "pending" /\ row.quantity # 0
    BY <1>0, QuotaAssumption DEF InvoiceRow
  <2>2. \A j \in Invoices : invoice'[j] = IF j = i THEN row ELSE invoice[j]
    BY <1>0, <1>3 DEF TypeOK
  <2>3. invoice' \in [Invoices -> InvoiceRow]
    BY <1>0, <1>3, <2>1 DEF TypeOK
  <2> HIDE DEF row
  <2>4. TypeOK'
    BY <1>0, <1>1, <2>3 DEF TypeOK
  <2>5. PickedInv' /\ RefsInv'
    BY <1>0, <1>1, IdleFits DEF IInv, PickedInv, RefsInv, Rows, Spent
  <2>6. \A k \in Rows : credit[k].invoice # i
    BY <1>0 DEF IInv, InvoiceInv
  <2>7. MintedOnce' /\ RefundedIsSpent'
    <3>1. Rows' = Rows /\ \A j : CreditsOf(j)' = CreditsOf(j)
      BY <1>0 DEF Rows, CreditsOf
    <3>2. CreditsOf(i) = {}
      BY <2>6 DEF CreditsOf
    <3> HIDE DEF i
    <3>3. MintedOnce'
      BY <2>1, <2>2, <3>1, <3>2 DEF IInv, MintedOnce
    <3>4. RefundedIsSpent'
      BY <1>0, <2>1, <2>2, <3>1 DEF IInv, RefundedIsSpent
    <3> QED
      BY <3>3, <3>4
  <2>8. \A q \in Requests : q # r => req[q].invoice # i
    BY <1>0 DEF IInv, InvoiceInv
  <2> HIDE DEF i
  <2>9. InvoiceInv'
    BY <1>0, <1>1, <2>1, <2>2, <2>8, IdleFits, QuotaAssumption DEF IInv, InvoiceInv, Rows
  <2> QED
    BY <1>1, <2>4, <2>5, <2>7, <2>9 DEF IInv
<1> QED
  BY <1>2, <1>3 DEF CheckoutCommit

\* Writes of a status other than "refunded" to an invoice that exists keep what is known of
\* Credits and invoices.
LEMMA CloseCommitOK ==
    ASSUME IInv, NEW r \in Requests, CloseCommit(r)
    PROVE  IInv'
<1> DEFINE i == req[r].invoice
<1>0. /\ TypeOK /\ Move(r, Idle)
      /\ UNCHANGED <<plan, allowance, scansUsed, credit, planCharges, asset, lock, now>>
      /\ i \in Invoices /\ invoice[i].status # "absent"
  BY DEF IInv, InvoiceInv, CloseCommit, ledger, scans
<1>1. /\ req' \in [Requests -> RequestState]
      /\ \A q \in Requests : req'[q] = IF q = r THEN Idle ELSE req[q]
      /\ UsageInv' /\ PlanScansBounded'
  BY <1>0, Ended
<1>2. /\ invoice' \in [Invoices -> InvoiceRow]
      /\ \A j \in Invoices : /\ invoice'[j].quantity = invoice[j].quantity
                             /\ invoice'[j].status = IF j = i THEN "closed" ELSE invoice[j].status
  BY <1>0 DEF CloseCommit, TypeOK, InvoiceRow
<1>3. TypeOK'
  BY <1>0, <1>1, <1>2 DEF TypeOK
<1>4. PickedInv' /\ RefsInv'
  BY <1>0, <1>1, IdleFits DEF IInv, PickedInv, RefsInv, Rows, Spent
<1> HIDE DEF i
<1>5. MintedOnce' /\ RefundedIsSpent'
  <2>1. /\ Rows' = Rows
        /\ \A j : {k \in Rows' : credit'[k].invoice = j} = {k \in Rows : credit[k].invoice = j}
    BY <1>0 DEF Rows
  <2>2. MintedOnce'
    BY <1>2, <2>1 DEF IInv, MintedOnce, CreditsOf
  <2>3. RefundedIsSpent'
    BY <1>0, <1>2, <2>1 DEF IInv, RefundedIsSpent
  <2> QED
    BY <2>2, <2>3
<1>6. InvoiceInv'
  BY <1>0, <1>1, <1>2, IdleFits, QuotaAssumption DEF IInv, InvoiceInv, Rows
<1> QED
  BY <1>1, <1>3, <1>4, <1>5, <1>6 DEF IInv

\* Available Credits that nobody holds are written to a final status.
LEMMA WrittenRows ==
    ASSUME TypeOK, NEW ks, ks \subseteq Rows, NEW status \in {"expired", "revoked"},
           \A k \in ks : Available(k), credit' = Updated(ks, status)
    PROVE  /\ credit' \in Seq(CreditRow) /\ Rows' = Rows
           /\ \A k \in Rows :
                 /\ credit'[k].invoice = credit[k].invoice /\ credit'[k].ref = credit[k].ref
                 /\ credit'[k].status = IF k \in ks THEN status ELSE credit[k].status
                 /\ credit[k].status # "available" => credit'[k] = credit[k]
<1>1. /\ Len(credit) \in Nat /\ \A k \in Rows : credit[k] \in CreditRow
  BY Domains
<1>2. credit' = [k \in 1..Len(credit) |->
                    IF k \in ks THEN [credit[k] EXCEPT !.status = status] ELSE credit[k]]
  BY DEF Updated, Rows
<1>3. \A k \in 1..Len(credit) : [credit[k] EXCEPT !.status = status] \in CreditRow
  BY <1>1 DEF CreditRow, Rows
<1>4. credit' \in [1..Len(credit) -> CreditRow]
  BY <1>1, <1>2, <1>3 DEF Rows
<1>5. credit' \in Seq(CreditRow) /\ Len(credit') = Len(credit)
  BY <1>1, <1>4
<1>6. \A k \in Rows :
         /\ credit'[k].invoice = credit[k].invoice /\ credit'[k].ref = credit[k].ref
         /\ credit'[k].status = IF k \in ks THEN status ELSE credit[k].status
  BY <1>1, <1>2 DEF Rows, CreditRow
<1>7. \A k \in Rows : credit[k].status # "available" => credit'[k] = credit[k]
  BY <1>2 DEF Rows, Available
<1> QED
  BY <1>5, <1>6, <1>7 DEF Rows

\* A picked Credit is never among them, and no reference is touched.
LEMMA WrittenOK ==
    ASSUME IInv, NEW ks, ks \subseteq Rows, NEW status \in {"expired", "revoked"},
           \A k \in ks : Available(k) /\ CreditFree(k), credit' = Updated(ks, status),
           \A q \in Requests : req'[q] = req[q] \/ req'[q] = Idle
    PROVE  RefsInv' /\ PickedInv'
<1>1. /\ Rows' = Rows
      /\ \A k \in Rows :
            /\ credit'[k].ref = credit[k].ref
            /\ credit'[k].status = IF k \in ks THEN status ELSE credit[k].status
  BY WrittenRows DEF IInv
<1>2. RefsInv'
  BY <1>1 DEF IInv, RefsInv
<1>3. \A q \in Requests : req[q].credit # 0 => req[q].credit \notin ks
  BY DEF IInv, PickedInv, CreditFree
<1>4. \A q \in Requests :
        /\ req'[q].credit # 0 =>
              /\ req'[q].pc \in {"spend", "commit"} /\ req'[q].credit \in Rows
              /\ credit'[req'[q].credit].status = "available"
        /\ req'[q].pc = "spend" \/ req'[q].charge = "credit" => req'[q].credit # 0
  BY <1>1, <1>3, IdleFits DEF IInv, PickedInv
<1>5. \A q \in Requests : req'[q].charge = "credit" =>
        ~\E k \in Rows : credit'[k].ref = req'[q].ref
  BY <1>1, IdleFits DEF IInv, PickedInv, Spent
<1>6. \A p, q \in Requests :
        /\ req'[p].credit = req'[q].credit /\ req'[p].credit # 0 => p = q
        /\ req'[p].charge = "credit" /\ req'[q].charge = "credit" /\ req'[p].ref = req'[q].ref
              => p = q
  BY IdleFits DEF IInv, PickedInv
<1>7. PickedInv'
  BY <1>1, <1>4, <1>5, <1>6 DEF PickedInv, Spent
<1> QED
  BY <1>2, <1>7

LEMMA ExpireDueOK ==
    ASSUME IInv, ExpireDue
    PROVE  IInv'
<1> DEFINE ks == {k \in Rows : Available(k) /\ credit[k].expires <= now}
<1>1. /\ TypeOK /\ ks \subseteq Rows /\ \A k \in ks : Available(k) /\ CreditFree(k)
      /\ credit' = Updated(ks, "expired")
      /\ UNCHANGED <<plan, allowance, scansUsed, planCharges, invoice, asset, lock, now, req>>
  BY DEF IInv, ExpireDue, scans
<1> HIDE DEF ks
<1>2. /\ credit' \in Seq(CreditRow) /\ Rows' = Rows
      /\ \A k \in Rows :
            /\ credit'[k].invoice = credit[k].invoice
            /\ credit[k].status # "available" => credit'[k].status # "available"
  BY <1>1, WrittenRows
<1>3. RefsInv' /\ PickedInv'
  BY <1>1, WrittenOK
<1>4. TypeOK'
  BY <1>1, <1>2 DEF TypeOK
<1>5. UsageInv' /\ PlanScansBounded'
  BY <1>1 DEF IInv, UsageInv, UsageHeld, PlanScansBounded
<1>6. InvoiceInv'
  BY <1>1, <1>2 DEF IInv, InvoiceInv
<1>7. MintedOnce' /\ RefundedIsSpent'
  <2>1. \A j : {k \in Rows' : credit'[k].invoice = j} = {k \in Rows : credit[k].invoice = j}
    BY <1>2
  <2>2. MintedOnce'
    BY <1>1, <2>1 DEF IInv, MintedOnce, CreditsOf
  <2>3. RefundedIsSpent'
    BY <1>1, <1>2 DEF IInv, RefundedIsSpent
  <2> QED
    BY <2>2, <2>3
<1> QED
  BY <1>3, <1>4, <1>5, <1>6, <1>7 DEF IInv

\* A refund revokes what is left of its Credits; the rest was used, expired or revoked.
LEMMA RefundCommitOK ==
    ASSUME IInv, NEW r \in Requests, RefundCommit(r)
    PROVE  IInv'
<1> DEFINE i == req[r].invoice
           ks == {k \in CreditsOf(i) : Available(k)}
<1>1. /\ TypeOK /\ Move(r, Idle) /\ ks \subseteq Rows
      /\ \A k \in ks : Available(k) /\ CreditFree(k)
      /\ credit' = Updated(ks, "revoked")
      /\ invoice' = [invoice EXCEPT ![i].status = "refunded"]
      /\ UNCHANGED <<plan, allowance, scansUsed, planCharges, asset, lock, now>>
  BY DEF IInv, RefundCommit, scans, CreditsOf
<1>2. /\ i \in Invoices /\ invoice[i].status # "absent"
      /\ \E k \in Rows : credit[k].invoice = i
  BY DEF IInv, InvoiceInv, RefundCommit
<1>3. \A k \in Rows : k \in ks <=> credit[k].invoice = i /\ credit[k].status = "available"
  BY DEF CreditsOf, Available
<1>4. /\ req' \in [Requests -> RequestState]
      /\ \A q \in Requests : req'[q] = IF q = r THEN Idle ELSE req[q]
      /\ UsageInv' /\ PlanScansBounded'
  BY <1>1, Ended
<1> HIDE DEF ks
<1>5. /\ credit' \in Seq(CreditRow) /\ Rows' = Rows
      /\ \A k \in Rows :
            /\ credit'[k].invoice = credit[k].invoice
            /\ credit'[k].status = IF k \in ks THEN "revoked" ELSE credit[k].status
  BY <1>1, WrittenRows
<1>6. RefsInv' /\ PickedInv'
  BY <1>1, <1>4, WrittenOK
<1>7. /\ invoice' \in [Invoices -> InvoiceRow]
      /\ \A j \in Invoices : /\ invoice'[j].quantity = invoice[j].quantity
                             /\ invoice'[j].status = IF j = i THEN "refunded" ELSE invoice[j].status
  BY <1>1, <1>2 DEF TypeOK, InvoiceRow
<1> HIDE DEF i
<1>8. TypeOK'
  BY <1>1, <1>4, <1>5, <1>7 DEF TypeOK
<1>9. InvoiceInv'
  BY <1>2, <1>4, <1>5, <1>7, IdleFits, QuotaAssumption DEF IInv, InvoiceInv
<1>10. MintedOnce' /\ RefundedIsSpent'
  <2>1. \A j : {k \in Rows' : credit'[k].invoice = j} = {k \in Rows : credit[k].invoice = j}
    BY <1>5
  <2>2. {k \in Rows : credit[k].invoice = i} # {}
    BY <1>2
  <2>3. MintedOnce'
    <3>1. ASSUME NEW j \in Invoices
          PROVE  LET of == {k \in Rows' : credit'[k].invoice = j}
                 IN  /\ of # {} => Cardinality(of) = invoice'[j].quantity
                     /\ invoice'[j].status \in {"paid", "refunded"} => of # {}
      <4> DEFINE of == {k \in Rows' : credit'[k].invoice = j}
                 before == {k \in Rows : credit[k].invoice = j}
      <4>1. of = before /\ (j = i => before # {})
        BY <2>1, <2>2
      <4>2. /\ before # {} => Cardinality(before) = invoice[j].quantity
            /\ invoice[j].status \in {"paid", "refunded"} => before # {}
        BY DEF IInv, MintedOnce, CreditsOf
      <4> HIDE DEF of, before
      <4>3. /\ of # {} => Cardinality(of) = invoice'[j].quantity
            /\ invoice'[j].status \in {"paid", "refunded"} => of # {}
        BY <1>7, <4>1, <4>2
      <4> QED
        BY <4>3 DEF of
    <3> QED
      BY <3>1 DEF MintedOnce, CreditsOf
  <2>4. RefundedIsSpent'
    BY <1>3, <1>5, <1>7 DEF IInv, RefundedIsSpent
  <2> QED
    BY <2>3, <2>4
<1> QED
  BY <1>4, <1>6, <1>8, <1>9, <1>10 DEF IInv

\* What a payment mints: nothing when the invoice has Credits, else its quantity at the end.
LEMMA MintedRows ==
    ASSUME TypeOK, NEW i \in Invoices, credit' = credit \o Minted(i)
    PROVE  LET n == IF \E k \in Rows : credit[k].invoice = i THEN 0 ELSE invoice[i].quantity
           IN  /\ credit' \in Seq(CreditRow)
               /\ Len(credit') = Len(credit) + n
               /\ \A k \in Rows : credit'[k] = credit[k]
               /\ \A k \in Len(credit) + 1 .. Len(credit) + n :
                     /\ credit'[k].invoice = i /\ credit'[k].status = "available"
                     /\ credit'[k].ref = None
<1>1. /\ Len(credit) \in Nat /\ invoice[i].quantity \in Nat /\ now + Validity \in Nat
      /\ credit \in Seq(CreditRow)
  BY Domains, QuotaAssumption DEF TypeOK
<1>2. CASE \E k \in Rows : credit[k].invoice = i
  <2>1. Minted(i) = <<>>
    BY <1>2 DEF Minted, CreditsOf
  <2>2. credit' = credit
    BY <1>1, <2>1
  <2> QED
    BY <1>1, <1>2, <2>2
<1>3. CASE ~\E k \in Rows : credit[k].invoice = i
  <2> DEFINE row == [invoice |-> i, status |-> "available", expires |-> now + Validity,
                     ref |-> None]
             n == invoice[i].quantity
             new == [k \in 1..n |-> row]
  <2>1. Minted(i) = new
    BY <1>3 DEF Minted, CreditsOf
  <2>2. /\ row \in CreditRow /\ row.invoice = i /\ row.status = "available"
        /\ row.ref = None
    BY <1>1 DEF CreditRow
  <2> HIDE DEF row
  <2>3. n \in Nat
    BY <1>1
  <2> HIDE DEF n
  <2>4. new \in Seq(CreditRow) /\ Len(new) = n /\ \A k \in 1..n : new[k] = row
    BY <2>2, <2>3
  <2> HIDE DEF new
  <2>5. /\ credit' \in Seq(CreditRow) /\ Len(credit') = Len(credit) + n
        /\ \A k \in Rows : credit'[k] = credit[k]
        /\ \A k \in Len(credit) + 1 .. Len(credit) + n : credit'[k] = row
    <3>1. credit' = credit \o new
      BY <2>1
    <3>2. credit' \in Seq(CreditRow) /\ Len(credit') = Len(credit) + n
      <4>1. /\ credit \o new \in Seq(CreditRow)
            /\ Len(credit \o new) = Len(credit) + Len(new)
        BY <1>1, <2>4, ConcatProperties
      <4> QED
        BY <2>4, <3>1, <4>1
    <3>3. \A k \in Rows : credit'[k] = credit[k]
      BY <1>1, <2>3, <2>4, <3>1 DEF Rows
    <3>4. ASSUME NEW k \in Len(credit) + 1 .. Len(credit) + n PROVE credit'[k] = row
      <4>1. credit'[k] = new[k - Len(credit)] /\ k - Len(credit) \in 1..n
        BY <1>1, <2>3, <2>4, <3>1
      <4> QED
        BY <2>4, <4>1
    <3> QED
      BY <3>2, <3>3, <3>4
  <2> QED
    BY <1>3, <2>2, <2>5 DEF n
<1> QED
  BY <1>2, <1>3

\* A payment mints once, whatever closed or refunded the invoice in the meantime.
LEMMA MintCommitOK ==
    ASSUME IInv, NEW r \in Requests, MintCommit(r)
    PROVE  IInv'
<1> DEFINE i == req[r].invoice
           q == invoice[i].quantity
           n == IF \E k \in Rows : credit[k].invoice = i THEN 0 ELSE q
           L == Len(credit)
<1>1. /\ TypeOK /\ Move(r, Idle)
      /\ credit' = credit \o Minted(i)
      /\ invoice' = [invoice EXCEPT ![i].status = "paid"]
      /\ UNCHANGED <<plan, allowance, scansUsed, planCharges, asset, lock, now>>
  BY DEF IInv, MintCommit, scans
<1>2. i \in Invoices /\ invoice[i].status # "absent" /\ q # 0 /\ q \in Nat /\ L \in Nat
  BY <1>1, Domains DEF IInv, InvoiceInv, MintCommit
<1>3. /\ req' \in [Requests -> RequestState]
      /\ \A p \in Requests : req'[p] = IF p = r THEN Idle ELSE req[p]
      /\ UsageInv' /\ PlanScansBounded'
  BY <1>1, Ended
<1>4. /\ credit' \in Seq(CreditRow) /\ Len(credit') = L + n
      /\ \A k \in Rows : credit'[k] = credit[k]
      /\ \A k \in L + 1 .. L + n :
            credit'[k].invoice = i /\ credit'[k].status = "available" /\ credit'[k].ref = None
  BY <1>1, <1>2, MintedRows
<1>5. n \in Nat /\ Rows = 1..L /\ Rows' = 1..(L + n) /\ Rows \subseteq Rows'
      /\ \A k \in Rows' : k \in Rows \/ k \in L + 1 .. L + n
  BY <1>2, <1>4, SMTT(20) DEF Rows
<1>6. /\ invoice' \in [Invoices -> InvoiceRow]
      /\ \A j \in Invoices : /\ invoice'[j].quantity = invoice[j].quantity
                             /\ invoice'[j].status = IF j = i THEN "paid" ELSE invoice[j].status
  BY <1>1, <1>2 DEF TypeOK, InvoiceRow
<1>7. n = 0 <=> \E k \in Rows : credit[k].invoice = i
  BY <1>2
<1>8. n # 0 => n = q
  OBVIOUS
<1> HIDE DEF i, n, L, q
<1>9. TypeOK'
  BY <1>1, <1>3, <1>4, <1>6 DEF TypeOK
<1>10. RefsInv'
  BY <1>4, <1>5 DEF IInv, RefsInv
<1>11. PickedInv'
  <2>1. \A p \in Requests :
        /\ req'[p].credit # 0 =>
              /\ req'[p].pc \in {"spend", "commit"} /\ req'[p].credit \in Rows'
              /\ credit'[req'[p].credit].status = "available"
        /\ req'[p].pc = "spend" \/ req'[p].charge = "credit" => req'[p].credit # 0
    BY <1>3, <1>4, <1>5, IdleFits DEF IInv, PickedInv
  <2>2. ASSUME NEW p \in Requests, req'[p].charge = "credit"
        PROVE  \A k \in Rows' : credit'[k].ref # req'[p].ref
    <3>1. /\ req'[p] = req[p] /\ req[p].charge = "credit"
      BY <1>3, <2>2, IdleFits
    <3>2. \A k \in Rows : credit[k].ref # req[p].ref
      BY <3>1 DEF IInv, PickedInv, Spent
    <3>3. req[p].ref # None
      BY <3>1, <3>2 DEF IInv, PickedInv, RefsInv
    <3> QED
      BY <1>4, <1>5, <3>1, <3>2, <3>3
  <2>3. \A p, o \in Requests :
        /\ req'[p].credit = req'[o].credit /\ req'[p].credit # 0 => p = o
        /\ req'[p].charge = "credit" /\ req'[o].charge = "credit" /\ req'[p].ref = req'[o].ref
              => p = o
    BY <1>3, IdleFits DEF IInv, PickedInv
  <2> QED
    BY <2>1, <2>2, <2>3 DEF PickedInv, Spent
<1>12. InvoiceInv'
  <2>1. \A j \in Invoices :
        /\ invoice'[j].status = "absent" => \A k \in Rows' : credit'[k].invoice # j
        /\ invoice'[j].status # "absent" <=> invoice'[j].quantity # 0
    BY <1>2, <1>4, <1>5, <1>6 DEF IInv, InvoiceInv
  <2>2. \A p \in Requests :
        /\ req'[p].pc = "capped" =>
              /\ req'[p].invoice \in Invoices /\ req'[p].quantity \in 1..MaxPerCycle
              /\ invoice'[req'[p].invoice].status = "absent"
        /\ req'[p].pc \in {"close", "pay", "mint", "refund", "revoke"} =>
              req'[p].invoice \in Invoices /\ invoice'[req'[p].invoice].status # "absent"
    BY <1>2, <1>3, <1>6, IdleFits DEF IInv, InvoiceInv
  <2>3. \A p \in Requests : req'[p].pc \in {"refund", "revoke"} =>
              \E k \in Rows' : credit'[k].invoice = req'[p].invoice
    BY <1>3, <1>4, <1>5, IdleFits DEF IInv, InvoiceInv
  <2>4. \A p, o \in Requests :
        req'[p].pc = "capped" /\ req'[p].invoice = req'[o].invoice => p = o
    BY <1>3, IdleFits, QuotaAssumption DEF IInv, InvoiceInv
  <2> QED
    BY <2>1, <2>2, <2>3, <2>4 DEF InvoiceInv
<1>13. MintedOnce'
  <2>1. ASSUME NEW j \in Invoices
        PROVE  LET of == {k \in Rows' : credit'[k].invoice = j}
               IN  /\ of # {} => Cardinality(of) = invoice'[j].quantity
                   /\ invoice'[j].status \in {"paid", "refunded"} => of # {}
    <3> DEFINE of == {k \in Rows' : credit'[k].invoice = j}
               before == {k \in Rows : credit[k].invoice = j}
    <3>1. /\ before # {} => Cardinality(before) = invoice[j].quantity
          /\ invoice[j].status \in {"paid", "refunded"} => before # {}
      BY DEF IInv, MintedOnce, CreditsOf
    <3>2. CASE j = i /\ n # 0
      <4>1. of = L + 1 .. L + n
        BY <1>2, <1>4, <1>5, <1>7, <3>2
      <4>2. Cardinality(L + 1 .. L + n) = n
        <5>1. /\ L + 1 \in Int /\ L + n \in Int
              /\ ~(L + 1 > L + n) /\ (L + n) - (L + 1) + 1 = n
          BY <1>2, <1>5, <3>2
        <5>2. \A a, b \in Int : Cardinality(a..b) = IF a > b THEN 0 ELSE b - a + 1
          BY FS_Interval
        <5> QED
          BY <5>1, <5>2
      <4>3. of # {}
        <5>1. L + 1 \in L + 1 .. L + n
          BY <1>2, <1>5, <3>2
        <5> QED
          BY <4>1, <5>1
      <4> QED
        BY <1>6, <1>8, <3>2, <4>1, <4>2, <4>3 DEF q
    <3>3. CASE ~(j = i /\ n # 0)
      <4>1. of = before
        BY <1>2, <1>4, <1>5, <3>3
      <4>2. j = i => before # {}
        BY <1>7, <3>3
      <4> HIDE DEF of, before
      <4>3. /\ of # {} => Cardinality(of) = invoice'[j].quantity
            /\ invoice'[j].status \in {"paid", "refunded"} => of # {}
        BY <1>6, <3>1, <4>1, <4>2
      <4> QED
        BY <4>3 DEF of
    <3> QED
      BY <3>2, <3>3
  <2> QED
    BY <2>1 DEF MintedOnce, CreditsOf
<1>14. RefundedIsSpent'
  BY <1>4, <1>5, <1>6 DEF IInv, RefundedIsSpent
<1> QED
  BY <1>3, <1>9, <1>10, <1>11, <1>12, <1>13, <1>14 DEF IInv

-----------------------------------------------------------------------------
(* The theorems.                                                            *)

LEMMA NextOK == IInv /\ [Next]_vars => IInv'
<1> SUFFICES ASSUME IInv, [Next]_vars PROVE IInv'
  OBVIOUS
<1>1. ASSUME NEW r \in Requests, Scan(r) \/ Consume(r) PROVE IInv'
  BY <1>1, ScanOK, ChargeOK, ChargeCommitOK DEF Consume
<1>2. ASSUME NEW r \in Requests, Buy(r) PROVE IInv'
  BY <1>2, BuyOK, CheckoutCommitOK, CloseCommitOK, MintCommitOK, RefundCommitOK DEF Buy
<1>3. CASE UNCHANGED vars
  <2>1. UNCHANGED <<plan, allowance, scansUsed, invoice, credit, asset, lock, planCharges,
                 now, req>>
    BY <1>3 DEF vars
  <2> QED
    <3>1. TypeOK' /\ UsageInv' /\ PlanScansBounded'
      BY <2>1 DEF IInv, TypeOK, UsageInv, UsageHeld, PlanScansBounded
    <3>2. RefsInv' /\ PickedInv' /\ InvoiceInv'
      BY <2>1 DEF IInv, RefsInv, PickedInv, InvoiceInv, Rows, Spent
    <3>3. MintedOnce' /\ RefundedIsSpent'
      BY <2>1 DEF IInv, MintedOnce, RefundedIsSpent, CreditsOf, Rows
    <3> QED
      BY <3>1, <3>2, <3>3 DEF IInv
<1>4. ASSUME Next PROVE IInv'
  BY <1>1, <1>2, <1>4, AbortOK, AroundOK, ExpireDueOK DEF Next
<1> QED
  BY <1>3, <1>4

\* What the bounds of a cycle, the references and the invoices rest on holds in every state.
THEOREM QuotaInvariant == Spec => []IInv
BY InitOK, NextOK, PTL DEF Spec

\* The plan pays for no more scans in a cycle than it has, however many charges run at once.
THEOREM PlanNeverOverdrawn == Spec => []PlanScansBounded
<1>1. IInv => PlanScansBounded
  BY DEF IInv
<1> QED
  BY <1>1, QuotaInvariant, PTL

\* The Credits of a reference are one at most.
LEMMA OneCredit ==
    ASSUME IInv, NEW f \in References
    PROVE  LET S == {k \in Rows : credit[k].ref = f}
           IN  Cardinality(S) = 0 \/ (Cardinality(S) = 1 /\ Spent(f))
<1> DEFINE S == {k \in Rows : credit[k].ref = f}
<1>1. f # None
  BY QuotaAssumption DEF References
<1>2. \A k, l \in S : k = l
  BY <1>1 DEF IInv, RefsInv
<1>3. S = {} \/ \E k \in S : S = {k}
  BY <1>2
<1>4. S # {} => Spent(f)
  BY DEF Spent
<1> QED
  BY <1>3, <1>4, FS_EmptySet, FS_Singleton

\* A reference spends at most one Credit, however many requests carry it.
THEOREM CreditSpentOnce == Spec => []OneCreditPerReference
<1>1. ASSUME IInv, NEW f \in References
      PROVE  Cardinality({k \in Rows : credit[k].ref = f}) <= 1
  BY <1>1, OneCredit
<1>2. IInv => OneCreditPerReference
  BY <1>1 DEF OneCreditPerReference
<1> QED
  BY <1>2, QuotaInvariant, PTL

\* A payment mints the Credits it paid for, once, though webhooks repeat and race a close or
\* a refund.
THEOREM PaymentMintsOnce == Spec => []MintedOnce
<1>1. IInv => MintedOnce
  BY DEF IInv
<1> QED
  BY <1>1, QuotaInvariant, PTL

\* A refund leaves no Credit of its invoice to spend.
THEOREM NothingLeftToSpend == Spec => []RefundedIsSpent
<1>1. IInv => RefundedIsSpent
  BY DEF IInv
<1> QED
  BY <1>1, QuotaInvariant, PTL

\* A Credit that is used, expired or revoked is never written again: a charge writes the one
\* it holds, which is available, and a refund and the expiry wait for it.
THEOREM CreditsMoveForward == Spec => CreditMovesForward
<1> DEFINE Forward == \A k \in Rows : credit[k].status # "available" => credit'[k] = credit[k]
<1>1. ASSUME IInv, [Next]_vars PROVE Forward
  <2>0. TypeOK
    BY <1>1 DEF IInv
  <2>1. CASE UNCHANGED credit
    BY <2>1
  <2>2. ASSUME NEW r \in Requests, ChargeCommit(r), req[r].charge = "credit" PROVE Forward
    <3> DEFINE k == req[r].credit
               row == [credit[k] EXCEPT !.status = "used", !.ref = req[r].ref]
    <3>1. credit' = [credit EXCEPT ![k] = row]
      BY <2>2 DEF ChargeCommit
    <3>2. k \in Rows /\ credit[k].status = "available"
      BY <1>1, <2>2 DEF IInv, PickedInv
    <3> HIDE DEF k, row
    <3> QED
      BY <2>0, <3>1, <3>2 DEF TypeOK, Rows
  <2>3. ASSUME NEW r \in Requests, RefundCommit(r) PROVE Forward
    <3> DEFINE ks == {k \in CreditsOf(req[r].invoice) : Available(k)}
    <3>1. ks \subseteq Rows /\ (\A k \in ks : Available(k)) /\ credit' = Updated(ks, "revoked")
      BY <2>3 DEF RefundCommit, CreditsOf
    <3> HIDE DEF ks
    <3> QED
      BY <2>0, <3>1, WrittenRows
  <2>4. CASE ExpireDue
    <3> DEFINE ks == {k \in Rows : Available(k) /\ credit[k].expires <= now}
    <3>1. ks \subseteq Rows /\ (\A k \in ks : Available(k)) /\ credit' = Updated(ks, "expired")
      BY <2>4 DEF ExpireDue
    <3> HIDE DEF ks
    <3> QED
      BY <2>0, <3>1, WrittenRows
  <2>5. ASSUME NEW r \in Requests, MintCommit(r) PROVE Forward
    <3>1. req[r].invoice \in Invoices /\ credit' = credit \o Minted(req[r].invoice)
      BY <1>1, <2>5 DEF MintCommit, IInv, InvoiceInv
    <3> QED
      BY <2>0, <3>1, MintedRows
  <2>6. ASSUME NEW r \in Requests, ChargeCommit(r), req[r].charge # "credit"
        PROVE  UNCHANGED credit
    BY <2>6 DEF ChargeCommit
  <2>7. ASSUME NEW r \in Requests, Scan(r) \/ Abort(r) PROVE UNCHANGED credit
    BY <2>7 DEF Scan, Confirm, Call, MarkRaw, Abort, ledger
  <2>8. ASSUME NEW r \in Requests, Consume(r) PROVE UNCHANGED credit \/ ChargeCommit(r)
    BY <2>8 DEF Consume, Replay, LockUsage, Pick, Exhausted, Spend, ledger
  <2>9. ASSUME NEW r \in Requests, Buy(r)
        PROVE  UNCHANGED credit \/ MintCommit(r) \/ RefundCommit(r)
    BY <2>9 DEF Buy, Checkout, CheckoutCommit, CloseRead, CloseCommit, PaymentRead, MarkPaid,
                RefundRead, MarkRefunded, ledger
  <2>10. \/ \E s \in Scans : Accept(s) \/ LockLapse(s)
         \/ \E limit \in Limits : NewCycle(limit) \/ Upgrade(limit)
         \/ EnterGrace \/ Tick \/ UNCHANGED vars
         => UNCHANGED credit
    BY DEF Accept, LockLapse, NewCycle, Upgrade, EnterGrace, Tick, vars, ledger
  <2>11. CASE Next
    BY <2>1, <2>2, <2>3, <2>4, <2>5, <2>6, <2>7, <2>8, <2>9, <2>10, <2>11 DEF Next
  <2> QED
    BY <1>1, <2>1, <2>10, <2>11
<1>2. IInv /\ [Next]_vars => [Forward]_vars
  BY <1>1
<1> QED
  BY <1>2, QuotaInvariant, PTL DEF Spec, CreditMovesForward

-----------------------------------------------------------------------------
(* The rows change as those of ScanLedger do.                               *)

\* A step that touches no row the account sees.
LEMMA Unseen ==
    ASSUME UNCHANGED <<plan, allowance, scansUsed, invoice, credit, now>>
    PROVE  [Ledger!Next]_(Ledger!vars)
BY DEF Ledger!vars, Sold, Settled

\* A write of an invoice's status leaves what it sells.
LEMMA SettledStep ==
    ASSUME TypeOK, NEW i \in Invoices, NEW status \in {"closed", "paid", "refunded"},
           invoice' = [invoice EXCEPT ![i].status = status]
    PROVE  /\ Sold' = Sold
           /\ Settled' = [Settled EXCEPT ![i] = IF status = "closed" THEN "open" ELSE status]
<1>1. \A j \in Invoices :
        /\ invoice'[j].quantity = invoice[j].quantity
        /\ invoice'[j].status = IF j = i THEN status ELSE invoice[j].status
  BY DEF TypeOK, InvoiceRow
<1> QED
  BY <1>1 DEF Sold, Settled

\* An invoice that has been created sells something.
LEMMA SellsOne ==
    ASSUME IInv, NEW i \in Invoices
    PROVE  /\ invoice[i].status # "absent" => Sold[i] # 0
           /\ Ledger!CreditsOf(i) = CreditsOf(i)
BY DEF IInv, InvoiceInv, Sold, Ledger!CreditsOf, CreditsOf, Ledger!Rows, Rows

LEMMA LedgerInitial == Init => Ledger!Init
<1> SUFFICES ASSUME Init PROVE Ledger!Init
  OBVIOUS
<1>1. /\ plan.cycle = 1
      /\ allowance = [c \in Ledger!Cycles |-> 0] /\ scansUsed = [c \in Ledger!Cycles |-> 0]
      /\ credit = <<>> /\ now = 0
  BY DEF Init, FreePlan, Cycles, Ledger!Cycles
<1>2. Sold = [i \in Invoices |-> 0] /\ Settled = [i \in Invoices |-> "open"]
  BY DEF Init, Sold, Settled
<1> QED
  BY <1>1, <1>2 DEF Ledger!Init

\* A charge takes a plan scan that was left, a Credit that was, or nothing.
LEMMA ChargeSeen ==
    ASSUME IInv, NEW r \in Requests, ChargeCommit(r)
    PROVE  [Ledger!Next]_(Ledger!vars)
<1> DEFINE f == req[r].ref
           k == req[r].credit
           c == req[r].cycle
<1>1. /\ TypeOK /\ req[r] \in RequestState /\ UNCHANGED <<plan, allowance, invoice, now>>
      /\ UsageFits(r, req[r]) /\ PickFits(r, req[r])
  BY FitsNow, Domains DEF IInv, ChargeCommit
<1>2. Sold' = Sold /\ Settled' = Settled
  BY <1>1 DEF Sold, Settled
<1>3. CASE req[r].charge = "plan"
  <2>1. /\ c \in Cycles /\ c <= plan.cycle /\ scansUsed[c] < req[r].limit
        /\ req[r].limit <= allowance[c]
    BY <1>1, <1>3 DEF UsageFits, RequestState
  <2>2. scansUsed[c] < allowance[c]
    <3>1. scansUsed[c] \in Nat /\ req[r].limit \in Nat /\ allowance[c] \in Nat
      BY <1>1, <2>1, Domains DEF TypeOK
    <3> QED
      BY <2>1, <3>1
  <2>3. scansUsed' = [scansUsed EXCEPT ![c] = scansUsed[c] + 1] /\ credit' = credit
    BY <1>3 DEF ChargeCommit
  <2>4. Ledger!TakePlanScan(c)
    BY <1>1, <1>2, <2>1, <2>2, <2>3 DEF Ledger!TakePlanScan
  <2> QED
    BY <2>1, <2>4 DEF Ledger!Next, Cycles, Ledger!Cycles
<1>4. CASE req[r].charge = "credit"
  <2>1. k \in Rows /\ credit[k].status = "available" /\ ~Spent(f)
    BY <1>1, <1>4 DEF PickFits
  <2>2. f \in References
    <3>1. f # None
      BY <2>1 DEF IInv, RefsInv, Spent
    <3> QED
      BY <1>1, <3>1 DEF RequestState
  <2>3. scansUsed' = scansUsed
    <3>1. scansUsed' = [scansUsed EXCEPT ![c] = scansUsed[c]]
      BY <1>4 DEF ChargeCommit
    <3> QED
      BY <1>1, <3>1 DEF TypeOK
  <2>4. credit' = [credit EXCEPT ![k].status = "used", ![k].ref = f]
    BY <1>4 DEF ChargeCommit
  <2>5. Ledger!TakeCredit(k, f)
    BY <1>1, <1>2, <2>1, <2>3, <2>4
       DEF Ledger!TakeCredit, Ledger!Left, Ledger!Rows, Rows, Spent, Ledger!plan
  <2> QED
    BY <2>1, <2>2, <2>5 DEF Ledger!Next, Rows, Ledger!Rows
<1>5. CASE req[r].charge \notin {"plan", "credit"}
  <2>1. scansUsed' = [scansUsed EXCEPT ![c] = scansUsed[c]] /\ credit' = credit
    BY <1>5 DEF ChargeCommit
  <2>2. scansUsed' = scansUsed
    BY <1>1, <2>1 DEF TypeOK
  <2> QED
    BY <1>1, <2>1, <2>2, Unseen
<1> QED
  BY <1>3, <1>4, <1>5

\* A payment mints what the invoice sells, or nothing.
LEMMA PaymentSeen ==
    ASSUME IInv, NEW r \in Requests, MintCommit(r)
    PROVE  [Ledger!Next]_(Ledger!vars)
<1> DEFINE i == req[r].invoice
<1>1. /\ TypeOK /\ i \in Invoices /\ invoice[i].status # "absent"
      /\ credit' = credit \o Minted(i)
      /\ invoice' = [invoice EXCEPT ![i].status = "paid"]
      /\ UNCHANGED <<plan, allowance, scansUsed, now>>
  BY DEF IInv, InvoiceInv, MintCommit
<1> HIDE DEF i
<1>2. Sold' = Sold /\ Settled' = [Settled EXCEPT ![i] = "paid"]
  BY <1>1, SettledStep
<1>3. Sold[i] # 0 /\ Ledger!CreditsOf(i) = CreditsOf(i) /\ Sold[i] = invoice[i].quantity
  BY <1>1, SellsOne DEF Sold
<1>4. Ledger!Pay(i)
  BY <1>1, <1>2, <1>3 DEF Ledger!Pay, Ledger!plan, Minted
<1> QED
  BY <1>1, <1>4 DEF Ledger!Next

\* A refund takes back every Credit that is left, a close none.
LEMMA SettledSeen ==
    ASSUME IInv, NEW r \in Requests, CloseCommit(r) \/ RefundCommit(r)
    PROVE  [Ledger!Next]_(Ledger!vars)
<1> DEFINE i == req[r].invoice
<1>1. /\ TypeOK /\ i \in Invoices /\ invoice[i].status # "absent"
      /\ UNCHANGED <<plan, allowance, scansUsed, now>>
  BY DEF IInv, InvoiceInv, CloseCommit, RefundCommit, ledger
<1>2. CASE CloseCommit(r)
  <2>1. invoice' = [invoice EXCEPT ![i].status = "closed"] /\ credit' = credit
    BY <1>2 DEF CloseCommit, ledger
  <2> HIDE DEF i
  <2>2. Sold' = Sold /\ Settled' = [Settled EXCEPT ![i] = "open"] /\ Sold[i] # 0
    BY <1>1, <2>1, SettledStep, SellsOne
  <2>3. Ledger!Close(i)
    BY <1>1, <2>1, <2>2 DEF Ledger!Close, Ledger!plan
  <2> QED
    BY <1>1, <2>3 DEF Ledger!Next
<1>3. CASE RefundCommit(r)
  <2> DEFINE ks == {k \in CreditsOf(i) : Available(k)}
  <2>1. /\ invoice' = [invoice EXCEPT ![i].status = "refunded"]
        /\ credit' = Updated(ks, "revoked")
        /\ \E k \in Rows : credit[k].invoice = i
    BY <1>3 DEF RefundCommit, IInv, InvoiceInv
  <2> HIDE DEF i
  <2>2. Sold' = Sold /\ Settled' = [Settled EXCEPT ![i] = "refunded"]
    BY <1>1, <2>1, SettledStep
  <2>3. /\ Ledger!CreditsOf(i) = CreditsOf(i) /\ CreditsOf(i) # {}
        /\ ks = {k \in Ledger!CreditsOf(i) : Ledger!Left(k)}
    BY <1>1, <2>1, SellsOne DEF CreditsOf, Available, Ledger!Left
  <2> HIDE DEF ks
  <2>4. Ledger!Refund(i)
    BY <1>1, <2>1, <2>2, <2>3
       DEF Ledger!Refund, Ledger!plan, Ledger!End, Updated, Rows, Ledger!Rows
  <2> QED
    BY <1>1, <2>4 DEF Ledger!Next
<1> QED
  BY <1>2, <1>3

LEMMA OfferSeen ==
    ASSUME IInv, NEW r \in Requests, CheckoutCommit(r)
    PROVE  [Ledger!Next]_(Ledger!vars)
<1> DEFINE i == req[r].invoice
           n == req[r].quantity
<1>1. /\ TypeOK /\ i \in Invoices /\ n \in 1..MaxPerCycle /\ invoice[i].status = "absent"
      /\ UNCHANGED <<plan, allowance, scansUsed, credit, now>>
  BY DEF IInv, InvoiceInv, CheckoutCommit, ledger
<1>2. CASE invoice' = invoice
  BY <1>1, <1>2, Unseen
<1>3. CASE invoice' = [invoice EXCEPT ![i] = [status |-> "pending", quantity |-> n,
                                               cycle |-> req[r].cycle]]
  <2>1. invoice[i].quantity = 0
    BY <1>1 DEF IInv, InvoiceInv
  <2>2. \A j \in Invoices :
          /\ invoice'[j].quantity = IF j = i THEN n ELSE invoice[j].quantity
          /\ invoice'[j].status = IF j = i THEN "pending" ELSE invoice[j].status
    BY <1>1, <1>3 DEF TypeOK
  <2> HIDE DEF i, n
  <2>3. Sold[i] = 0 /\ Sold' = [Sold EXCEPT ![i] = n] /\ Settled' = Settled
    BY <1>1, <2>1, <2>2 DEF Sold, Settled
  <2>4. Ledger!Offer(i, n)
    BY <1>1, <2>3 DEF Ledger!Offer, Ledger!plan
  <2> QED
    BY <1>1, <2>4 DEF Ledger!Next
<1> QED
  BY <1>2, <1>3 DEF CheckoutCommit

\* The plan, the clock and the daily expiry.
LEMMA AroundSeen ==
    ASSUME IInv, (\E limit \in Limits : NewCycle(limit) \/ Upgrade(limit)) \/ Tick \/ ExpireDue
    PROVE  [Ledger!Next]_(Ledger!vars)
<1>1. TypeOK /\ UNCHANGED <<scansUsed, invoice>> /\ Sold' = Sold /\ Settled' = Settled
  BY DEF IInv, NewCycle, Upgrade, Tick, ExpireDue, ledger, Sold, Settled
<1>2. ASSUME NEW limit \in Limits, NewCycle(limit) PROVE Ledger!StartCycle(limit)
  BY <1>1, <1>2 DEF NewCycle, Ledger!StartCycle
<1>3. ASSUME NEW limit \in Limits, Upgrade(limit) PROVE Ledger!Raise(limit)
  <2>1. /\ allowance[plan.cycle] = plan.limit /\ plan.limit < limit
        /\ plan' = [plan EXCEPT !.limit = limit]
        /\ allowance' = [allowance EXCEPT ![plan.cycle] = limit] /\ UNCHANGED <<credit, now>>
    BY <1>3 DEF IInv, UsageInv, Upgrade
  <2>2. plan'.cycle = plan.cycle
    BY <1>1, <2>1 DEF TypeOK, PlanRow
  <2> QED
    BY <1>1, <2>1, <2>2 DEF Ledger!Raise
<1>4. CASE Tick
  BY <1>1, <1>4 DEF Tick, Ledger!Tick, Ledger!plan, ledger, Ledger!Next
<1>5. CASE ExpireDue
  <2>1. Ledger!Expire
    BY <1>1, <1>5 DEF ExpireDue, Ledger!Expire, Ledger!End, Updated, Available, Ledger!Left,
                      Rows, Ledger!Rows, Ledger!plan
  <2> QED
    BY <2>1 DEF Ledger!Next
<1> QED
  BY <1>2, <1>3, <1>4, <1>5 DEF Ledger!Next

LEMMA LedgerSteps == IInv /\ [Next]_vars => [Ledger!Next]_(Ledger!vars)
<1> SUFFICES ASSUME IInv, [Next]_vars PROVE [Ledger!Next]_(Ledger!vars)
  OBVIOUS
<1> DEFINE Seen == [Ledger!Next]_(Ledger!vars)
<1>1. ASSUME NEW r \in Requests, Scan(r) \/ Abort(r) PROVE Seen
  BY <1>1, Unseen DEF Scan, Confirm, Call, MarkRaw, Abort, ledger
<1>2. ASSUME NEW r \in Requests, Consume(r) PROVE Seen
  BY <1>2, Unseen, ChargeSeen DEF Consume, Replay, LockUsage, Pick, Exhausted, Spend, ledger
<1>3. ASSUME NEW r \in Requests, Buy(r) PROVE Seen
  <2>1. UNCHANGED <<plan, ledger, invoice, now>> => Seen
    BY Unseen DEF ledger
  <2> HIDE DEF Seen
  <2>2. \/ CheckoutCommit(r) \/ CloseCommit(r) \/ MintCommit(r) \/ RefundCommit(r)
        \/ UNCHANGED <<plan, ledger, invoice, now>>
    BY <1>3 DEF Buy, Checkout, CloseRead, PaymentRead, RefundRead, MarkPaid, MarkRefunded
  <2> QED
    BY <2>1, <2>2, OfferSeen, SettledSeen, PaymentSeen DEF Seen
<1>4. ASSUME NEW s \in Scans, Accept(s) \/ LockLapse(s) PROVE Seen
  BY <1>4, Unseen DEF Accept, LockLapse, ledger
<1>5. CASE EnterGrace
  <2>1. plan'.cycle = plan.cycle
    BY <1>5 DEF EnterGrace, IInv, TypeOK, PlanRow
  <2> QED
    BY <1>5, <2>1 DEF EnterGrace, Ledger!vars, Sold, Settled, ledger
<1>6. CASE UNCHANGED vars
  BY <1>6, Unseen DEF vars
<1> QED
  BY <1>1, <1>2, <1>3, <1>4, <1>5, <1>6, AroundSeen DEF Next

\* Whatever charges, webhooks, sweeps and refunds do at the same time, and wherever they are
\* cut off, the account sees them happen one after the other, each at once.
THEOREM ImplementsLedger == Spec => ScanLedgerSpec
  BY LedgerInitial, LedgerSteps, QuotaInvariant, PTL DEF Spec, ScanLedgerSpec, Ledger!Spec

-----------------------------------------------------------------------------
(* What a second charge of a scan takes.                                    *)

\* The Credits that a reference has spent; Charged counts them.
Refs(s) == {k \in Rows : credit[k].ref = s}

\* A step that charges nothing, makes no scan raw and locks none that is raw.
LEMMA NothingCharged ==
    ASSUME ConfirmInv, planCharges' = planCharges,
           \A s \in Scans : /\ Refs(s)' = Refs(s)
                            /\ asset'[s] = "raw" <=> asset[s] = "raw"
                            /\ asset[s] = "raw" => lock'[s] \in {lock[s], None}
    PROVE  ConfirmInv' /\ \A s \in Scans : Charged(s)' = Charged(s)
<1>1. \A s \in Scans : (Refs(s) = {} <=> ~Spent(s)) /\ (Refs(s)' = {} <=> ~(Spent(s)'))
  BY DEF Refs, Spent
<1> QED
  BY <1>1 DEF ConfirmInv, Charged, Refs

\* A charge that commits makes its scan raw, and leaves the charges of the others.
LEMMA ScanCharged ==
    ASSUME IInv, ConfirmInv, NEW r \in Requests, ChargeCommit(r)
    PROVE  ConfirmInv' /\ \A s \in Scans : s # req[r].ref => Charged(s)' = Charged(s)
<1> DEFINE f == req[r].ref
           charge == req[r].charge
<1>1. TypeOK
  BY DEF IInv
<1>2. \A s \in Scans :
        /\ s # f => planCharges'[s] = planCharges[s]
        /\ asset'[s] = IF s = f THEN "raw" ELSE asset[s]
        /\ lock'[s] = IF s = f THEN None ELSE lock[s]
  BY DEF ChargeCommit
<1>3. ASSUME NEW s \in Scans, s # f PROVE Refs(s)' = Refs(s)
  <2>1. CASE charge = "credit"
    <3>1. req[r].credit \in Rows /\ credit[req[r].credit] \in CreditRow
      BY <1>1, <2>1, FitsNow, Domains DEF PickFits
    <3> DEFINE k == req[r].credit
               row == [credit[k] EXCEPT !.status = "used", !.ref = f]
    <3>2. credit' = [credit EXCEPT ![k] = row] /\ row.ref = f
      BY <2>1, <3>1 DEF ChargeCommit, CreditRow
    <3>3. credit[k].status = "available" /\ credit[k].ref = None
      BY <2>1, <3>1, FitsNow DEF PickFits, IInv, PickedInv, RefsInv
    <3>4. s # None
      BY QuotaAssumption
    <3> HIDE DEF row, k, f
    <3>5. /\ Rows' = Rows
          /\ \A l \in Rows : credit'[l] = IF l = k THEN row ELSE credit[l]
      BY <1>1, <3>1, <3>2 DEF TypeOK, Rows
    <3>6. \A l \in Rows : credit'[l].ref = s <=> credit[l].ref = s
      BY <1>3, <3>2, <3>3, <3>4, <3>5
    <3> QED
      BY <3>5, <3>6 DEF Refs
  <2>2. CASE charge # "credit"
    BY <2>2 DEF ChargeCommit, Refs, Rows
  <2> QED
    BY <2>1, <2>2
<1> HIDE DEF f, charge
<1>4. \A s \in Scans : (Refs(s) = {} <=> ~Spent(s)) /\ (Refs(s)' = {} <=> ~(Spent(s)'))
  BY DEF Refs, Spent
<1>5. ConfirmInv'
  BY <1>2, <1>3, <1>4 DEF ConfirmInv
<1>6. \A s \in Scans : s # f => Charged(s)' = Charged(s)
  BY <1>2, <1>3 DEF Charged, Refs
<1> QED
  BY <1>5, <1>6 DEF f

\* Every other step leaves the charges of every scan.
LEMMA OthersChargeNothing ==
    ASSUME IInv, ConfirmInv, [Next]_vars, \A r \in Requests : ~ChargeCommit(r)
    PROVE  ConfirmInv' /\ \A s \in Scans : Charged(s)' = Charged(s)
<1> DEFINE Kept == ConfirmInv' /\ \A s \in Scans : Charged(s)' = Charged(s)
<1>0. TypeOK
  BY DEF IInv
<1>a. ASSUME UNCHANGED <<credit, asset, planCharges>>,
             \A s \in Scans : asset[s] = "raw" => lock'[s] \in {lock[s], None}
      PROVE  Kept
  <2>1. \A s \in Scans : Refs(s)' = Refs(s)
    BY <1>a DEF Refs, Rows
  <2> QED
    BY <1>a, <2>1, NothingCharged
<1>1. ASSUME NEW r \in Requests, Scan(r) PROVE Kept
  <2>1. ASSUME NEW s \in Scans, Confirm(r, s) PROVE Kept
    BY <1>0, <1>a, <2>1 DEF Confirm, ledger, TypeOK
  <2>2. CASE UNCHANGED <<ledger, scans>>
    BY <1>a, <2>2 DEF ledger, scans
  <2> HIDE DEF Kept
  <2> QED
    BY <1>1, <2>1, <2>2 DEF Scan, Call, MarkRaw, scans
<1>2. ASSUME NEW r \in Requests, Consume(r) PROVE Kept
  <2>1. UNCHANGED <<ledger, scans>>
    BY <1>2 DEF Consume, Replay, LockUsage, Pick, Exhausted, Spend
  <2> QED
    BY <1>a, <2>1 DEF ledger, scans
<1>3. ASSUME NEW r \in Requests, Buy(r) PROVE Kept
  <2>1. UNCHANGED <<asset, planCharges, lock>>
    BY <1>3 DEF Buy, Checkout, CheckoutCommit, CloseRead, CloseCommit, PaymentRead, MarkPaid,
                MintCommit, RefundRead, MarkRefunded, RefundCommit, ledger, scans
  <2>2. ASSUME NEW s \in Scans PROVE Refs(s)' = Refs(s)
    <3>1. CASE MintCommit(r)
      <4> DEFINE i == req[r].invoice
                 n == IF \E k \in Rows : credit[k].invoice = i THEN 0 ELSE invoice[i].quantity
      <4>1. i \in Invoices /\ credit' = credit \o Minted(i)
        BY <3>1 DEF MintCommit, IInv, InvoiceInv
      <4>2. n \in Nat /\ Len(credit) \in Nat
        BY <1>0, <4>1, Domains
      <4>3. /\ Len(credit') = Len(credit) + n
            /\ \A k \in Rows : credit'[k] = credit[k]
            /\ \A k \in Len(credit) + 1 .. Len(credit) + n : credit'[k].ref = None
        BY <1>0, <4>1, MintedRows
      <4>4. s # None
        BY QuotaAssumption
      <4> HIDE DEF i, n
      <4>5. /\ Rows \subseteq Rows'
            /\ \A k \in Rows' : k \in Rows \/ k \in Len(credit) + 1 .. Len(credit) + n
        BY <4>2, <4>3 DEF Rows
      <4>6. \A k \in Rows' : credit'[k].ref = s => k \in Rows
        BY <4>3, <4>4, <4>5
      <4> QED
        BY <4>3, <4>5, <4>6 DEF Refs
    <3>2. CASE RefundCommit(r)
      <4> DEFINE ks == {k \in CreditsOf(req[r].invoice) : Available(k)}
      <4>1. ks \subseteq Rows /\ (\A k \in ks : Available(k)) /\ credit' = Updated(ks, "revoked")
        BY <3>2 DEF RefundCommit, CreditsOf
      <4> HIDE DEF ks
      <4> QED
        BY <1>0, <4>1, WrittenRows DEF Refs
    <3>3. CASE UNCHANGED credit
      BY <3>3 DEF Refs, Rows
    <3> QED
      BY <1>3, <3>1, <3>2, <3>3 DEF Buy, Checkout, CheckoutCommit, CloseRead, CloseCommit,
         PaymentRead, MarkPaid, RefundRead, MarkRefunded, ledger
  <2> QED
    BY <2>1, <2>2, NothingCharged
<1>4. ASSUME NEW r \in Requests, Abort(r) PROVE Kept
  <2>1. \A s \in Scans : lock'[s] \in {lock[s], None}
    BY <1>0, <1>4 DEF Abort, TypeOK
  <2> QED
    BY <1>a, <1>4, <2>1 DEF Abort, ledger
<1>5. ASSUME NEW s \in Scans, Accept(s) PROVE Kept
  <2>1. \A t \in Scans : asset'[t] = "raw" <=> asset[t] = "raw"
    BY <1>0, <1>5 DEF Accept, TypeOK
  <2>2. \A t \in Scans : Refs(t)' = Refs(t)
    BY <1>5 DEF Accept, ledger, Refs, Rows
  <2> QED
    BY <1>5, <2>1, <2>2, NothingCharged DEF Accept, ledger
<1>6. ASSUME NEW s \in Scans, LockLapse(s) PROVE Kept
  <2>1. \A t \in Scans : lock'[t] \in {lock[t], None}
    BY <1>0, <1>6 DEF LockLapse, TypeOK
  <2> QED
    BY <1>a, <1>6, <2>1 DEF LockLapse, ledger
<1>7. CASE ExpireDue
  <2> DEFINE due == {k \in Rows : Available(k) /\ credit[k].expires <= now}
  <2>1. due \subseteq Rows /\ (\A k \in due : Available(k)) /\ credit' = Updated(due, "expired")
    BY <1>7 DEF ExpireDue
  <2> HIDE DEF due
  <2>2. \A s \in Scans : Refs(s)' = Refs(s)
    BY <1>0, <2>1, WrittenRows DEF Refs
  <2> QED
    BY <1>7, <2>2, NothingCharged DEF ExpireDue, scans
<1>8. CASE \/ \E limit \in Limits : NewCycle(limit) \/ Upgrade(limit)
           \/ EnterGrace \/ Tick \/ UNCHANGED vars
  BY <1>a, <1>8 DEF NewCycle, Upgrade, EnterGrace, Tick, vars, ledger, scans
<1> QED
  BY <1>1, <1>2, <1>3, <1>4, <1>5, <1>6, <1>7, <1>8 DEF Next

\* A scan is charged a second time only after it is delivered, by a confirmation whose lock
\* has ended: while the 15 seconds last, a confirmation is the first that charges.
THEOREM ScanChargedAgain == Spec => ChargedAgain
<1> DEFINE Step == \A s \in Scans :
              Charged(s) # 0 /\ Charged(s)' # Charged(s) =>
                  /\ asset[s] = "raw"
                  /\ \E r \in Requests : req[r].ref = s /\ lock[s] # r /\ ChargeCommit(r)
<1>1. Init => ConfirmInv
  BY QuotaAssumption DEF Init, ConfirmInv, Spent, Rows
<1>2. IInv /\ ConfirmInv /\ [Next]_vars => ConfirmInv'
  BY ScanCharged, OthersChargeNothing
<1>3. ASSUME IInv, ConfirmInv, [Next]_vars PROVE Step
  <2> SUFFICES ASSUME NEW s \in Scans, Charged(s) # 0, Charged(s)' # Charged(s)
               PROVE  /\ asset[s] = "raw"
                      /\ \E r \in Requests : req[r].ref = s /\ lock[s] # r /\ ChargeCommit(r)
    OBVIOUS
  <2>1. asset[s] = "raw"
    <3>1. CASE planCharges[s] = 0 /\ ~Spent(s)
      <4> DEFINE S == {k \in Rows : credit[k].ref = s}
      <4>1. S = {}
        BY <3>1 DEF Spent
      <4>2. Charged(s) = planCharges[s] + Cardinality(S)
        BY DEF Charged
      <4> HIDE DEF S
      <4> QED
        BY <1>3, <3>1, <4>1, <4>2, FS_EmptySet
    <3> QED
      BY <1>3, <3>1 DEF ConfirmInv
  <2>2. lock[s] = None
    BY <1>3, <2>1 DEF ConfirmInv
  <2>3. PICK r \in Requests : ChargeCommit(r)
    BY <1>3, OthersChargeNothing
  <2>4. req[r].ref = s
    BY <1>3, <2>3, ScanCharged
  <2> QED
    BY <2>1, <2>2, <2>3, <2>4, QuotaAssumption
<1> HIDE DEF Step
<1>4. Spec => [][Step]_vars
  BY <1>1, <1>2, <1>3, QuotaInvariant, PTL DEF Spec
<1>5. [][Step]_vars => ChargedAgain
  BY PTL DEF Step, ChargedAgain
<1> QED
  BY <1>4, <1>5
=============================================================================
