----------------------------- MODULE ScanLedger ------------------------------
(***************************************************************************)
(* What the scans and Credits of an account promise its owner, without     *)
(* requests, locks or unique indexes: every charge, payment, refund and    *)
(* expiry happens at one instant.  A plan scan is taken only if the cycle  *)
(* has one left, also when the cycle is over; a reference takes one        *)
(* available Credit and only if it never took one; the Credits of an       *)
(* invoice are minted all at once and once; a refund takes back every      *)
(* Credit of its invoice that is left.                                     *)
(***************************************************************************)
EXTENDS Integers, Sequences

CONSTANTS
    Invoices,
    References,     \* what a scan is charged for
    Limits,         \* plan scans a cycle may have; 0 is the Free tier
    MaxPerCycle,    \* Credits an invoice may sell
    Validity,       \* what a Credit lives
    MaxCycle,       \* bound: billing cycles in a behaviour
    None

VARIABLES
    cycle,          \* the billing cycle that runs
    allowance,      \* plan scans of each cycle
    scansUsed,      \* plan scans taken in each cycle
    sold,           \* Credits each invoice sells, 0 before it exists
    settled,        \* "open", "paid" or "refunded"
    credit,
    now

vars == <<cycle, allowance, scansUsed, sold, settled, credit, now>>
plan == <<cycle, allowance, scansUsed>>

Cycles == 1..MaxCycle
Rows == 1..Len(credit)
CreditsOf(i) == {k \in Rows : credit[k].invoice = i}
Left(k) == credit[k].status = "available"

Init ==
    /\ cycle = 1
    /\ allowance = [c \in Cycles |-> 0]
    /\ scansUsed = [c \in Cycles |-> 0]
    /\ sold = [i \in Invoices |-> 0]
    /\ settled = [i \in Invoices |-> "open"]
    /\ credit = <<>>
    /\ now = 0

TakePlanScan(c) ==
    /\ c <= cycle /\ scansUsed[c] < allowance[c]
    /\ scansUsed' = [scansUsed EXCEPT ![c] = @ + 1]
    /\ UNCHANGED <<cycle, allowance, sold, settled, credit, now>>

TakeCredit(k, f) ==
    /\ Left(k)
    /\ \A l \in Rows : credit[l].ref # f
    /\ credit' = [credit EXCEPT ![k].status = "used", ![k].ref = f]
    /\ UNCHANGED <<plan, sold, settled, now>>

Offer(i, n) ==
    /\ sold[i] = 0 /\ sold' = [sold EXCEPT ![i] = n]
    /\ UNCHANGED <<plan, settled, credit, now>>

\* A payment that comes again mints nothing.
Pay(i) ==
    /\ sold[i] # 0
    /\ settled' = [settled EXCEPT ![i] = "paid"]
    /\ credit' = credit \o
          IF CreditsOf(i) # {} THEN <<>>
          ELSE [k \in 1..sold[i] |-> [invoice |-> i, status |-> "available",
                                      expires |-> now + Validity, ref |-> None]]
    /\ UNCHANGED <<plan, sold, now>>

\* A close that comes late opens a settled invoice again; its Credits stay.
Close(i) ==
    /\ sold[i] # 0
    /\ settled' = [settled EXCEPT ![i] = "open"]
    /\ UNCHANGED <<plan, sold, credit, now>>

\* The Credits of ks end, whatever they could still have bought.
End(ks, status) ==
    credit' = [k \in Rows |-> IF k \in ks THEN [credit[k] EXCEPT !.status = status]
                              ELSE credit[k]]

Refund(i) ==
    /\ CreditsOf(i) # {}
    /\ settled' = [settled EXCEPT ![i] = "refunded"]
    /\ End({k \in CreditsOf(i) : Left(k)}, "revoked")
    /\ UNCHANGED <<plan, sold, now>>

Expire ==
    /\ End({k \in Rows : Left(k) /\ credit[k].expires <= now}, "expired")
    /\ UNCHANGED <<plan, sold, settled, now>>

StartCycle(limit) ==
    /\ cycle < MaxCycle
    /\ cycle' = cycle + 1
    /\ allowance' = [allowance EXCEPT ![cycle + 1] = limit]
    /\ UNCHANGED <<scansUsed, sold, settled, credit, now>>

Raise(limit) ==
    /\ allowance[cycle] < limit
    /\ allowance' = [allowance EXCEPT ![cycle] = limit]
    /\ UNCHANGED <<cycle, scansUsed, sold, settled, credit, now>>

Tick == now' = now + 1 /\ UNCHANGED <<plan, sold, settled, credit>>

Next ==
    \/ \E c \in Cycles : TakePlanScan(c)
    \/ \E k \in Rows, f \in References : TakeCredit(k, f)
    \/ \E i \in Invoices : Pay(i) \/ Close(i) \/ Refund(i)
    \/ \E i \in Invoices, n \in 1..MaxPerCycle : Offer(i, n)
    \/ \E limit \in Limits : StartCycle(limit) \/ Raise(limit)
    \/ Expire \/ Tick

Spec == Init /\ [][Next]_vars
=============================================================================
