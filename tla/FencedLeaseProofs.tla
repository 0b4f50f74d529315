-------------------------- MODULE FencedLeaseProofs --------------------------
(* Machine-checked proofs about FencedLease, for every set of jobs and of   *)
(* claims.                                                                  *)
EXTENDS FencedLease, TLAPS

\* IInv is inductive.
LEMMA LeaseInit == ASSUME 0 \notin Claims PROVE Init => IInv
BY DEF Init, IInv, TypeOK, Exclusive, AtMostOnce

\* Every step keeps IInv: a grant uses a claim nobody holds and that has delivered
\* nothing, a delivery ends the claim it counts.
LEMMA LeaseNext == ASSUME 0 \notin Claims PROVE IInv /\ [Next]_vars => IInv'
<1> SUFFICES ASSUME IInv, [Next]_vars PROVE IInv'
  OBVIOUS
<1> USE DEF IInv, TypeOK
<1>1. ASSUME NEW j \in Jobs, NEW c \in Claims, Grant(j, c) PROVE IInv'
  <2>1. TypeOK' /\ AtMostOnce' /\ \A d \in Claims \ used' : delivered'[d] = 0
    BY <1>1 DEF Grant, AtMostOnce
  <2>2. \A k \in Jobs : holder[k] # c
    BY <1>1 DEF Grant
  <2>3. Exclusive'
    BY <1>1, <2>2 DEF Grant, Exclusive
  <2>4. \A k \in Jobs : holder'[k] # 0 => holder'[k] \in used' /\ delivered'[holder'[k]] = 0
    BY <1>1 DEF Grant
  <2>5. QED
    BY <2>1, <2>3, <2>4
<1>2. ASSUME NEW c \in Claims, Discard(c) PROVE IInv'
  BY <1>2 DEF Discard, Exclusive, AtMostOnce
<1>3. ASSUME NEW c \in Claims, Lapse(c) PROVE IInv'
  BY <1>3 DEF Lapse, Exclusive, AtMostOnce
<1>4. ASSUME NEW S \in SUBSET Jobs, Release(S) PROVE IInv'
  BY <1>4 DEF Release, Exclusive, AtMostOnce
<1>5. ASSUME NEW j \in Jobs, Deliver(j) PROVE IInv'
  <2>1. holder[j] \in used /\ delivered[holder[j]] = 0 /\ holder[j] \in Claims
    BY <1>5 DEF Deliver
  <2>2. TypeOK' /\ AtMostOnce' /\ \A d \in Claims \ used' : delivered'[d] = 0
    BY <1>5, <2>1 DEF Deliver, AtMostOnce
  <2>3. \A k \in Jobs : k # j => holder[k] # holder[j]
    BY <2>1 DEF Exclusive
  <2>4. Exclusive'
    BY <1>5 DEF Deliver, Exclusive
  <2>5. \A k \in Jobs : holder'[k] # 0 => holder'[k] \in used' /\ delivered'[holder'[k]] = 0
    BY <1>5, <2>1, <2>3 DEF Deliver
  <2>6. QED
    BY <2>2, <2>4, <2>5
<1>6. CASE UNCHANGED vars
  BY <1>6 DEF vars, Exclusive, AtMostOnce
<1>7. QED
  BY <1>1, <1>2, <1>3, <1>4, <1>5, <1>6 DEF Next

\* The inductive invariant of the abstract lease holds in every reachable state.
THEOREM LeaseInvariant == ASSUME 0 \notin Claims PROVE Spec => []IInv
<1>1. QED
  BY LeaseInit, LeaseNext, PTL DEF Spec

\* What the lease promises: a claim holds at most one job and delivers at most once.
THEOREM LeaseSafe == ASSUME 0 \notin Claims PROVE Spec => [](Exclusive /\ AtMostOnce)
<1>1. IInv => Exclusive /\ AtMostOnce
  BY DEF IInv
<1>2. QED
  BY <1>1, LeaseInvariant, PTL
=============================================================================
