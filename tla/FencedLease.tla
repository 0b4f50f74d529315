---------------------------- MODULE FencedLease -----------------------------
(***************************************************************************)
(* What the claim protocol of the 3D jobs promises to a desktop, without   *)
(* rows, locks, requests or staging keys: a job has at most one holder, a  *)
(* claim is handed out once and never comes back, a holder whose lease has *)
(* not lapsed is never displaced by another claim, and only the holder     *)
(* delivers.                                                               *)
(***************************************************************************)
EXTENDS Integers

CONSTANTS
    Jobs,
    Claims      \* numbers of the claims; 0, which is nobody, is not among them

VARIABLES
    holder,     \* the claim a job is held with, 0 when nobody holds it
    used,       \* claims handed out
    lapsed,     \* claims whose lease is over
    delivered   \* deliveries accepted from each claim

vars == <<holder, used, lapsed, delivered>>

Init ==
    /\ holder = [j \in Jobs |-> 0]
    /\ used = {}
    /\ lapsed = {}
    /\ delivered = [c \in Claims |-> 0]

Grant(j, c) ==
    /\ c \in Claims \ used
    /\ holder[j] = 0 \/ holder[j] \in lapsed
    /\ holder' = [holder EXCEPT ![j] = c]
    /\ used' = used \cup {c}
    /\ UNCHANGED <<lapsed, delivered>>

\* A claim drawn for a job that turns out not to be claimable.
Discard(c) ==
    /\ c \in Claims \ used
    /\ used' = used \cup {c}
    /\ UNCHANGED <<holder, lapsed, delivered>>

\* The owner, an admin, the holder or the sweep takes jobs back.
Release(S) ==
    /\ S # {} /\ \A j \in S : holder[j] # 0
    /\ holder' = [j \in Jobs |-> IF j \in S THEN 0 ELSE holder[j]]
    /\ UNCHANGED <<used, lapsed, delivered>>

Deliver(j) ==
    /\ holder[j] # 0
    /\ delivered' = [delivered EXCEPT ![holder[j]] = @ + 1]
    /\ holder' = [holder EXCEPT ![j] = 0]
    /\ UNCHANGED <<used, lapsed>>

Lapse(c) ==
    /\ c \in used
    /\ lapsed' = lapsed \cup {c}
    /\ UNCHANGED <<holder, used, delivered>>

Next ==
    \/ \E j \in Jobs, c \in Claims : Grant(j, c)
    \/ \E c \in Claims : Discard(c) \/ Lapse(c)
    \/ \E S \in SUBSET Jobs : Release(S)
    \/ \E j \in Jobs : Deliver(j)

Spec == Init /\ [][Next]_vars

-----------------------------------------------------------------------------
TypeOK ==
    /\ holder \in [Jobs -> Claims \cup {0}]
    /\ used \subseteq Claims
    /\ lapsed \subseteq used
    /\ delivered \in [Claims -> Nat]

\* No two jobs are held with one claim.
Exclusive == \A j, k \in Jobs : holder[j] = holder[k] /\ holder[j] # 0 => j = k

\* No claim delivers twice.
AtMostOnce == \A c \in Claims : delivered[c] <= 1

\* Exclusive and AtMostOnce with the reason why: a holder has not delivered yet, and a
\* claim never handed out holds nothing and has delivered nothing.
IInv ==
    /\ TypeOK
    /\ Exclusive
    /\ AtMostOnce
    /\ \A j \in Jobs : holder[j] # 0 => holder[j] \in used /\ delivered[holder[j]] = 0
    /\ \A c \in Claims \ used : delivered[c] = 0
=============================================================================
