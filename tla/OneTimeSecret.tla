---------------------------- MODULE OneTimeSecret -----------------------------
(***************************************************************************)
(* What a launch, a mobile or desktop sign-in and an SSO token promise,     *)
(* without records, requests or GETDEL: a grant is handed out, it may be    *)
(* bound to one program, and it opens one session or none, for the program  *)
(* it is bound to; once it has opened a session or was given up it is over.  *)
(***************************************************************************)
EXTENDS Naturals

CONSTANTS
    Grants,
    Clients

VARIABLES
    kind,       \* "none" before the grant is handed out
    live,       \* grants that may still open a session
    bound,      \* the programs each grant was bound to
    opened      \* sessions opened: how many for each program

vars == <<kind, live, bound, opened>>

Init ==
    /\ kind = [g \in Grants |-> "none"]
    /\ live = {}
    /\ bound = [g \in Grants |-> {}]
    /\ opened = [g \in Grants |-> [c \in Clients |-> 0]]

\* A launch or an SSO token is for whoever presents it ...
HandOut(g, k) ==
    /\ kind[g] = "none"
    /\ kind' = [kind EXCEPT ![g] = k]
    /\ live' = live \cup {g}
    /\ UNCHANGED <<bound, opened>>

\* ... and a sign-in for the program that started it.
HandOutTo(g, c) ==
    /\ kind[g] = "none"
    /\ kind' = [kind EXCEPT ![g] = "google"]
    /\ live' = live \cup {g}
    /\ bound' = [bound EXCEPT ![g] = {c}]
    /\ UNCHANGED opened

Bind(g, c) ==
    /\ g \in live /\ kind[g] = "launch" /\ bound[g] = {}
    /\ bound' = [bound EXCEPT ![g] = {c}]
    /\ UNCHANGED <<kind, live, opened>>

Open(g, c) ==
    /\ g \in live
    /\ kind[g] = "sso" \/ bound[g] = {c}
    /\ opened' = [opened EXCEPT ![g][c] = @ + 1]
    /\ live' = live \ {g}
    /\ UNCHANGED <<kind, bound>>

GiveUp(g) ==
    /\ g \in live
    /\ live' = live \ {g}
    /\ UNCHANGED <<kind, bound, opened>>

Next ==
    \E g \in Grants :
        \/ \E k \in {"launch", "sso"} : HandOut(g, k)
        \/ \E c \in Clients : HandOutTo(g, c) \/ Bind(g, c) \/ Open(g, c)
        \/ GiveUp(g)

Spec == Init /\ [][Next]_vars
=============================================================================
