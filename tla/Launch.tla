------------------------------- MODULE Launch -------------------------------
(***************************************************************************)
(* One-time records in Redis that hand a session to another program: a     *)
(* ticket to open a project in the desktop editor, which is claimed for an  *)
(* authorization code; the code of a Google sign-in for the mobile or        *)
(* desktop app; an SSO token.                                               *)
(*                                                                         *)
(* A record is taken with one GETDEL; what the request does with it follows  *)
(* in later steps, and a request may be cut off in between.  A grant stands   *)
(* for the record it starts with and, once claimed, for the one that replaces *)
(* it.  The random token of a record, SETs that try again on a used one, and  *)
(* the rejection of malformed tokens are left out.                          *)
(***************************************************************************)
EXTENDS Naturals

CONSTANTS
    Requests,
    Grants,         \* launches, sign-ins and SSO tokens
    Clients,        \* programs, each with its PKCE challenge and verifier
    None

\* What the constants must be.
LaunchAssumption == None \notin Clients

VARIABLES
    kind,       \* what each grant is
    record,     \* what Redis holds for it
    claimed,    \* history: the clients whose challenge it was bound to
    allowed,    \* the account is active and owns the project
    sessions,   \* sessions issued from it: how many for each client
    req

vars == <<kind, record, claimed, allowed, sessions, req>>

------------------------------------------------------------------------------

Kinds == {"launch", "google", "sso"}

\* "absent" before it exists and after it was taken or has expired.
Record == [at : {"absent", "ticket", "code"}, challenge : Clients \cup {None}]
Absent == [at |-> "absent", challenge |-> None]
Idle == [op |-> "idle"]

Init ==
    /\ kind = [g \in Grants |-> "none"]
    /\ record = [g \in Grants |-> Absent]
    /\ claimed = [g \in Grants |-> {}]
    /\ allowed = TRUE
    /\ sessions = [g \in Grants |-> [c \in Clients |-> 0]]
    /\ req = [r \in Requests |-> Idle]

\* create_editor_launch, create_editor_sso: a ticket for whoever presents it.
Create(g, k) ==
    /\ allowed
    /\ kind[g] = "none" /\ k \in {"launch", "sso"}
    /\ kind' = [kind EXCEPT ![g] = k]
    /\ record' = [record EXCEPT ![g].at = "ticket"]
    /\ UNCHANGED <<claimed, allowed, sessions, req>>

\* create_mobile_google_code, create_desktop_google_code: bound to who started the sign-in.
CreateBound(g, c) ==
    /\ kind[g] = "none"
    /\ kind' = [kind EXCEPT ![g] = "google"]
    /\ record' = [record EXCEPT ![g] = [at |-> "code", challenge |-> c]]
    /\ claimed' = [claimed EXCEPT ![g] = {c}]
    /\ UNCHANGED <<allowed, sessions, req>>

PeekRecord(g) == UNCHANGED record

\* _consume_opaque_record
ConsumeRecord(g) == record' = [record EXCEPT ![g] = Absent]

\* claim_editor_launch takes the ticket ...
Claim(r, g, c) ==
    /\ req[r] = Idle
    /\ kind[g] = "launch" /\ record[g].at = "ticket"
    /\ ConsumeRecord(g)
    /\ req' = [req EXCEPT ![r] = [op |-> "claim", grant |-> g, client |-> c]]
    /\ UNCHANGED <<kind, claimed, allowed, sessions>>

\* ... and stores a code bound to the challenge it came with.
Claimed(r) ==
    /\ req[r].op = "claim"
    /\ LET g == req[r].grant IN
       /\ record' = [record EXCEPT ![g] = [at |-> "code", challenge |-> req[r].client]]
       /\ claimed' = [claimed EXCEPT ![g] = @ \cup {req[r].client}]
    /\ req' = [req EXCEPT ![r] = Idle]
    /\ UNCHANGED <<kind, allowed, sessions>>

\* The record is taken before the verifier is looked at: a wrong one uses the code up.
Exchange(r, g, c) ==
    /\ req[r] = Idle
    /\ record[g].at = IF kind[g] = "sso" THEN "ticket" ELSE "code"
    /\ ConsumeRecord(g)
    /\ req' = [req EXCEPT ![r] =
          [op |-> "exchange", grant |-> g, client |-> c,
           proven |-> kind[g] = "sso" \/ record[g].challenge = c]]
    /\ UNCHANGED <<kind, claimed, allowed, sessions>>

\* A Google code carries the tokens; the others need the account and the project.
Issue(r) ==
    /\ req[r].op = "exchange" /\ req[r].proven
    /\ kind[req[r].grant] # "google" => allowed
    /\ sessions' = [sessions EXCEPT ![req[r].grant][req[r].client] = @ + 1]
    /\ req' = [req EXCEPT ![r] = Idle]
    /\ UNCHANGED <<kind, record, claimed, allowed>>

\* The request is refused or cut off.
Abort(r) ==
    /\ req[r] # Idle
    /\ req' = [req EXCEPT ![r] = Idle]
    /\ UNCHANGED <<kind, record, claimed, allowed, sessions>>

Expire(g) ==
    /\ record[g].at # "absent"
    /\ record' = [record EXCEPT ![g] = Absent]
    /\ UNCHANGED <<kind, claimed, allowed, sessions, req>>

\* The account is suspended or reinstated, the project deleted or restored.
AllowedChanges ==
    /\ allowed' = ~allowed
    /\ UNCHANGED <<kind, record, claimed, sessions, req>>

Next ==
    \/ \E g \in Grants :
        \/ \E k \in Kinds : Create(g, k)
        \/ \E c \in Clients : CreateBound(g, c)
        \/ Expire(g)
    \/ \E r \in Requests :
        \/ \E g \in Grants, c \in Clients : Claim(r, g, c) \/ Exchange(r, g, c)
        \/ Claimed(r) \/ Issue(r) \/ Abort(r)
    \/ AllowedChanges

Spec == Init /\ [][Next]_vars

------------------------------------------------------------------------------
(* Properties.                                                              *)

TypeOK ==
    /\ kind \in [Grants -> Kinds \cup {"none"}]
    /\ record \in [Grants -> Record]
    /\ claimed \in [Grants -> SUBSET Clients]
    /\ allowed \in BOOLEAN
    /\ sessions \in [Grants -> [Clients -> Nat]]

\* A launch, a sign-in or an SSO token opens at most one session, however often and by
\* however many programs its secrets are presented, and only for a program to whose
\* challenge it was bound.
ConsumedOnce ==
    \A g \in Grants :
        /\ \A c \in Clients : sessions[g][c] <= 1
        /\ \A c, d \in Clients : sessions[g][c] > 0 /\ sessions[g][d] > 0 => c = d
        /\ kind[g] # "sso" => \A c \in Clients : sessions[g][c] > 0 => claimed[g] = {c}
------------------------------------------------------------------------------
(* A grant may still open a session while Redis holds its record, or a      *)
(* request that has taken it has not been refused or cut off.                *)

Live == {g \in Grants : \/ record[g].at # "absent"
                        \/ \E r \in Requests : req[r] # Idle /\ req[r].grant = g}

Secret == INSTANCE OneTimeSecret WITH live <- Live, bound <- claimed, opened <- sessions

\* Tickets that are claimed, codes that are exchanged, by several programs at once, by the
\* wrong one, or cut off between the GETDEL and the session: a program sees a secret that
\* binds once and opens once (_consume_opaque_record).
OneTimeSecretSpec == Secret!Spec

------------------------------------------------------------------------------
(* Why it holds.                                                            *)

Unopened(g) == \A c \in Clients : sessions[g][c] = 0

\* Of a grant in Redis no session was issued; a code is bound to the one client that claimed.
GrantOK(g) ==
    /\ kind[g] = "none" => record[g].at = "absent" /\ claimed[g] = {} /\ Unopened(g)
    /\ record[g].at # "absent" => Unopened(g)
    /\ record[g].at = "ticket" => claimed[g] = {}
    /\ record[g].at = "code" => claimed[g] = {record[g].challenge}

\* Who has taken a record is the only one to answer for its grant.
RequestOK(q) ==
    \/ q = Idle
    \/ /\ \/ /\ q \in [op : {"claim"}, grant : Grants, client : Clients]
             /\ kind[q.grant] = "launch" /\ claimed[q.grant] = {}
          \/ /\ q \in [op : {"exchange"}, grant : Grants, client : Clients, proven : BOOLEAN]
             /\ q.proven /\ kind[q.grant] # "sso" => claimed[q.grant] = {q.client}
       /\ kind[q.grant] # "none" /\ record[q.grant].at = "absent" /\ Unopened(q.grant)

IInv ==
    /\ TypeOK /\ ConsumedOnce
    /\ \A g \in Grants : GrantOK(g)
    /\ DOMAIN req = Requests /\ \A r \in Requests : RequestOK(req[r])
    /\ \A r, q \in Requests :
          req[r] # Idle /\ req[q] # Idle /\ req[r].grant = req[q].grant => r = q
=============================================================================
