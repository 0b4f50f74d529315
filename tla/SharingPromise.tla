---------------------------- MODULE SharingPromise -----------------------------
(***************************************************************************)
(* What moderation and artisan links promise, without requests, rows or     *)
(* locks: a report is decided once; each report that is upheld moves the     *)
(* owner one level up the ladder, at the moment it is upheld; a link that is *)
(* revoked stays closed; and an open link gives out what it has left.        *)
(* Whether the owner may still share is asked when a request begins, so a    *)
(* request under way may end after that has changed: it guards nothing here. *)
(***************************************************************************)
EXTENDS Naturals, Sequences

CONSTANTS
    Reports,
    Links,
    Ladder,         \* what each level is
    MaxDownloads

VARIABLES
    report,         \* "none", "new", "upheld" or "dismissed"
    actions,        \* what the owner was given, oldest first
    restricted,
    suspended,
    state,          \* of each link: "absent", "open", "expired" or "revoked"
    drawn           \* downloads of each link since it was made or renewed

vars == <<report, actions, restricted, suspended, state, drawn>>
moderation == <<report, actions, restricted, suspended>>
sharing == <<state, drawn>>

Init ==
    /\ report = [p \in Reports |-> "none"]
    /\ actions = <<>>
    /\ restricted = FALSE /\ suspended = FALSE
    /\ state = [l \in Links |-> "absent"]
    /\ drawn = [l \in Links |-> 0]

Submit(p) ==
    /\ report[p] = "none" /\ report' = [report EXCEPT ![p] = "new"]
    /\ UNCHANGED <<actions, restricted, suspended, sharing>>

Dismiss(p) ==
    /\ report[p] = "new" /\ report' = [report EXCEPT ![p] = "dismissed"]
    /\ UNCHANGED <<actions, restricted, suspended, sharing>>

\* The next level, or once more the last.
Uphold(p, level) ==
    /\ report[p] = "new" /\ report' = [report EXCEPT ![p] = "upheld"]
    /\ level = IF Len(actions) < Len(Ladder) THEN Len(actions) + 1 ELSE Len(Ladder)
    /\ actions' = Append(actions, [level |-> level, report |-> p])
    /\ restricted' = (restricted \/ Ladder[level] = "share_restriction")
    /\ suspended' = (suspended \/ Ladder[level] = "ban")
    /\ UNCHANGED sharing

SetStatus(banned) ==
    /\ suspended' = banned
    /\ UNCHANGED <<report, actions, restricted, sharing>>

RestrictionEnds ==
    /\ restricted' = FALSE
    /\ UNCHANGED <<report, actions, suspended, sharing>>

Publish(l) ==
    /\ state[l] = "absent" /\ state' = [state EXCEPT ![l] = "open"]
    /\ UNCHANGED <<moderation, drawn>>

Revoke(l) ==
    /\ state[l] # "absent" /\ state' = [state EXCEPT ![l] = "revoked"]
    /\ UNCHANGED <<moderation, drawn>>

Expire(l) ==
    /\ state[l] = "open" /\ state' = [state EXCEPT ![l] = "expired"]
    /\ UNCHANGED <<moderation, drawn>>

\* A renewal that ends after the link was revoked does not open it.
Renew(l) ==
    /\ state[l] # "absent"
    /\ state' = [state EXCEPT ![l] = IF @ = "revoked" THEN @ ELSE "open"]
    /\ drawn' = [drawn EXCEPT ![l] = 0]
    /\ UNCHANGED moderation

Download(l) ==
    /\ state[l] = "open" /\ drawn[l] < MaxDownloads
    /\ drawn' = [drawn EXCEPT ![l] = @ + 1]
    /\ UNCHANGED <<moderation, state>>

Next ==
    \/ \E p \in Reports : Submit(p) \/ Dismiss(p)
    \/ \E p \in Reports, level \in 1..Len(Ladder) : Uphold(p, level)
    \/ \E banned \in BOOLEAN : SetStatus(banned)
    \/ RestrictionEnds
    \/ \E l \in Links : Publish(l) \/ Revoke(l) \/ Expire(l) \/ Renew(l) \/ Download(l)

Spec == Init /\ [][Next]_vars
=============================================================================
