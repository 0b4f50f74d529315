------------------------------ MODULE Sharing ------------------------------
(***************************************************************************)
(* What one owner shares with the public and what happens when it is       *)
(* reported: the artisan links of an export, whose downloads are counted,   *)
(* and the ladder of BR-77 - a warning, 30 days without sharing, a ban.      *)
(*                                                                         *)
(* An admin who upholds a report holds its row, then the owner's row, from   *)
(* SELECT ... FOR UPDATE to the commit.  Everybody else loads a row and      *)
(* writes it later; their UPDATE waits for the row lock.  A link's token,     *)
(* the rate limits and the audit log are left out.                          *)
(***************************************************************************)
EXTENDS Naturals, Sequences, FiniteSets

CONSTANTS
    Requests,       \* requests served at the same time
    Reports,        \* content reports about what the owner shares
    Links,          \* artisan links
    MaxDownloads,   \* MAX_DOWNLOADS
    None

ASSUME SharingAssumption ==
    /\ MaxDownloads \in Nat \ {0}
    /\ None \notin Requests

VARIABLES
    report,         \* status of each report, "none" before it is submitted
    holder,         \* who holds the lock of each report row
    userHolder,     \* who holds the lock of the owner's row
    actions,        \* moderation_actions of the owner, oldest first
    restricted,     \* the last share_restriction is not over
    suspended,      \* users.status
    paying,         \* the plan is paid and active
    link,           \* rows of artisan_links
    downloads,      \* history: downloads of each link since it was made or renewed
    req

vars == <<report, holder, userHolder, actions, restricted, suspended, paying, link,
          downloads, req>>

moderation == <<report, holder, userHolder, actions, restricted>>
sharing == <<link, downloads>>

------------------------------------------------------------------------------

Ladder == <<"warning", "share_restriction", "ban">>

\* expired: expires_at is over.
LinkRow == [exists : BOOLEAN, revoked : BOOLEAN, expired : BOOLEAN, count : 0..MaxDownloads]
NoLink == [exists |-> FALSE, revoked |-> FALSE, expired |-> FALSE, count |-> 0]

Idle == [op |-> "idle"]

Init ==
    /\ report = [p \in Reports |-> "none"]
    /\ holder = [p \in Reports |-> None] /\ userHolder = None
    /\ actions = <<>>
    /\ restricted = FALSE /\ suspended = FALSE
    /\ paying \in BOOLEAN
    /\ link = [l \in Links |-> NoLink]
    /\ downloads = [l \in Links |-> 0]
    /\ req = [r \in Requests |-> Idle]

Begin(r, what) == req[r] = Idle /\ req' = [req EXCEPT ![r] = what]
Now(r, what) == req' = [req EXCEPT ![r] = what]

\* Commit and rollback free the rows a request holds.
End(r) ==
    /\ req' = [req EXCEPT ![r] = Idle]
    /\ holder' = [p \in Reports |-> IF holder[p] = r THEN None ELSE holder[p]]
    /\ userHolder' = IF userHolder = r THEN None ELSE userHolder

------------------------------------------------------------------------------
(* Moderation.                                                              *)

\* submit_report, by anybody.
Submit(p) ==
    /\ report[p] = "none"
    /\ report' = [report EXCEPT ![p] = "new"]
    /\ UNCHANGED <<holder, userHolder, actions, restricted, suspended, paying, sharing, req>>

\* _open_report_for_update, for a decision.
LockReport(r, p, decision) ==
    /\ holder[p] = None
    /\ report[p] = "new"
    /\ holder' = [holder EXCEPT ![p] = r]
    /\ Begin(r, [op |-> decision, report |-> p])
    /\ UNCHANGED <<report, userHolder, actions, restricted, suspended, paying, sharing>>

Dismiss(r) ==
    /\ req[r].op = "dismiss"
    /\ report' = [report EXCEPT ![req[r].report] = "dismissed"]
    /\ End(r)
    /\ UNCHANGED <<actions, restricted, suspended, paying, sharing>>

LockUserWithoutLock(r) ==
    /\ req[r].op = "uphold"
    /\ Now(r, [req[r] EXCEPT !.op = "count"])
    /\ UNCHANGED <<moderation, suspended, paying, sharing>>

\* lock_user: "so two concurrent upholds cannot both compute the same ladder level".
LockUser(r) ==
    /\ req[r].op = "uphold"
    /\ userHolder = None
    /\ userHolder' = r
    /\ Now(r, [req[r] EXCEPT !.op = "count"])
    /\ UNCHANGED <<report, holder, actions, restricted, suspended, paying, sharing>>

LevelAfter(prior) == IF prior < Len(Ladder) THEN prior + 1 ELSE Len(Ladder)

\* count_actions
CountActions(r) ==
    /\ req[r].op = "count"
    /\ Now(r, [op |-> "apply", report |-> req[r].report, level |-> LevelAfter(Len(actions))])
    /\ UNCHANGED <<moderation, suspended, paying, sharing>>

\* The action, the ban and the closed report are committed together.
Uphold(r) ==
    /\ req[r].op = "apply"
    /\ LET level == req[r].level IN
       /\ actions' = Append(actions, [level |-> level, report |-> req[r].report])
       /\ restricted' = (restricted \/ Ladder[level] = "share_restriction")
       /\ suspended' = (suspended \/ Ladder[level] = "ban")
    /\ report' = [report EXCEPT ![req[r].report] = "upheld"]
    /\ End(r)
    /\ UNCHANGED <<paying, sharing>>

\* ban_user and unban_user write what the loaded row does not say yet.
AdminLoad(r, banned) ==
    /\ Begin(r, [op |-> "status", to |-> banned, changed |-> suspended # banned])
    /\ UNCHANGED <<moderation, suspended, paying, sharing>>

AdminWrite(r) ==
    /\ req[r].op = "status"
    /\ req[r].changed => userHolder = None
    /\ suspended' = IF req[r].changed THEN req[r].to ELSE suspended
    /\ End(r)
    /\ UNCHANGED <<report, actions, restricted, paying, sharing>>

RestrictionEnds ==
    /\ restricted /\ restricted' = FALSE
    /\ UNCHANGED <<report, holder, userHolder, actions, suspended, paying, sharing, req>>

------------------------------------------------------------------------------
(* Links.                                                                   *)

\* A plan is bought, runs out or is overdue.
PlanChanges ==
    /\ paying' = ~paying
    /\ UNCHANGED <<moderation, suspended, sharing, req>>

CreateLoad(r, l) ==
    /\ ~link[l].exists
    /\ ~restricted /\ paying /\ ~suspended
    /\ Begin(r, [op |-> "create", link |-> l])
    /\ UNCHANGED <<moderation, suspended, paying, sharing>>

CreateLink(r) ==
    /\ req[r].op = "create"
    /\ ~link[req[r].link].exists
    /\ link' = [link EXCEPT ![req[r].link] = [NoLink EXCEPT !.exists = TRUE]]
    /\ End(r)
    /\ UNCHANGED <<report, actions, restricted, suspended, paying, downloads>>

RevokeLoad(r, l) ==
    /\ link[l].exists /\ ~link[l].revoked /\ ~suspended
    /\ Begin(r, [op |-> "revoke", link |-> l])
    /\ UNCHANGED <<moderation, suspended, paying, sharing>>

RevokeLink(r) ==
    /\ req[r].op = "revoke"
    /\ link' = [link EXCEPT ![req[r].link].revoked = TRUE]
    /\ End(r)
    /\ UNCHANGED <<report, actions, restricted, suspended, paying, downloads>>

RenewLoad(r, l) ==
    /\ link[l].exists /\ ~link[l].revoked
    /\ ~restricted /\ ~suspended
    /\ Begin(r, [op |-> "renew", link |-> l, counted |-> link[l].count # 0])
    /\ UNCHANGED <<moderation, suspended, paying, sharing>>

\* A loaded count of 0 is not written again: downloads in between stay counted.
RenewLink(r) ==
    /\ req[r].op = "renew"
    /\ LET l == req[r].link IN
       /\ link' = [link EXCEPT ![l].expired = FALSE,
                               ![l].count = IF req[r].counted THEN 0 ELSE @]
       /\ downloads' = [downloads EXCEPT ![l] = 0]
    /\ End(r)
    /\ UNCHANGED <<report, actions, restricted, suspended, paying>>

LinkExpires(l) ==
    /\ link[l].exists /\ ~link[l].expired
    /\ link' = [link EXCEPT ![l].expired = TRUE]
    /\ UNCHANGED <<moderation, suspended, paying, downloads, req>>

Usable(l) ==
    link[l].exists /\ ~link[l].revoked /\ ~link[l].expired /\ link[l].count < MaxDownloads

\* _resolve_active, by anybody who has the link.
Resolve(r, l) ==
    /\ Usable(l)
    /\ ~suspended /\ ~restricted
    /\ Begin(r, [op |-> "download", link |-> l])
    /\ UNCHANGED <<moderation, suspended, paying, sharing>>

Counted(l) ==
    /\ link' = [link EXCEPT ![l].count = @ + 1]
    /\ downloads' = [downloads EXCEPT ![l] = @ + 1]

ConsumeChecked(l) ==
    /\ link' = [link EXCEPT ![l].count = IF @ < MaxDownloads THEN @ + 1 ELSE @]
    /\ downloads' = [downloads EXCEPT ![l] = @ + 1]

\* consume_download: one UPDATE that checks the row again.
ConsumeDownload(l) == Usable(l) /\ Counted(l)

Download(r) ==
    /\ req[r].op = "download"
    /\ ConsumeDownload(req[r].link)
    /\ End(r)
    /\ UNCHANGED <<report, actions, restricted, suspended, paying>>

\* A request is refused or rolled back at any of its steps.
Abort(r) ==
    /\ req[r] # Idle
    /\ End(r)
    /\ UNCHANGED <<report, actions, restricted, suspended, paying, sharing>>

Next ==
    \/ \E p \in Reports : Submit(p)
    \/ \E l \in Links : LinkExpires(l)
    \/ \E r \in Requests :
        \/ \E p \in Reports, decision \in {"uphold", "dismiss"} : LockReport(r, p, decision)
        \/ Dismiss(r) \/ LockUser(r) \/ CountActions(r) \/ Uphold(r)
        \/ (\E banned \in BOOLEAN : AdminLoad(r, banned)) \/ AdminWrite(r)
        \/ \E l \in Links :
              CreateLoad(r, l) \/ RevokeLoad(r, l) \/ RenewLoad(r, l) \/ Resolve(r, l)
        \/ CreateLink(r) \/ RevokeLink(r) \/ RenewLink(r) \/ Download(r)
        \/ Abort(r)
    \/ RestrictionEnds \/ PlanChanges

Spec == Init /\ [][Next]_vars

------------------------------------------------------------------------------
(* Properties.                                                              *)

RequestState ==
    {Idle}
    \cup [op : {"uphold", "dismiss", "count"}, report : Reports]
    \cup [op : {"apply"}, report : Reports, level : 1..Len(Ladder)]
    \cup [op : {"status"}, to : BOOLEAN, changed : BOOLEAN]
    \cup [op : {"create", "revoke", "download"}, link : Links]
    \cup [op : {"renew"}, link : Links, counted : BOOLEAN]

TypeOK ==
    /\ report \in [Reports -> {"none", "new", "upheld", "dismissed"}]
    /\ holder \in [Reports -> Requests \cup {None}]
    /\ userHolder \in Requests \cup {None}
    /\ actions \in Seq([level : 1..Len(Ladder), report : Reports])
    /\ restricted \in BOOLEAN /\ suspended \in BOOLEAN /\ paying \in BOOLEAN
    /\ link \in [Links -> LinkRow]
    /\ downloads \in [Links -> Nat]
    /\ req \in [Requests -> RequestState]

\* BR-77: the n-th upheld report puts the owner on the n-th level, the last one from then
\* on, however many admins uphold reports at once; nobody is punished twice for one report,
\* nor for one that was not upheld.
LadderStepwise ==
    \A i \in DOMAIN actions :
        /\ actions[i].level = LevelAfter(i - 1)
        /\ report[actions[i].report] = "upheld"
        /\ \A j \in DOMAIN actions : actions[i].report = actions[j].report => i = j

\* A link is downloaded no more often than its limit before it is renewed, however many
\* downloads come at once (consume_download: "concurrent hits cannot overshoot").
DownloadsBounded == \A l \in Links : downloads[l] <= MaxDownloads

(* What somebody sees who knows nothing of requests and locks.              *)

LinkState == [l \in Links |->
    IF ~link[l].exists THEN "absent"
    ELSE IF link[l].revoked THEN "revoked"
    ELSE IF link[l].expired THEN "expired" ELSE "open"]

Promise == INSTANCE SharingPromise WITH state <- LinkState, drawn <- downloads

\* Admins who decide at once, sanctions and reinstatements that cross, links that are
\* revoked, renewed and downloaded by requests that loaded them earlier: every step is one
\* of SharingPromise, in which each of these happens at one instant (BR-77, _LADDER, and
\* consume_download: "concurrent hits cannot overshoot").
SharingPromiseSpec == Promise!Spec

------------------------------------------------------------------------------
(* Why they hold.                                                           *)

\* Whoever decides on a report holds it, and it is open; whoever is about to apply a level
\* also holds the owner, so nobody can have added an action since the level was computed.
LockInv ==
    \A r \in Requests :
        /\ req[r].op \in {"uphold", "dismiss", "count", "apply"} =>
              holder[req[r].report] = r /\ report[req[r].report] = "new"
        /\ req[r].op \in {"count", "apply"} => userHolder = r
        /\ req[r].op = "apply" => req[r].level = LevelAfter(Len(actions))

\* Every download since the link was renewed is in its count.
CountInv ==
    \A l \in Links :
        /\ downloads[l] <= link[l].count
        /\ ~link[l].exists => link[l].count = 0

\* Who is about to revoke or renew a link found it, and links are never deleted.
LoadedInv ==
    \A r \in Requests : req[r].op \in {"revoke", "renew"} => link[req[r].link].exists

IInv == TypeOK /\ LadderStepwise /\ LockInv /\ CountInv
=============================================================================
