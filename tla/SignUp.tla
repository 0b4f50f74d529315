------------------------------- MODULE SignUp -------------------------------
(***************************************************************************)
(* Sign-up of one mailbox: registration with a password, the verification  *)
(* code mailed to it, resends, the lock after wrong codes, and Google       *)
(* sign-in, which creates, links or reclaims the row.                       *)
(*                                                                         *)
(* The users row lives in PostgreSQL, the code in Redis.  A request reads   *)
(* the row without a lock and writes the columns it changes when it         *)
(* commits; the Redis document is rewritten by GET and SET.  Each of these  *)
(* is a step, and a request may be cut off between two of them (Abort).     *)
(* What happens to the account once it is verified is modelled in Accounts. *)
(***************************************************************************)
EXTENDS Integers

CONSTANTS
    Requests,       \* request slots of the API processes
    MaxAttempts,    \* wrong codes until the lock, 5 in the code
    MaxResends,     \* resends of one verification code, 2 in the code
    MaxMails,       \* bound: verification codes mailed
    None

ASSUME SignUpAssumption ==
    /\ MaxAttempts \in Nat \ {0}
    /\ MaxResends \in Nat
    /\ MaxMails \in Nat \ {0}

VARIABLES
    user,       \* the row of users
    otp,        \* Redis otp:verify:<id>, None when absent
    locked,     \* Redis otp:lock:<id>
    mailed,     \* the newest verification code mailed to the mailbox
    proven,     \* history: who registered has entered a mailed code
    req         \* the requests in flight

vars == <<user, otp, locked, mailed, proven, req>>

------------------------------------------------------------------------------
(* State.                                                                   *)

Mails == 0..MaxMails

\* password: is there one, that is, the one chosen at registration?
UserRow == [exists : BOOLEAN, verified : BOOLEAN, google : BOOLEAN, password : BOOLEAN]

NoUser == [exists |-> FALSE, verified |-> FALSE, google |-> FALSE, password |-> FALSE]

\* The JSON document of otp_store.
OtpRecord == [code : Mails, attempts : 0..MaxAttempts, resends : Nat]

Steps == {"idle", "register", "mail", "count", "recount", "lock", "prove", "verify",
          "resend", "renew", "session", "create", "link", "reclaim", "reclaimed"}

RequestState == [at : Steps, copy : OtpRecord \cup {None}]

Idle == [at |-> "idle", copy |-> None]

Init ==
    /\ user = NoUser
    /\ otp = None /\ locked = FALSE
    /\ mailed = 0
    /\ proven = FALSE
    /\ req = [r \in Requests |-> Idle]

At(r, s) == req[r].at = s
Goto(r, s) == req' = [req EXCEPT ![r].at = s]
Start(r, s) == At(r, "idle") /\ Goto(r, s)
Finish(r) == req' = [req EXCEPT ![r] = Idle]

------------------------------------------------------------------------------
(* Registration and verification.                                           *)

\* register_user: no row has the address.
RegisterRead(r) ==
    /\ ~user.exists
    /\ Start(r, "register")
    /\ UNCHANGED <<user, otp, locked, mailed, proven>>

\* The row, its free subscription and its consents commit together; the second of two
\* concurrent sign-ups runs into the unique index on email.
RegisterCommit(r) ==
    /\ At(r, "register")
    /\ \/ user.exists /\ Finish(r) /\ UNCHANGED user
       \/ /\ ~user.exists
          /\ user' = [NoUser EXCEPT !.exists = TRUE, !.password = TRUE]
          /\ Goto(r, "mail")
    /\ UNCHANGED <<otp, locked, mailed, proven>>

\* Only then is the code stored and mailed.
RegisterMail(r) ==
    /\ At(r, "mail")
    /\ mailed' = mailed + 1
    /\ otp' = [code |-> mailed + 1, attempts |-> 0, resends |-> 0]
    /\ Finish(r)
    /\ UNCHANGED <<user, locked, proven>>

\* verify_otp: the code entered is compared with the stored one.  Code 0 was never mailed.
VerifyRead(r, entered) ==
    /\ ~locked /\ otp # None
    /\ entered <= mailed
    /\ Start(r, IF entered = otp.code THEN "prove" ELSE "count")
    /\ UNCHANGED <<user, otp, locked, mailed, proven>>

\* increment_attempts reads the document again; one that is gone counts as the last attempt.
CountRead(r) ==
    /\ At(r, "count")
    /\ req' = [req EXCEPT ![r] = [at |-> IF otp = None THEN "lock" ELSE "recount",
                                  copy |-> otp]]
    /\ UNCHANGED <<user, otp, locked, mailed, proven>>

\* ... and writes it back whole.  Counts above the limit all mean the lock.
CountWrite(r) ==
    /\ At(r, "recount")
    /\ otp' = [req[r].copy EXCEPT !.attempts = IF @ < MaxAttempts THEN @ + 1 ELSE @]
    /\ IF otp'.attempts = MaxAttempts THEN Goto(r, "lock") ELSE Finish(r)
    /\ UNCHANGED <<user, locked, mailed, proven>>

Lock(r) ==
    /\ At(r, "lock")
    /\ locked' = TRUE
    /\ otp' = None
    /\ Finish(r)
    /\ UNCHANGED <<user, mailed, proven>>

\* The right code is deleted first; is_verified, the onboarding project and the tokens
\* follow.
Prove(r) ==
    /\ At(r, "prove")
    /\ otp' = None
    /\ Goto(r, "verify")
    /\ UNCHANGED <<user, locked, mailed, proven>>

VerifyCommit(r) ==
    /\ At(r, "verify")
    /\ user' = [user EXCEPT !.verified = TRUE]
    /\ proven' = TRUE
    /\ Finish(r)
    /\ UNCHANGED <<otp, locked, mailed>>

\* resend_otp: refused without a stored code, and after the last resend.
ResendRead(r) ==
    /\ ~locked /\ otp # None
    /\ otp.resends < MaxResends
    /\ Start(r, "resend")
    /\ UNCHANGED <<user, otp, locked, mailed, proven>>

\* update_resend reads again; when the document is gone it stores nothing, and the new
\* code is mailed all the same.
RenewRead(r) ==
    /\ At(r, "resend")
    /\ mailed < MaxMails
    /\ \/ /\ otp = None
          /\ mailed' = mailed + 1
          /\ Finish(r)
       \/ /\ otp # None
          /\ req' = [req EXCEPT ![r] = [at |-> "renew", copy |-> otp]]
          /\ UNCHANGED mailed
    /\ UNCHANGED <<user, otp, locked, proven>>

RenewWrite(r) ==
    /\ At(r, "renew")
    /\ mailed < MaxMails
    /\ mailed' = mailed + 1
    /\ otp' = [code |-> mailed + 1, attempts |-> 0, resends |-> req[r].copy.resends + 1]
    /\ Finish(r)
    /\ UNCHANGED <<user, locked, proven>>

------------------------------------------------------------------------------
(* Google.                                                                  *)

\* handle_google_callback, with consent: the row read decides what the callback does.
\* Google vouches for the address.
GoogleRead(r) ==
    /\ \/ ~user.exists /\ Start(r, "create")
       \/ user.exists /\ user.google /\ Start(r, "session")
       \/ user.exists /\ ~user.google /\ user.verified /\ Start(r, "link")
       \/ user.exists /\ ~user.google /\ ~user.verified /\ Start(r, "reclaim")
    /\ UNCHANGED <<user, otp, locked, mailed, proven>>

\* A new row, unless the address was registered meanwhile.
GoogleCreate(r) ==
    /\ At(r, "create")
    /\ user' = IF user.exists THEN user
               ELSE [NoUser EXCEPT !.exists = TRUE, !.verified = TRUE, !.google = TRUE]
    /\ Finish(r)
    /\ UNCHANGED <<otp, locked, mailed, proven>>

\* set_verified_google_link
GoogleLink(r) ==
    /\ At(r, "link")
    /\ user' = [user EXCEPT !.google = TRUE, !.verified = TRUE]
    /\ Finish(r)
    /\ UNCHANGED <<otp, locked, mailed, proven>>

\* reclaim_unverified_for_google: the pending verification code is deleted ...
GoogleReclaim(r) ==
    /\ At(r, "reclaim")
    /\ otp' = None
    /\ Goto(r, "reclaimed")
    /\ UNCHANGED <<user, locked, mailed, proven>>

GoogleReclaimedLinking(r) ==
    /\ At(r, "reclaimed")
    /\ user' = [user EXCEPT !.google = TRUE, !.verified = TRUE]
    /\ Finish(r)
    /\ UNCHANGED <<otp, locked, mailed, proven>>

\* ... and nothing the unproven registrant chose survives the commit.
GoogleReclaimed(r) ==
    /\ At(r, "reclaimed")
    /\ user' = [user EXCEPT !.google = TRUE, !.verified = TRUE, !.password = FALSE]
    /\ Finish(r)
    /\ UNCHANGED <<otp, locked, mailed, proven>>

\* The tokens of a sign-in change nothing here.
GoogleSession(r) ==
    /\ At(r, "session")
    /\ Finish(r)
    /\ UNCHANGED <<user, otp, locked, mailed, proven>>

------------------------------------------------------------------------------
(* Faults and time.                                                         *)

\* A request dies between two of its steps: what it stored in Redis stays.
Abort(r) ==
    /\ ~At(r, "idle")
    /\ Finish(r)
    /\ UNCHANGED <<user, otp, locked, mailed, proven>>

\* Redis drops keys when their time is over.
OtpExpires == otp # None /\ otp' = None /\ UNCHANGED <<user, locked, mailed, proven, req>>
LockExpires == locked /\ locked' = FALSE /\ UNCHANGED <<user, otp, mailed, proven, req>>

\* A request goes on.
Continue(r) ==
    \/ RegisterCommit(r) \/ RegisterMail(r)
    \/ CountRead(r) \/ CountWrite(r) \/ Lock(r) \/ Prove(r) \/ VerifyCommit(r)
    \/ RenewRead(r) \/ RenewWrite(r)
    \/ GoogleCreate(r) \/ GoogleLink(r) \/ GoogleReclaim(r) \/ GoogleReclaimed(r)
    \/ GoogleSession(r)

Next ==
    \/ \E r \in Requests :
        \/ RegisterRead(r) \/ (\E c \in Mails : VerifyRead(r, c)) \/ ResendRead(r)
        \/ GoogleRead(r) \/ Continue(r) \/ Abort(r)
    \/ OtpExpires \/ LockExpires

Spec == Init /\ [][Next]_vars

------------------------------------------------------------------------------
(* Properties.                                                              *)

TypeOK ==
    /\ user \in UserRow
    /\ otp \in OtpRecord \cup {None}
    /\ locked \in BOOLEAN /\ proven \in BOOLEAN
    /\ mailed \in Mails
    /\ req \in [Requests -> RequestState]

\* The password of a verified account is not one chosen by somebody who never showed that
\* the mailbox is theirs.
PasswordProven == user.verified /\ user.password => proven

------------------------------------------------------------------------------
(* Why PasswordProven holds.                                                *)

\* A link is decided on a verified row, and rows stay verified; what is verified or reclaimed
\* is a row that exists, and rows stay.
LinkInv ==
    /\ \A r \in Requests : At(r, "link") => user.verified
    /\ \A r \in Requests :
          req[r].at \in {"prove", "verify", "reclaim", "reclaimed"} => user.exists
    /\ ~user.exists => ~user.verified

\* The row is registered once, and its first code is the first one mailed: there is none to
\* enter or to renew before.
MailInv ==
    /\ ~user.exists => mailed = 0
    /\ \A r, s \in Requests : At(r, "mail") /\ At(s, "mail") => r = s
    /\ \A r \in Requests : At(r, "mail") => user.exists /\ mailed = 0
    /\ \A r \in Requests : req[r].at \in {"resend", "recount", "renew"} => mailed # 0
    /\ \A r \in Requests : req[r].at \in {"recount", "renew"} => req[r].copy # None
    /\ otp # None => mailed # 0

IInv == TypeOK /\ PasswordProven /\ LinkInv /\ MailInv
=============================================================================
