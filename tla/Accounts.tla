------------------------------ MODULE Accounts ------------------------------
(***************************************************************************)
(* The life of a verified account: sign-in and sign-out, password change    *)
(* and reset, suspension, deletion, restoration, and the purge that          *)
(* anonymizes it after the restore window.                                  *)
(*                                                                         *)
(* A request reads the users row without a lock, works (bcrypt, Google,     *)
(* Redis), and writes the columns it changes when it commits; the mailed    *)
(* recovery codes are Redis documents rewritten by GET and SET.  Each of    *)
(* these is a step, and a request or the worker may be cut off between two  *)
(* of them.  Refresh tokens appear as `live`: is there an unrevoked one?    *)
(***************************************************************************)
EXTENDS Integers

CONSTANTS
    Requests,       \* request slots of the API processes
    RestoreDays,    \* ACCOUNT_RESTORE_DAYS, 30 in the code
    MaxAttempts,    \* MAX_ATTEMPTS of recovery_store, 5 in the code
    MaxDay,         \* bound: the clock of the model
    None

\* What the constants must be; a request is over before a restore window is.
AccountsAssumption ==
    /\ RestoreDays \in Nat \ {0, 1}
    /\ MaxAttempts \in Nat \ {0}
    /\ MaxDay \in Nat \ {0}

VARIABLES
    user,         \* the row of users
    live,         \* an unrevoked refresh token exists
    recovery,     \* Redis password-reset:<email> and account-restore:<email>
    restoredLate, \* history: a restore was committed after the purge had read the row
    day,
    req,          \* the requests in flight
    worker        \* the task that finalizes the deletion

vars == <<user, live, recovery, restoredLate, day, req, worker>>

------------------------------------------------------------------------------
(* State.                                                                   *)

\* deleted = 0 stands for deleted_at IS NULL.
UserRow == [password : BOOLEAN, google : BOOLEAN, status : {"active", "suspended"},
            deleted : 0..MaxDay, anonymized : BOOLEAN]

Purposes == {"reset", "restore"}
Attempts == 0..MaxAttempts

Steps == {"idle", "session", "change", "delete", "reset", "restore", "miscount", "discard"}

\* attempts is the copy of the Redis document a wrong code is counted in.
RequestState == [at : Steps, for : Purposes, attempts : Attempts, late : BOOLEAN]
WorkerState == [at : {"idle", "finalize"}, late : BOOLEAN]

Idle == [at |-> "idle", for |-> "reset", attempts |-> 0, late |-> FALSE]
IdleWorker == [at |-> "idle", late |-> FALSE]

Init ==
    /\ user \in [password : BOOLEAN, google : BOOLEAN, status : {"active"},
                 deleted : {0}, anonymized : {FALSE}]
    /\ user.password \/ user.google
    /\ live = TRUE
    /\ recovery = [p \in Purposes |-> None]
    /\ restoredLate = FALSE
    /\ day = 1
    /\ req = [r \in Requests |-> Idle]
    /\ worker = IdleWorker

\* get_by_email and get_deleted_by_email: an anonymized row no longer has the address.
Found == user.deleted = 0 /\ ~user.anonymized
FoundDeleted == user.deleted # 0 /\ ~user.anonymized
WithinRestoreWindow == user.deleted # 0 /\ day < user.deleted + RestoreDays

\* _authenticate_access_token: every call finds the row again, not deleted, and active.
SignedIn == user.deleted = 0 /\ user.status = "active"

At(r, s) == req[r].at = s
Start(r, s) == At(r, "idle") /\ req' = [req EXCEPT ![r].at = s]
Finish(r) == req' = [req EXCEPT ![r] = Idle]

------------------------------------------------------------------------------
(* Sessions.                                                                *)

\* login_user with the right password, handle_google_callback, refresh_access_token and
\* exchange_editor_launch check the row, and insert the token when they commit.
SessionRead(r) ==
    /\ user.status = "active"
    /\ \/ Found /\ (user.password \/ user.google)
       \/ user.deleted = 0 /\ live
    /\ Start(r, "session")
    /\ UNCHANGED <<user, live, recovery, restoredLate, day, worker>>

SessionCommit(r) ==
    /\ At(r, "session")
    /\ live' = TRUE
    /\ Finish(r)
    /\ UNCHANGED <<user, recovery, restoredLate, day, worker>>

\* logout, revoke_session, revoke_all_sessions: other sessions may be left, or none.
LogOut ==
    /\ SignedIn /\ live
    /\ live' = FALSE
    /\ UNCHANGED <<user, recovery, restoredLate, day, req, worker>>

------------------------------------------------------------------------------
(* Passwords.                                                               *)

\* change_password: re-authenticated by the current password.
ChangeRead(r) ==
    /\ SignedIn /\ user.password
    /\ Start(r, "change")
    /\ UNCHANGED <<user, live, recovery, restoredLate, day, worker>>

\* The new hash, and revoke_all_for_user; reset_password commits the same.
PasswordCommit(r) ==
    /\ \/ At(r, "change") /\ Finish(r)
       \/ At(r, "reset") /\ req' = [req EXCEPT ![r].at = "discard"]
    /\ user' = [user EXCEPT !.password = TRUE]
    /\ live' = FALSE
    /\ UNCHANGED <<recovery, restoredLate, day, worker>>

\* request_password_reset mails a code for an account with a password,
\* request_account_restore one for an account deleted not too long ago.
RequestCode(p) ==
    /\ user.status = "active"
    /\ \/ p = "reset" /\ Found /\ user.password
       \/ p = "restore" /\ FoundDeleted /\ WithinRestoreWindow
    /\ recovery' = [recovery EXCEPT ![p] = 0]
    /\ UNCHANGED <<user, live, restoredLate, day, req, worker>>

\* verify_code: no document, or one with too many attempts, refuses every code.
Guessable(p) == recovery[p] \in Attempts /\ recovery[p] < MaxAttempts

\* A wrong code is counted by writing the document back ...
CodeWrong(r, p) ==
    /\ Guessable(p)
    /\ At(r, "idle")
    /\ req' = [req EXCEPT ![r] = [at |-> "miscount", for |-> p, attempts |-> recovery[p],
                                  late |-> FALSE]]
    /\ UNCHANGED <<user, live, recovery, restoredLate, day, worker>>

MiscountWrite(r) ==
    /\ At(r, "miscount")
    /\ recovery' = [recovery EXCEPT ![req[r].for] = req[r].attempts + 1]
    /\ Finish(r)
    /\ UNCHANGED <<user, live, restoredLate, day, worker>>

\* ... a right one stays in place until the change it allows is committed.
CodeRight(r, p) ==
    /\ Guessable(p)
    /\ user.status = "active"
    /\ \/ p = "reset" /\ Found /\ user.password
       \/ p = "restore" /\ FoundDeleted /\ WithinRestoreWindow
    /\ At(r, "idle")
    /\ req' = [req EXCEPT ![r].at = p, ![r].for = p]
    /\ UNCHANGED <<user, live, recovery, restoredLate, day, worker>>

DiscardCode(r) ==
    /\ At(r, "discard")
    /\ recovery' = [recovery EXCEPT ![req[r].for] = None]
    /\ Finish(r)
    /\ UNCHANGED <<user, live, restoredLate, day, worker>>

------------------------------------------------------------------------------
(* Suspension, deletion, restoration, purge.                                *)

\* ban_user, unban_user; neither touches the sessions.
SetStatus(status) ==
    /\ user.deleted = 0 /\ user.status # status
    /\ user' = [user EXCEPT !.status = status]
    /\ UNCHANGED <<live, recovery, restoredLate, day, req, worker>>

\* delete_account, re-authenticated by the password or by Google.
DeleteRead(r) ==
    /\ SignedIn /\ (user.password \/ user.google)
    /\ Start(r, "delete")
    /\ UNCHANGED <<user, live, recovery, restoredLate, day, worker>>

DeleteCommit(r) ==
    /\ At(r, "delete")
    /\ user' = [user EXCEPT !.deleted = day]
    /\ live' = FALSE
    /\ Finish(r)
    /\ UNCHANGED <<recovery, restoredLate, day, worker>>

\* confirm_account_restore, after CodeRight.
RestoreCommit(r) ==
    /\ At(r, "restore")
    /\ user' = [user EXCEPT !.deleted = 0]
    /\ restoredLate' = (restoredLate \/ worker.at = "finalize" \/ user.anonymized)
    /\ req' = [req EXCEPT ![r].at = "discard"]
    /\ UNCHANGED <<live, recovery, day, worker>>

FinalizeReadLater ==
    /\ worker.at = "idle"
    /\ user.deleted # 0 /\ user.deleted < day - RestoreDays
    /\ worker' = [worker EXCEPT !.at = "finalize"]
    /\ UNCHANGED <<user, live, recovery, restoredLate, day, req>>

FinalizeCommitKeepingSessions ==
    /\ worker.at = "finalize"
    /\ user' = [user EXCEPT !.password = FALSE, !.google = FALSE, !.anonymized = TRUE]
    /\ worker' = IdleWorker
    /\ UNCHANGED <<live, recovery, restoredLate, day, req>>

\* finalize_account_deletion: run by the daily purge for the rows it lists, and by the task
\* delete_account scheduled, which may come late, twice or not at all.
FinalizeRead ==
    /\ worker.at = "idle"
    /\ user.deleted # 0 /\ user.deleted <= day - RestoreDays
    /\ worker' = [worker EXCEPT !.at = "finalize"]
    /\ UNCHANGED <<user, live, recovery, restoredLate, day, req>>

FinalizeCommit ==
    /\ worker.at = "finalize"
    /\ user' = [user EXCEPT !.password = FALSE, !.google = FALSE, !.anonymized = TRUE]
    /\ live' = FALSE
    /\ worker' = IdleWorker
    /\ UNCHANGED <<recovery, restoredLate, day, req>>

------------------------------------------------------------------------------
(* Faults and time.                                                         *)

\* A request dies between two of its steps: what it committed or stored stays.
Abort(r) ==
    /\ ~At(r, "idle")
    /\ Finish(r)
    /\ UNCHANGED <<user, live, recovery, restoredLate, day, worker>>

WorkerCrash ==
    /\ worker.at # "idle"
    /\ worker' = IdleWorker
    /\ UNCHANGED <<user, live, recovery, restoredLate, day, req>>

\* Redis drops a code after 15 minutes.
CodeExpires(p) ==
    /\ recovery[p] # None
    /\ recovery' = [recovery EXCEPT ![p] = None]
    /\ UNCHANGED <<user, live, restoredLate, day, req, worker>>

\* A day passes; nothing is in flight across two midnights.
Tick ==
    /\ day < MaxDay
    /\ \A r \in Requests : ~req[r].late
    /\ ~worker.late
    /\ day' = day + 1
    /\ req' = [r \in Requests |-> [req[r] EXCEPT !.late = ~At(r, "idle")]]
    /\ worker' = [worker EXCEPT !.late = worker.at # "idle"]
    /\ UNCHANGED <<user, live, recovery, restoredLate>>

\* A request goes on.
Continue(r) ==
    \/ SessionCommit(r) \/ PasswordCommit(r) \/ MiscountWrite(r) \/ DiscardCode(r)
    \/ DeleteCommit(r) \/ RestoreCommit(r)

Next ==
    \/ \E r \in Requests :
        \/ SessionRead(r) \/ ChangeRead(r) \/ DeleteRead(r)
        \/ \E p \in Purposes : CodeWrong(r, p) \/ CodeRight(r, p)
        \/ Continue(r) \/ Abort(r)
    \/ LogOut
    \/ \E p \in Purposes : RequestCode(p) \/ CodeExpires(p)
    \/ \E s \in {"active", "suspended"} : SetStatus(s)
    \/ FinalizeRead \/ FinalizeCommit \/ WorkerCrash
    \/ Tick

Spec == Init /\ [][Next]_vars

\* Requests end, days pass, beat starts the purge every day, and it does not crash every
\* time.
Fairness ==
    /\ \A r \in Requests : WF_vars(Continue(r))
    /\ WF_vars(Tick)
    /\ WF_vars(FinalizeRead) /\ SF_vars(FinalizeCommit)

FairSpec == Spec /\ Fairness

------------------------------------------------------------------------------
(* Properties.                                                              *)

TypeOK ==
    /\ user \in UserRow
    /\ live \in BOOLEAN /\ restoredLate \in BOOLEAN
    /\ recovery \in [Purposes -> Attempts \cup {None}]
    /\ day \in 1..MaxDay
    /\ req \in [Requests -> RequestState]
    /\ worker \in WorkerState

\* An anonymized account stays deleted, without a way to sign in and without a session,
\* except when a restore confirmed in time is committed after the purge has read the row.
PurgeFinal ==
    user.anonymized => \/ restoredLate
                       \/ /\ user.deleted # 0
                          /\ ~user.password /\ ~user.google /\ ~live

\* A deleted account that nobody restores is purged.
DeletedPurged ==
    (user.deleted # 0 /\ user.deleted + RestoreDays <= MaxDay)
        ~> (user.deleted = 0 \/ user.anonymized \/ user.deleted + RestoreDays > MaxDay)
------------------------------------------------------------------------------
(* Why the purge is final.                                                  *)

\* Steps that begin only while the account is not deleted, and write it.
Writing == {"session", "change", "delete", "reset"}

\* Such a step that is under way in a deleted account began before the deletion, so not
\* more than a midnight ago; the worker waits for more than one.
IInv ==
    /\ TypeOK
    /\ \A r \in Requests : At(r, "miscount") => req[r].attempts < MaxAttempts
    /\ ~restoredLate =>
          /\ user.deleted # 0 =>
                \A r \in Requests : req[r].at \in Writing =>
                    day <= user.deleted + (IF req[r].late THEN 1 ELSE 0)
          /\ worker.at = "finalize" \/ user.anonymized =>
                user.deleted # 0 /\ user.deleted + RestoreDays <= day
    /\ PurgeFinal
=============================================================================
