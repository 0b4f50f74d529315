------------------------------- MODULE SignIn -------------------------------
(***************************************************************************)
(* Sign-in with a second factor: the guards that count wrong passwords and  *)
(* wrong codes, the challenge between the two factors, and the enrolment    *)
(* (start_setup, enable, disable) with its one-time recovery codes.         *)
(*                                                                         *)
(* Counters, locks and the challenge live in Redis, the user and the        *)
(* recovery codes in PostgreSQL.  Every command on Redis is a step; a       *)
(* request works on the user row as it read it, and its first UPDATE locks  *)
(* the row until the commit.                                                *)
(***************************************************************************)
EXTENDS Integers, FiniteSets

CONSTANTS
    Requests,       \* request slots of the API processes
    FailureLimit,   \* FAILURE_LIMIT of login_guard, 5 in the code
    MaxEnrolments,  \* bound: secrets generated, and sets of recovery codes
    None

\* What the constants must be.
SignInAssumption ==
    /\ IsFiniteSet(Requests)
    /\ FailureLimit \in Nat \ {0}
    /\ MaxEnrolments \in Nat \ {0}
    /\ None \notin Requests

VARIABLES
    fails,      \* Redis login-fail:<scope>, 0 when absent
    expiring,   \* has that key a time to live?
    locked,     \* Redis login-lock:<scope>
    wrong,      \* history: wrong answers compared in this window, unless nobody was told
    challenge,  \* Redis 2fa:challenge, of the newest sign-in
    row,        \* the row of users
    holder,     \* the request whose transaction has locked that row
    codes,      \* the rows of recovery_codes: which enrolments have one left
    enrolled,   \* history: the newest set of recovery codes
    req         \* the requests in flight

vars == <<fails, expiring, locked, wrong, challenge, row, holder, codes, enrolled, req>>

guard == <<fails, expiring, locked, wrong>>
enrolment == <<row, holder, codes, enrolled>>

------------------------------------------------------------------------------
(* State.                                                                   *)

Scopes == {"account", "2fa"}
Enrolments == 1..MaxEnrolments

UserRow == [enabled : BOOLEAN, secret : Enrolments \cup {None}]

Steps == {"idle", "password", "second", "fail", "ttl", "lock", "clear", "reset", "challenge",
          "answered", "setup", "enable", "disable", "replace", "erase"}

\* scope: the guard a sign-in step is under; seen: the recovery codes the transaction has
\* deleted.
RequestState == [at : Steps, scope : Scopes, seen : SUBSET Enrolments]

Idle == [at |-> "idle", scope |-> "account", seen |-> {}]

Init ==
    /\ fails = [s \in Scopes |-> 0]
    /\ expiring = [s \in Scopes |-> FALSE]
    /\ locked = [s \in Scopes |-> FALSE]
    /\ wrong = [s \in Scopes |-> 0]
    /\ challenge = FALSE
    /\ row = [enabled |-> FALSE, secret |-> None]
    /\ holder = None
    /\ codes = {} /\ enrolled = 0
    /\ req = [r \in Requests |-> Idle]

At(r, s) == req[r].at = s
Goto(r, s) == req' = [req EXCEPT ![r].at = s]
Start(r, s) == At(r, "idle") /\ Goto(r, s)
Enter(r, s, scope) == req' = [req EXCEPT ![r].at = s, ![r].scope = scope]
Finish(r) == req' = [req EXCEPT ![r] = Idle]

\* A wrong answer was compared.
Wrong(s) == wrong' = [wrong EXCEPT ![s] = @ + 1]

------------------------------------------------------------------------------
(* Sign-in.                                                                 *)

\* login_user and login_admin: a locked account is refused before anything is compared.
LoginRead(r) ==
    /\ ~locked["account"]
    /\ At(r, "idle") /\ Enter(r, "password", "account")
    /\ UNCHANGED <<guard, challenge, enrolment>>

\* verify_two_factor_login: the challenge is looked at, not consumed.
SecondRead(r) ==
    /\ challenge /\ ~locked["2fa"]
    /\ At(r, "idle") /\ Enter(r, "second", "2fa")
    /\ UNCHANGED <<guard, challenge, enrolment>>

AnswerWrong(r) ==
    /\ At(r, "password") \/ At(r, "second")
    /\ Goto(r, "fail")
    /\ Wrong(req[r].scope)
    /\ UNCHANGED <<fails, expiring, locked, challenge, enrolment>>

\* The right password, code, or an unused recovery code.
AnswerRight(r) ==
    /\ At(r, "password") \/ At(r, "second")
    /\ Goto(r, "reset")
    /\ UNCHANGED <<guard, challenge, enrolment>>

ResetAll(r) ==
    LET s == req[r].scope
    IN  /\ At(r, "reset")
        /\ fails' = [t \in Scopes |-> 0]
        /\ expiring' = [t \in Scopes |-> FALSE]
        /\ wrong' = [wrong EXCEPT ![s] = 0]
        /\ IF s = "2fa" THEN Goto(r, "answered")
           ELSE IF row.enabled THEN Goto(r, "challenge") ELSE Finish(r)
        /\ UNCHANGED <<locked, challenge, enrolment>>

\* login_guard.reset, of a sign-in that succeeds.
Reset(r) ==
    LET s == req[r].scope
    IN  /\ At(r, "reset")
        /\ fails' = [fails EXCEPT ![s] = 0]
        /\ expiring' = [expiring EXCEPT ![s] = FALSE]
        /\ wrong' = [wrong EXCEPT ![s] = 0]
        /\ IF s = "2fa" THEN Goto(r, "answered")
           ELSE IF row.enabled THEN Goto(r, "challenge") ELSE Finish(r)
        /\ UNCHANGED <<locked, challenge, enrolment>>

\* A second factor is asked for, unless too many wrong ones were given.
Challenge(r) ==
    /\ At(r, "challenge")
    /\ challenge' = (challenge \/ ~locked["2fa"])
    /\ Finish(r)
    /\ UNCHANGED <<guard, enrolment>>

\* delete_challenge, then the session; a recovery code is used, perhaps the last one.
Answered(r) ==
    /\ At(r, "answered")
    /\ challenge' = FALSE
    /\ codes' \in {codes} \cup {codes \ {c} : c \in codes}
    /\ Finish(r)
    /\ UNCHANGED <<guard, row, holder, enrolled>>

------------------------------------------------------------------------------
(* login_guard.record_failure, command by command.                          *)

\* INCR; the first failure starts the window, the last one the lock.  Counts above the
\* limit all mean the lock.
Increment(r) ==
    LET s == req[r].scope
    IN  /\ At(r, "fail")
        /\ fails' = [fails EXCEPT ![s] = IF @ < FailureLimit THEN @ + 1 ELSE @]
        /\ \/ fails[s] = 0 /\ Goto(r, "ttl")
           \/ fails[s] # 0 /\ fails'[s] = FailureLimit /\ Goto(r, "lock")
           \/ fails[s] # 0 /\ fails'[s] < FailureLimit /\ Finish(r)
        /\ UNCHANGED <<expiring, locked, wrong, challenge, enrolment>>

\* EXPIRE: of a key that is there.
Expire(r) ==
    LET s == req[r].scope
    IN  /\ At(r, "ttl")
        /\ expiring' = [expiring EXCEPT ![s] = fails[s] # 0]
        /\ IF FailureLimit = 1 THEN Goto(r, "lock") ELSE Finish(r)
        /\ UNCHANGED <<fails, locked, wrong, challenge, enrolment>>

SetLock(r) ==
    /\ At(r, "lock")
    /\ locked' = [locked EXCEPT ![req[r].scope] = TRUE]
    /\ Goto(r, "clear")
    /\ UNCHANGED <<fails, expiring, wrong, challenge, enrolment>>

\* The counter goes, and with the second factor the challenge and its code.
ClearFails(r) ==
    LET s == req[r].scope
    IN  /\ At(r, "clear")
        /\ fails' = [fails EXCEPT ![s] = 0]
        /\ expiring' = [expiring EXCEPT ![s] = FALSE]
        /\ challenge' = (challenge /\ s = "account")
        /\ Finish(r)
        /\ UNCHANGED <<locked, wrong, enrolment>>

\* The window, or the lock, is over after 15 minutes; no request lasts that long.
Quiet(s) == \A r \in Requests : req[r].scope = s => ~(req[r].at \in {"fail", "ttl", "lock", "clear"})

WindowEnds(s) ==
    /\ expiring[s] /\ Quiet(s)
    /\ fails' = [fails EXCEPT ![s] = 0]
    /\ expiring' = [expiring EXCEPT ![s] = FALSE]
    /\ wrong' = [wrong EXCEPT ![s] = 0]
    /\ UNCHANGED <<locked, challenge, enrolment, req>>

LockEnds(s) ==
    /\ locked[s] /\ Quiet(s)
    /\ locked' = [locked EXCEPT ![s] = FALSE]
    /\ wrong' = [wrong EXCEPT ![s] = 0]
    /\ UNCHANGED <<fails, expiring, challenge, enrolment, req>>

\* Redis drops the challenge after five minutes.
ChallengeEnds ==
    /\ challenge /\ challenge' = FALSE
    /\ UNCHANGED <<guard, enrolment, req>>

------------------------------------------------------------------------------
(* Enrolment.                                                               *)

\* start_setup with an authenticator: not while it is enabled.
SetupRead(r) ==
    /\ ~row.enabled
    /\ Start(r, "setup")
    /\ UNCHANGED <<guard, challenge, enrolment>>

SetupCommit(r) ==
    /\ At(r, "setup")
    /\ holder = None
    /\ \E s \in Enrolments : row' = [row EXCEPT !.secret = s]
    /\ Finish(r)
    /\ UNCHANGED <<guard, challenge, holder, codes, enrolled>>

\* enable: not enabled yet, and a code of the secret.
EnableRead(r) ==
    /\ ~row.enabled /\ row.secret # None
    /\ enrolled < MaxEnrolments
    /\ Start(r, "enable")
    /\ UNCHANGED <<guard, challenge, enrolment>>

\* disable: enabled, and the password or a code.
DisableRead(r) ==
    /\ row.enabled
    /\ Start(r, "disable")
    /\ UNCHANGED <<guard, challenge, enrolment>>

LockRowNever(r) == UNCHANGED holder

\* The UPDATE of the user comes first and waits for the row ...
LockRow(r) ==
    /\ holder = None
    /\ holder' = r

\* ... and then the recovery codes committed by now are deleted.
EnrolmentFlush(r) ==
    /\ LockRow(r)
    /\ \/ At(r, "enable") /\ req' = [req EXCEPT ![r].at = "replace", ![r].seen = codes]
       \/ At(r, "disable") /\ req' = [req EXCEPT ![r].at = "erase", ![r].seen = codes]
    /\ UNCHANGED <<guard, challenge, row, codes, enrolled>>

EnableCommit(r) ==
    /\ At(r, "replace")
    /\ enrolled < MaxEnrolments
    /\ row' = [row EXCEPT !.enabled = TRUE]
    /\ enrolled' = enrolled + 1
    /\ codes' = (codes \ req[r].seen) \cup {enrolled + 1}
    /\ holder' = None
    /\ Finish(r)
    /\ UNCHANGED <<guard, challenge>>

DisableCommit(r) ==
    /\ At(r, "erase")
    /\ row' = [enabled |-> FALSE, secret |-> None]
    /\ codes' = codes \ req[r].seen
    /\ holder' = None
    /\ Finish(r)
    /\ UNCHANGED <<guard, challenge, enrolled>>

\* A request dies between two of its steps: Redis keeps what it stored, PostgreSQL
\* rolls back, and the client learns nothing.
Abort(r) ==
    /\ ~At(r, "idle")
    /\ Finish(r)
    /\ holder' = IF holder = r THEN None ELSE holder
    /\ wrong' = IF req[r].at \in {"fail", "ttl", "lock"}
               THEN [wrong EXCEPT ![req[r].scope] = IF @ > 0 THEN @ - 1 ELSE 0]
               ELSE wrong
    /\ UNCHANGED <<fails, expiring, locked, challenge, row, codes, enrolled>>

------------------------------------------------------------------------------

Next ==
    \/ \E r \in Requests :
        \/ LoginRead(r) \/ SecondRead(r) \/ AnswerWrong(r) \/ AnswerRight(r)
        \/ Reset(r) \/ Challenge(r) \/ Answered(r)
        \/ Increment(r) \/ Expire(r) \/ SetLock(r) \/ ClearFails(r)
        \/ SetupRead(r) \/ SetupCommit(r) \/ EnableRead(r) \/ DisableRead(r)
        \/ EnrolmentFlush(r) \/ EnableCommit(r) \/ DisableCommit(r)
        \/ Abort(r)
    \/ \E s \in Scopes : WindowEnds(s) \/ LockEnds(s)
    \/ ChallengeEnds

Spec == Init /\ [][Next]_vars

------------------------------------------------------------------------------
(* Properties.                                                              *)

TypeOK ==
    /\ fails \in [Scopes -> 0..FailureLimit] /\ wrong \in [Scopes -> Nat]
    /\ expiring \in [Scopes -> BOOLEAN] /\ locked \in [Scopes -> BOOLEAN]
    /\ challenge \in BOOLEAN
    /\ row \in UserRow /\ holder \in Requests \cup {None}
    /\ codes \subseteq Enrolments /\ enrolled \in 0..MaxEnrolments
    /\ req \in [Requests -> RequestState]

\* However the requests interleave, at most FailureLimit - 1 wrong answers are compared
\* before the lock, and one more by each request that had passed the check.
GuessesBounded == \A s \in Scopes : wrong[s] < FailureLimit + Cardinality(Requests)

\* Whatever enabled and disabled the second factor at the same time: while it is disabled
\* no recovery code is valid, and while it is enabled only those handed out last are.
CodesOfOneEnrolment == codes \subseteq IF row.enabled THEN {enrolled} ELSE {}
------------------------------------------------------------------------------
(* Why they hold.                                                           *)

Answering(s) == {r \in Requests : req[r].scope = s /\ req[r].at \in {"password", "second"}}
Failing(s) == {r \in Requests : req[r].scope = s /\ req[r].at = "fail"}
Locking(s) == {r \in Requests : /\ req[r].scope = s
                                /\ req[r].at = "lock" \/ (req[r].at = "ttl" /\ FailureLimit = 1)}

\* Before the lock a wrong answer is in the counter or on its way to it, and those that found
\* the counter full are about to lock; after it only who had passed the check can add one.
GuessInv(s) ==
    /\ ~locked[s] /\ fails[s] < FailureLimit => wrong[s] <= fails[s] + Cardinality(Failing(s))
    /\ ~locked[s] /\ fails[s] = FailureLimit =>
          wrong[s] <= FailureLimit - 1 + Cardinality(Failing(s)) + Cardinality(Locking(s))
    /\ locked[s] =>
          wrong[s] + Cardinality(Answering(s)) <= FailureLimit - 1 + Cardinality(Requests)

\* Who replaces or erases recovery codes holds the row and has seen all of them.
RowInv ==
    \A r \in Requests :
        /\ req[r].at \in {"replace", "erase"} => holder = r /\ codes \subseteq req[r].seen
        /\ req[r].at = "clear" => locked[req[r].scope]

IInv == TypeOK /\ RowInv /\ CodesOfOneEnrolment /\ \A s \in Scopes : GuessInv(s)
=============================================================================
