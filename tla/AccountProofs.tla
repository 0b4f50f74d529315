---------------------------- MODULE AccountProofs ----------------------------
(***************************************************************************)
(* What the parts of an account promise, for any number of requests, and     *)
(* whatever the limits are: SignUp, SignIn, Accounts, Launch, Coupons and     *)
(* Access.  Each part has an inductive invariant of its own; the last section *)
(* carries it over to the behaviours that TLC explores, in which one of them  *)
(* moves and the others rest.                                                *)
(***************************************************************************)
EXTENDS MCAccounts, FiniteSetTheorems, TLAPS

\* SignIn and Coupons count with their own instances of FiniteSets, which are this module's.
LEMMA SameFiniteSets ==
    \A X : /\ C!IsFiniteSet(X) = IsFiniteSet(X) /\ C!Cardinality(X) = Cardinality(X)
           /\ S!IsFiniteSet(X) = IsFiniteSet(X) /\ S!Cardinality(X) = Cardinality(X)
BY DEF C!IsFiniteSet, C!Cardinality, S!IsFiniteSet, S!Cardinality, IsFiniteSet, Cardinality

-----------------------------------------------------------------------------
(* SignUp: no password from before the mailbox was proven.                  *)

\* Nothing is registered and nobody is signing up.
LEMMA InitOK == Init => IInv
<1> SUFFICES ASSUME Init PROVE IInv
  OBVIOUS
<1>1. Idle \in RequestState /\ Idle.at = "idle" /\ NoUser \in UserRow /\ ~NoUser.verified
  BY DEF Idle, RequestState, Steps, NoUser, UserRow
<1>2. 0 \in Mails
  BY SignUpAssumption DEF Mails
<1>3. TypeOK
  BY <1>1, <1>2 DEF Init, TypeOK
<1>4. \A r \in Requests : req[r].at = "idle"
  BY <1>1 DEF Init
<1> QED
  BY <1>1, <1>3, <1>4 DEF Init, IInv, PasswordProven, LinkInv, MailInv, At

\* Registration keeps the invariant.
LEMMA RegistrationOK ==
    ASSUME IInv, NEW r \in Requests,
           RegisterRead(r) \/ RegisterCommit(r) \/ RegisterMail(r)
    PROVE  IInv'
<1>1. TypeOK /\ r \in DOMAIN req
  BY DEF IInv, TypeOK
<1>2. CASE RegisterRead(r)
  BY <1>1, <1>2 DEF RegisterRead, IInv, TypeOK, PasswordProven, LinkInv, MailInv, At, Start,
     Goto, RequestState, Steps
<1>3. CASE RegisterCommit(r)
  <2>1. CASE user.exists /\ Finish(r) /\ UNCHANGED user
    BY <1>1, <1>3, <2>1 DEF RegisterCommit, IInv, TypeOK, PasswordProven, LinkInv, MailInv, At,
       Finish, Idle, RequestState, Steps
  <2>2. CASE /\ ~user.exists
             /\ user' = [NoUser EXCEPT !.exists = TRUE, !.password = TRUE]
             /\ Goto(r, "mail")
    <3>1. user' \in UserRow /\ user'.exists /\ ~user'.verified
      BY <2>2 DEF NoUser, UserRow
    <3> QED
      BY <1>1, <1>3, <2>2, <3>1 DEF RegisterCommit, IInv, TypeOK, PasswordProven, LinkInv,
         MailInv, At, Goto, RequestState, Steps
  <2> QED
    BY <1>3, <2>1, <2>2 DEF RegisterCommit
<1>4. CASE RegisterMail(r)
  <2>1. mailed = 0 /\ user.exists /\ mailed' = 1
    BY <1>4 DEF RegisterMail, IInv, MailInv
  <2>2. mailed' \in Mails /\ otp' \in OtpRecord
    BY <1>1, <1>4, <2>1, SignUpAssumption DEF RegisterMail, Mails, OtpRecord
  <2>3. Idle \in RequestState /\ Idle.at = "idle"
    BY DEF Idle, RequestState, Steps
  <2>4. TypeOK'
    BY <1>1, <1>4, <2>2, <2>3 DEF RegisterMail, TypeOK, Finish
  <2>5. \A s \in Requests : req'[s] = IF s = r THEN Idle ELSE req[s]
    BY <1>1, <1>4 DEF RegisterMail, TypeOK, Finish
  <2>6. LinkInv' /\ PasswordProven'
    BY <1>4, <2>3, <2>5 DEF RegisterMail, IInv, LinkInv, PasswordProven, At
  <2>7. \A s \in Requests : req'[s].at # "mail"
    BY <1>4, <2>3, <2>5 DEF RegisterMail, IInv, MailInv, At
  <2>8. MailInv'
    BY <1>4, <2>1, <2>3, <2>5, <2>7 DEF RegisterMail, IInv, MailInv, At
  <2> QED
    BY <2>4, <2>6, <2>8 DEF IInv
<1> QED
  BY <1>2, <1>3, <1>4

\* Entering a code, right or wrong, keeps the invariant.
LEMMA VerificationOK ==
    ASSUME IInv, NEW r \in Requests,
           \/ (\E c \in Mails : VerifyRead(r, c)) \/ CountRead(r) \/ CountWrite(r)
           \/ Lock(r) \/ Prove(r) \/ VerifyCommit(r)
    PROVE  IInv'
<1>0. r \in DOMAIN req /\ Idle \in RequestState /\ Idle.at = "idle"
  BY DEF IInv, TypeOK, Idle, RequestState, Steps
<1>1. CASE \E c \in Mails : VerifyRead(r, c)
  <2>1. PICK c \in Mails : VerifyRead(r, c)
    BY <1>1
  <2> QED
    BY <1>0, <2>1 DEF VerifyRead, IInv, TypeOK, PasswordProven, LinkInv, MailInv, At, Start,
       Goto, RequestState, Steps
<1>2. CASE CountRead(r)
  BY <1>0, <1>2 DEF CountRead, IInv, TypeOK, PasswordProven, LinkInv,
     MailInv, At, RequestState, Steps
<1>3. CASE CountWrite(r)
  <2>1. req[r].copy \in OtpRecord /\ mailed # 0
    BY <1>3 DEF CountWrite, IInv, TypeOK, MailInv, At, RequestState
  <2>2. otp' \in OtpRecord
    BY <1>3, <2>1, SignUpAssumption DEF CountWrite, OtpRecord
  <2>3. Goto(r, "lock") \/ Finish(r)
    BY <1>3 DEF CountWrite
  <2>4. /\ req' \in [Requests -> RequestState]
        /\ req'[r].at \in {"lock", "idle"}
        /\ \A s \in Requests : s # r => req'[s] = req[s]
    BY <1>0, <2>3 DEF IInv, TypeOK, Goto, Finish, RequestState, Steps
  <2> QED
    BY <1>3, <2>1, <2>2, <2>4 DEF CountWrite, IInv, TypeOK, PasswordProven, LinkInv, MailInv, At
<1>4. CASE Lock(r)
  BY <1>0, <1>4 DEF Lock, Finish, IInv, TypeOK, PasswordProven, LinkInv,
     MailInv, At, RequestState, Steps
<1>5. CASE Prove(r)
  BY <1>0, <1>5 DEF Prove, Goto, IInv, TypeOK, PasswordProven, LinkInv,
     MailInv, At, RequestState, Steps
<1>6. CASE VerifyCommit(r)
  <2>1. user' \in UserRow /\ user'.verified /\ user'.exists = user.exists
    BY <1>6 DEF VerifyCommit, IInv, TypeOK, UserRow
  <2>2. user.exists
    BY <1>6 DEF VerifyCommit, IInv, LinkInv, At
  <2> QED
    BY <1>0, <1>6, <2>1, <2>2 DEF VerifyCommit, IInv, TypeOK, PasswordProven, LinkInv, MailInv,
       At, Finish
<1> QED
  BY <1>1, <1>2, <1>3, <1>4, <1>5, <1>6

\* Renewing a code keeps the invariant.
LEMMA ResendOK ==
    ASSUME IInv, NEW r \in Requests, ResendRead(r) \/ RenewRead(r) \/ RenewWrite(r)
    PROVE  IInv'
<1>0. r \in DOMAIN req /\ Idle \in RequestState /\ Idle.at = "idle"
  BY DEF IInv, TypeOK, Idle, RequestState, Steps
<1>1. CASE ResendRead(r)
  BY <1>0, <1>1 DEF ResendRead, Start, Goto, IInv, TypeOK, PasswordProven, LinkInv,
     MailInv, At, RequestState, Steps
<1>2. CASE RenewRead(r)
  <2>1. mailed # 0 /\ mailed \in Nat /\ mailed + 1 \in Mails
    BY <1>2, SignUpAssumption DEF RenewRead, IInv, TypeOK, MailInv, At, Mails
  <2>2. CASE otp = None /\ mailed' = mailed + 1 /\ Finish(r)
    BY <1>0, <1>2, <2>1, <2>2 DEF RenewRead, Finish, IInv, TypeOK, PasswordProven, LinkInv,
       MailInv, At
  <2>3. CASE /\ otp # None
             /\ req' = [req EXCEPT ![r] = [at |-> "renew", copy |-> otp]]
             /\ UNCHANGED mailed
    BY <1>0, <1>2, <2>1, <2>3 DEF RenewRead, IInv, TypeOK, PasswordProven, LinkInv, MailInv, At,
       RequestState, Steps
  <2> QED
    BY <1>2, <2>2, <2>3 DEF RenewRead
<1>3. CASE RenewWrite(r)
  <2>1. req[r].copy \in OtpRecord /\ mailed # 0 /\ mailed \in Nat /\ mailed + 1 \in Mails
    BY <1>3, SignUpAssumption DEF RenewWrite, IInv, TypeOK, MailInv, At, RequestState, Mails
  <2>2. otp' \in OtpRecord
    BY <1>3, <2>1, SignUpAssumption DEF RenewWrite, OtpRecord
  <2> QED
    BY <1>0, <1>3, <2>1, <2>2 DEF RenewWrite, Finish, IInv, TypeOK, PasswordProven, LinkInv,
       MailInv, At
<1> QED
  BY <1>1, <1>2, <1>3

\* Signing in with Google keeps the invariant: what it links was verified, and what it
\* reclaims loses its password.
LEMMA GoogleOK ==
    ASSUME IInv, NEW r \in Requests,
           \/ GoogleRead(r) \/ GoogleCreate(r) \/ GoogleLink(r) \/ GoogleReclaim(r)
           \/ GoogleReclaimed(r) \/ GoogleSession(r)
    PROVE  IInv'
<1>0. r \in DOMAIN req /\ Idle \in RequestState /\ Idle.at = "idle"
  BY DEF IInv, TypeOK, Idle, RequestState, Steps
<1>1. CASE GoogleRead(r)
  BY <1>0, <1>1 DEF GoogleRead, Start, Goto, IInv, TypeOK, PasswordProven, LinkInv,
     MailInv, At, RequestState, Steps
<1>2. CASE GoogleCreate(r)
  <2>1. /\ user' \in UserRow
        /\ user'.exists
        /\ user' = user \/ ~user'.password
    BY <1>2 DEF GoogleCreate, IInv, TypeOK, UserRow, NoUser
  <2>2. user.verified => user'.verified
    BY <1>2 DEF GoogleCreate, IInv, LinkInv
  <2> QED
    BY <1>0, <1>2, <2>1, <2>2 DEF GoogleCreate, Finish, IInv, TypeOK, PasswordProven, LinkInv,
       MailInv, At
<1>3. CASE GoogleLink(r)
  <2>1. /\ user' \in UserRow /\ user'.verified
        /\ user'.exists = user.exists /\ user'.password = user.password
    BY <1>3 DEF GoogleLink, IInv, TypeOK, UserRow
  <2>2. user.verified
    BY <1>3 DEF GoogleLink, IInv, LinkInv
  <2> QED
    BY <1>0, <1>3, <2>1, <2>2 DEF GoogleLink, Finish, IInv, TypeOK, PasswordProven, LinkInv,
       MailInv, At
<1>4. CASE GoogleReclaim(r)
  BY <1>0, <1>4 DEF GoogleReclaim, Goto, IInv, TypeOK, PasswordProven, LinkInv,
     MailInv, At, RequestState, Steps
<1>5. CASE GoogleReclaimed(r)
  <2>1. /\ user' \in UserRow /\ user'.verified
        /\ user'.exists = user.exists /\ ~user'.password
    BY <1>5 DEF GoogleReclaimed, IInv, TypeOK, UserRow
  <2>2. user.exists
    BY <1>5 DEF GoogleReclaimed, IInv, LinkInv, At
  <2> QED
    BY <1>0, <1>5, <2>1, <2>2 DEF GoogleReclaimed, Finish, IInv, TypeOK, PasswordProven, LinkInv,
       MailInv, At
<1>6. CASE GoogleSession(r)
  BY <1>0, <1>6 DEF GoogleSession, Finish, IInv, TypeOK, PasswordProven, LinkInv,
     MailInv, At, RequestState, Steps
<1> QED
  BY <1>1, <1>2, <1>3, <1>4, <1>5, <1>6

\* A request that dies, and keys whose time is over, keep the invariant.
LEMMA FaultsOK ==
    ASSUME IInv, (\E r \in Requests : Abort(r)) \/ OtpExpires \/ LockExpires
    PROVE  IInv'
<1>1. Idle \in RequestState /\ Idle.at = "idle"
  BY DEF Idle, RequestState, Steps
<1>2. ASSUME NEW r \in Requests, Abort(r) PROVE IInv'
  BY <1>1, <1>2 DEF Abort, Finish, IInv, TypeOK, PasswordProven, LinkInv, MailInv, At
<1>3. CASE OtpExpires
  BY <1>3 DEF OtpExpires, IInv, TypeOK, PasswordProven, LinkInv, MailInv, At
<1>4. CASE LockExpires
  BY <1>4 DEF LockExpires, IInv, TypeOK, PasswordProven, LinkInv, MailInv, At
<1> QED
  BY <1>2, <1>3, <1>4

LEMMA NextOK == IInv /\ [Next]_vars => IInv'
<1> SUFFICES ASSUME IInv, [Next]_vars PROVE IInv'
  OBVIOUS
<1>1. CASE UNCHANGED vars
  BY <1>1 DEF vars, IInv, TypeOK, PasswordProven, LinkInv, MailInv, At
<1>2. CASE Next
  BY <1>2, RegistrationOK, VerificationOK, ResendOK, GoogleOK, FaultsOK DEF Next, Continue
<1> QED
  BY <1>1, <1>2

\* A link is decided on a verified row, a reclaimed row has no password, and a code can be
\* entered only after the row was registered and a code was mailed.
THEOREM SignUpInvariant == Spec => []IInv
<1>1. Init => IInv
  BY InitOK
<1>2. IInv /\ [Next]_vars => IInv'
  BY NextOK
<1> QED
  BY <1>1, <1>2, PTL DEF Spec

\* Nobody gets into a mailbox's verified account with a password chosen before the mailbox
\* was shown to be theirs: neither through the code nor through Google.
THEOREM PasswordsProven == Spec => []PasswordProven
<1>1. IInv => PasswordProven
  BY DEF IInv
<1> QED
  BY <1>1, SignUpInvariant, PTL

-----------------------------------------------------------------------------
(* SignIn: what is known about the guards when nobody waits for anybody.    *)

\* The requests that are at one of some steps under one guard, and whether a request is.
There(f, s, steps) == {q \in Requests : f[q].scope = s /\ f[q].at \in steps}
Count(f, s, steps) == Cardinality(There(f, s, steps))
Mark(x, s, steps) == IF x.scope = s /\ x.at \in steps THEN 1 ELSE 0

\* The steps at which a wrong answer may still come, is on its way to the counter, or has
\* filled it.
Answers == {"password", "second"}
Fails == {"fail"}
Locks == IF FailureLimit = 1 THEN {"ttl", "lock"} ELSE {"lock"}

LEMMA FiniteRequests ==
    ASSUME S!SignInAssumption
    PROVE  /\ IsFiniteSet(Requests) /\ S!Cardinality(Requests) = Cardinality(Requests)
           /\ Cardinality(Requests) \in Nat /\ FailureLimit \in Nat /\ FailureLimit # 0
           /\ MaxEnrolments \in Nat
BY SameFiniteSets, FS_CardinalityType DEF S!SignInAssumption

\* A request is at one step, so that the counts of three sets of steps are those of requests.
LEMMA OneStepEach ==
    ASSUME IsFiniteSet(Requests), NEW f, NEW s
    PROVE  Count(f, s, Answers) + Count(f, s, Fails)
              + Count(f, s, Locks) <= Cardinality(Requests)
<1> DEFINE X == There(f, s, Answers)
           Y == There(f, s, Fails)
           Z == There(f, s, Locks)
<1>1. X \in SUBSET Requests /\ Y \in SUBSET Requests /\ Z \in SUBSET Requests
  BY DEF There
<1>2. X \cap Y = {} /\ (X \cup Y) \cap Z = {}
  BY DEF There, Answers, Fails, Locks
<1> HIDE DEF X, Y, Z
<1>3. /\ IsFiniteSet(X) /\ IsFiniteSet(Y) /\ IsFiniteSet(Z)
      /\ Cardinality(X) \in Nat /\ Cardinality(Y) \in Nat /\ Cardinality(Z) \in Nat
  BY <1>1, FS_Subset, FS_CardinalityType
<1>4. IsFiniteSet(X \cup Y) /\ Cardinality(X \cup Y) = Cardinality(X) + Cardinality(Y)
  BY <1>2, <1>3, FS_Union, FS_EmptySet
<1>5. PICK W : W = X \cup Y
  OBVIOUS
<1>6. W \cap Z = {} /\ W \cup Z \in SUBSET Requests /\ IsFiniteSet(W)
  BY <1>1, <1>2, <1>4, <1>5
<1>8. Cardinality(W \cup Z) = Cardinality(W) + Cardinality(Z)
  BY <1>3, <1>6, FS_Union, FS_EmptySet
<1>9. Cardinality(W \cup Z) <= Cardinality(Requests)
  BY <1>6, FS_Subset
<1>7. Cardinality(X) + Cardinality(Y) + Cardinality(Z) <= Cardinality(Requests)
  BY <1>3, <1>4, <1>5, <1>8, <1>9
<1> QED
  BY <1>7 DEF X, Y, Z, Count

\* The invariant of a guard, in numbers.
Guess(f, filled, closed, given, s) ==
    /\ ~closed /\ filled < FailureLimit => given <= filled + Count(f, s, Fails)
    /\ ~closed /\ filled = FailureLimit =>
          given <= FailureLimit - 1 + Count(f, s, Fails)
                                    + Count(f, s, Locks)
    /\ closed =>
          given + Count(f, s, Answers) <= FailureLimit - 1 + Cardinality(Requests)

LEMMA GuessCounts ==
    ASSUME NEW s
    PROVE  /\ S!GuessInv(s) <=> Guess(signInReq, fails[s], lockout[s], wrong[s], s)
           /\ S!GuessInv(s)' <=> Guess(signInReq', fails'[s], lockout'[s], wrong'[s], s)
<1>1. /\ S!Failing(s) = There(signInReq, s, Fails)
      /\ S!Locking(s) = There(signInReq, s, Locks)
      /\ S!Answering(s) = There(signInReq, s, Answers)
  BY DEF S!Failing, S!Locking, S!Answering, There, Fails, Locks, Answers
<1>2. /\ S!Failing(s)' = There(signInReq', s, Fails)
      /\ S!Locking(s)' = There(signInReq', s, Locks)
      /\ S!Answering(s)' = There(signInReq', s, Answers)
  BY DEF S!Failing, S!Locking, S!Answering, There, Fails, Locks, Answers
<1>3. S!GuessInv(s) <=> Guess(signInReq, fails[s], lockout[s], wrong[s], s)
  BY <1>1, SameFiniteSets DEF S!GuessInv, Guess, Count
<1>4. S!GuessInv(s)' <=> Guess(signInReq', fails'[s], lockout'[s], wrong'[s], s)
  BY <1>2, SameFiniteSets DEF S!GuessInv, Guess, Count
<1> QED
  BY <1>3, <1>4

\* A guard's counts before and after a request moves, for the arithmetic that follows.
LEMMA GuessStep ==
    ASSUME S!SignInAssumption, S!IInv, NEW r \in Requests, NEW s \in S!Scopes,
           \A q \in Requests : q # r => signInReq'[q] = signInReq[q]
    PROVE  /\ \A steps \in {Answers, Fails, Locks} :
                 /\ Mark(signInReq[r], s, steps) \in {0, 1}
                 /\ Mark(signInReq'[r], s, steps) \in {0, 1}
                 /\ Count(signInReq, s, steps) \in Nat /\ Count(signInReq', s, steps) \in Nat
                 /\ Count(signInReq', s, steps) + Mark(signInReq[r], s, steps)
                       = Count(signInReq, s, steps) + Mark(signInReq'[r], s, steps)
           /\ Count(signInReq, s, Answers) + Count(signInReq, s, Fails)
                 + Count(signInReq, s, Locks) <= Cardinality(Requests)
           /\ Guess(signInReq, fails[s], lockout[s], wrong[s], s)
           /\ Guess(signInReq', fails'[s], lockout'[s], wrong'[s], s) => S!GuessInv(s)'
<1>1. ASSUME NEW steps
      PROVE  /\ Mark(signInReq[r], s, steps) \in {0, 1}
             /\ Mark(signInReq'[r], s, steps) \in {0, 1}
             /\ Count(signInReq, s, steps) \in Nat /\ Count(signInReq', s, steps) \in Nat
             /\ Count(signInReq', s, steps) + Mark(signInReq[r], s, steps)
                   = Count(signInReq, s, steps) + Mark(signInReq'[r], s, steps)
  <2> DEFINE X == There(signInReq, s, steps)
             Y == There(signInReq', s, steps)
             Z == {q \in Requests \ {r} : signInReq[q].scope = s /\ signInReq[q].at \in steps}
  <2>1. IsFiniteSet(Z) /\ r \notin Z /\ Cardinality(Z) \in Nat
    <3>1. Z \in SUBSET Requests /\ r \notin Z
      OBVIOUS
    <3>2. IsFiniteSet(Z)
      BY <3>1, FiniteRequests, FS_Subset
    <3> QED
      BY <3>1, <3>2, FS_CardinalityType
  <2>2. X = IF Mark(signInReq[r], s, steps) = 1 THEN Z \cup {r} ELSE Z
    BY DEF There, Mark
  <2>3. Y = IF Mark(signInReq'[r], s, steps) = 1 THEN Z \cup {r} ELSE Z
    BY DEF There, Mark
  <2>4. Cardinality(Z \cup {r}) = Cardinality(Z) + 1
    BY <2>1, FS_AddElement
  <2>5. Mark(signInReq[r], s, steps) \in {0, 1} /\ Mark(signInReq'[r], s, steps) \in {0, 1}
    BY DEF Mark
  <2> HIDE DEF X, Y, Z
  <2>6. /\ Cardinality(X) \in Nat /\ Cardinality(Y) \in Nat
        /\ Cardinality(Y) + Mark(signInReq[r], s, steps)
              = Cardinality(X) + Mark(signInReq'[r], s, steps)
    BY <2>1, <2>2, <2>3, <2>4, <2>5
  <2> QED
    BY <2>5, <2>6 DEF X, Y, Count
<1>2. Count(signInReq, s, Answers) + Count(signInReq, s, Fails)
         + Count(signInReq, s, Locks) <= Cardinality(Requests)
  BY OneStepEach, FiniteRequests
<1>3. Guess(signInReq, fails[s], lockout[s], wrong[s], s)
  BY GuessCounts DEF S!IInv
<1>4. Guess(signInReq', fails'[s], lockout'[s], wrong'[s], s) => S!GuessInv(s)'
  BY GuessCounts
<1> QED
  BY <1>1, <1>2, <1>3, <1>4

\* The numbers of a guard.
LEMMA GuardTypes ==
    ASSUME S!IInv, NEW s \in S!Scopes
    PROVE  /\ fails[s] \in Nat /\ fails[s] <= FailureLimit /\ wrong[s] \in Nat
           /\ lockout[s] \in BOOLEAN
BY DEF S!IInv, S!TypeOK

LEMMA RequestTypes ==
    ASSUME S!IInv, NEW r \in Requests
    PROVE  /\ signInReq[r] \in S!RequestState /\ signInReq[r].scope \in S!Scopes
           /\ S!Idle \in S!RequestState /\ S!Idle.at = "idle" /\ S!Idle.seen = {}
BY DEF S!IInv, S!TypeOK, S!RequestState, S!Idle, S!Steps, S!Scopes

\* A guard that a request leaves alone: its own step counts neither before nor after, or
\* it takes back a wrong answer.
LEMMA GuardAlone ==
    ASSUME S!SignInAssumption, S!IInv, NEW r \in Requests, NEW s \in S!Scopes,
           \A q \in Requests : q # r => signInReq'[q] = signInReq[q],
           Mark(signInReq'[r], s, Fails) = Mark(signInReq[r], s, Fails),
           Mark(signInReq'[r], s, Locks) = Mark(signInReq[r], s, Locks),
           Mark(signInReq'[r], s, Answers) = Mark(signInReq[r], s, Answers)
              \/ Mark(signInReq'[r], s, Answers) = 0 \/ ~lockout[s],
           fails'[s] = fails[s], lockout'[s] = lockout[s], wrong'[s] = wrong[s]
    PROVE  S!GuessInv(s)'
<1>1. \A x, steps : Mark(x, s, steps) \in {0, 1}
  BY DEF Mark
<1>2. /\ Count(signInReq', s, Fails) = Count(signInReq, s, Fails)
      /\ Count(signInReq', s, Locks) = Count(signInReq, s, Locks)
      /\ lockout[s] => Count(signInReq', s, Answers) <= Count(signInReq, s, Answers)
      /\ Count(signInReq, s, Answers) \in Nat /\ Count(signInReq', s, Answers) \in Nat
  BY <1>1, GuessStep
<1>3. Guess(signInReq, fails[s], lockout[s], wrong[s], s)
  BY GuessStep
<1>4. Guess(signInReq', fails'[s], lockout'[s], wrong'[s], s)
  BY <1>2, <1>3, GuardTypes, FiniteRequests DEF Guess
<1> QED
  BY <1>4, GuessStep
\* What one request does to the requests.
LEMMA OneSignIn ==
    ASSUME S!IInv, NEW r \in Requests, NEW t \in S!RequestState,
           signInReq' = [signInReq EXCEPT ![r] = t]
    PROVE  /\ signInReq' \in [Requests -> S!RequestState] /\ signInReq'[r] = t
           /\ \A q \in Requests : q # r => signInReq'[q] = signInReq[q]
BY DEF S!IInv, S!TypeOK

\* A request at another step, with the rest of its state as it was.
LEMMA OtherStep ==
    ASSUME S!IInv, NEW r \in Requests, NEW a \in S!Steps, S!Goto(r, a)
    PROVE  /\ signInReq' \in [Requests -> S!RequestState]
           /\ signInReq'[r].at = a /\ signInReq'[r].scope = signInReq[r].scope
           /\ \A q \in Requests : q # r => signInReq'[q] = signInReq[q]
<1>1. PICK t : t = [signInReq[r] EXCEPT !.at = a]
  OBVIOUS
<1>2. t \in S!RequestState /\ t.at = a /\ t.scope = signInReq[r].scope
  BY <1>1, RequestTypes DEF S!RequestState
<1>3. signInReq' = [signInReq EXCEPT ![r] = t]
  BY <1>1 DEF S!Goto
<1> QED
  BY <1>2, <1>3, OneSignIn

LEMMA SignInEnds ==
    ASSUME S!IInv, NEW r \in Requests, S!Finish(r)
    PROVE  /\ signInReq' \in [Requests -> S!RequestState] /\ signInReq'[r].at = "idle"
           /\ \A q \in Requests : q # r => signInReq'[q] = signInReq[q]
BY OneSignIn, RequestTypes DEF S!Finish

\* The rows are left alone: whoever holds the row still does.
LEMMA RowsAlone ==
    ASSUME S!IInv, NEW r \in Requests,
           \A q \in Requests : q # r => signInReq'[q] = signInReq[q],
           signInReq'[r].at \notin {"replace", "erase"},
           signInReq'[r].at = "clear" => lockout'[signInReq'[r].scope],
           \A s \in S!Scopes : lockout[s] => lockout'[s],
           \A q \in Requests : q # r /\ userHolder = q => userHolder' = q,
           codes' \subseteq codes, userRow'.enabled = userRow.enabled, enrolled' = enrolled
    PROVE  S!RowInv' /\ S!CodesOfOneEnrolment'
<1>1. S!CodesOfOneEnrolment'
  BY DEF S!IInv, S!CodesOfOneEnrolment
<1>2. ASSUME NEW q \in Requests
      PROVE  /\ signInReq'[q].at \in {"replace", "erase"} =>
                   userHolder' = q /\ codes' \subseteq signInReq'[q].seen
             /\ signInReq'[q].at = "clear" => lockout'[signInReq'[q].scope]
  <2>1. CASE q = r
    BY <2>1
  <2>2. CASE q # r
    <3>1. signInReq'[q] = signInReq[q] /\ signInReq[q].scope \in S!Scopes
      BY <2>2, RequestTypes
    <3> QED
      BY <2>2, <3>1 DEF S!IInv, S!RowInv
  <2> QED
    BY <2>1, <2>2
<1> QED
  BY <1>1, <1>2 DEF S!RowInv

\* A sign-in step that only moves the request.
LEMMA SignInMoves ==
    ASSUME S!SignInAssumption, S!IInv, NEW r \in Requests,
           \/ S!LoginRead(r) \/ S!SecondRead(r) \/ S!AnswerRight(r) \/ S!Challenge(r)
           \/ S!Answered(r) \/ S!SetupRead(r) \/ S!EnableRead(r) \/ S!DisableRead(r)
    PROVE  S!IInv'
<1>0. S!TypeOK
  BY DEF S!IInv
<1>1. /\ UNCHANGED <<fails, expiring, lockout, wrong, userRow, userHolder, enrolled>>
      /\ codes' \subseteq codes /\ challenge' \in BOOLEAN
  <2>1. /\ UNCHANGED <<fails, expiring, lockout, wrong, userRow, userHolder, enrolled>>
        /\ codes' \subseteq codes
    BY DEF S!LoginRead, S!SecondRead, S!AnswerRight, S!Challenge, S!Answered, S!SetupRead,
       S!EnableRead, S!DisableRead, S!guard, S!enrolment
  <2>2. challenge' = challenge \/ challenge' \in BOOLEAN
    BY DEF S!LoginRead, S!SecondRead, S!AnswerRight, S!Challenge, S!Answered, S!SetupRead,
       S!EnableRead, S!DisableRead
  <2> QED
    BY <1>0, <2>1, <2>2 DEF S!TypeOK
<1>2. /\ signInReq' \in [Requests -> S!RequestState]
      /\ signInReq'[r].at \notin {"fail", "ttl", "lock", "clear", "replace", "erase"}
      /\ signInReq[r].at \notin {"fail", "ttl", "lock"}
      /\ signInReq'[r].at \in {"password", "second"} => ~lockout[signInReq'[r].scope]
      /\ \A q \in Requests : q # r => signInReq'[q] = signInReq[q]
  <2>1. ASSUME NEW a \in {"password", "second"}, NEW s \in S!Scopes, S!Enter(r, a, s),
               S!At(r, "idle"), ~lockout[s]
        PROVE  <1>2!:
    <3>1. PICK t : t = [signInReq[r] EXCEPT !.at = a, !.scope = s]
      OBVIOUS
    <3>2. t \in S!RequestState /\ t.at = a /\ t.scope = s
      BY <3>1, RequestTypes DEF S!RequestState, S!Steps
    <3>3. signInReq' = [signInReq EXCEPT ![r] = t]
      BY <2>1, <3>1 DEF S!Enter
    <3> QED
      BY <2>1, <3>2, <3>3, OneSignIn DEF S!At
  <2>2. CASE S!LoginRead(r)
    BY <2>1, <2>2 DEF S!LoginRead, S!Scopes
  <2>3. CASE S!SecondRead(r)
    BY <2>1, <2>3 DEF S!SecondRead, S!Scopes
  <2>4. CASE S!AnswerRight(r)
    BY <2>4, OtherStep DEF S!AnswerRight, S!At, S!Steps
  <2>5. CASE S!Challenge(r) \/ S!Answered(r)
    BY <2>5, SignInEnds DEF S!Challenge, S!Answered, S!At
  <2>6. CASE S!SetupRead(r) \/ S!EnableRead(r) \/ S!DisableRead(r)
    BY <2>6, OtherStep DEF S!SetupRead, S!EnableRead, S!DisableRead, S!Start, S!At, S!Steps
  <2> QED
    BY <2>2, <2>3, <2>4, <2>5, <2>6
<1>3. S!TypeOK'
  BY <1>0, <1>1, <1>2 DEF S!TypeOK
<1>4. S!RowInv' /\ S!CodesOfOneEnrolment'
  BY <1>1, <1>2, RowsAlone
<1>5. ASSUME NEW s \in S!Scopes PROVE S!GuessInv(s)'
  <2>1. /\ Mark(signInReq'[r], s, Fails) = Mark(signInReq[r], s, Fails)
        /\ Mark(signInReq'[r], s, Locks) = Mark(signInReq[r], s, Locks)
        /\ Mark(signInReq'[r], s, Answers) = 0 \/ ~lockout[s]
    BY <1>2 DEF Mark, Fails, Locks, Answers
  <2> QED
    BY <1>1, <1>2, <2>1, GuardAlone, SMTT(30)
<1> QED
  BY <1>3, <1>4, <1>5 DEF S!IInv

\* What changes neither a guard nor who is under one keeps what is known about it.
LEMMA GuardsAlone ==
    ASSUME S!SignInAssumption, S!IInv, NEW r \in Requests,
           \A q \in Requests : q # r => signInReq'[q] = signInReq[q],
           signInReq[r].at \notin {"fail", "ttl", "lock"},
           signInReq'[r].at \notin {"fail", "ttl", "lock", "password", "second"},
           UNCHANGED <<fails, lockout, wrong>>
    PROVE  \A s \in S!Scopes : S!GuessInv(s)'
<1> SUFFICES ASSUME NEW s \in S!Scopes PROVE S!GuessInv(s)'
  OBVIOUS
<1>1. /\ Mark(signInReq'[r], s, Fails) = Mark(signInReq[r], s, Fails)
      /\ Mark(signInReq'[r], s, Locks) = Mark(signInReq[r], s, Locks)
      /\ Mark(signInReq'[r], s, Answers) = 0
  BY DEF Mark, Fails, Locks, Answers
<1> QED
  BY <1>1, GuardAlone, SMTT(30)

\* A new secret is stored, while nobody holds the row.
LEMMA SetupCommitOK ==
    ASSUME S!SignInAssumption, S!IInv, NEW r \in Requests, S!SetupCommit(r)
    PROVE  S!IInv'
<1>1. /\ signInReq' \in [Requests -> S!RequestState] /\ signInReq'[r].at = "idle"
      /\ \A q \in Requests : q # r => signInReq'[q] = signInReq[q]
      /\ signInReq[r].at = "setup"
      /\ UNCHANGED <<fails, expiring, lockout, wrong, challenge, userHolder, codes, enrolled>>
  BY SignInEnds DEF S!SetupCommit, S!At, S!guard
<1>2. userRow' \in S!UserRow /\ userRow'.enabled = userRow.enabled
  <2>1. PICK e \in S!Enrolments : userRow' = [userRow EXCEPT !.secret = e]
    BY DEF S!SetupCommit
  <2> QED
    BY <2>1 DEF S!IInv, S!TypeOK, S!UserRow
<1>3. S!TypeOK'
  BY <1>1, <1>2 DEF S!IInv, S!TypeOK
<1> QED
  BY <1>1, <1>2, <1>3, RowsAlone, GuardsAlone DEF S!IInv

\* The row is locked, and the recovery codes of the moment are deleted.
LEMMA EnrolmentFlushOK ==
    ASSUME S!SignInAssumption, S!IInv, NEW r \in Requests, S!EnrolmentFlush(r)
    PROVE  S!IInv'
<1>0. S!TypeOK
  BY DEF S!IInv
<1>1. /\ userHolder = None /\ userHolder' = r /\ signInReq[r].at \in {"enable", "disable"}
      /\ UNCHANGED <<fails, expiring, lockout, wrong, challenge, userRow, codes, enrolled>>
  BY DEF S!EnrolmentFlush, S!LockRow, S!At, S!guard
<1>2. PICK a \in {"replace", "erase"} :
         signInReq' = [signInReq EXCEPT ![r].at = a, ![r].seen = codes]
  BY DEF S!EnrolmentFlush
<1>3. PICK t : t = [signInReq[r] EXCEPT !.at = a, !.seen = codes]
  OBVIOUS
<1>4. t \in S!RequestState /\ t.at = a /\ t.seen = codes
  BY <1>0, <1>3, RequestTypes DEF S!RequestState, S!Steps, S!TypeOK
<1>5. signInReq' = [signInReq EXCEPT ![r] = t]
  BY <1>2, <1>3
<1>6. /\ signInReq' \in [Requests -> S!RequestState] /\ signInReq'[r] = t
      /\ \A q \in Requests : q # r => signInReq'[q] = signInReq[q]
  BY <1>4, <1>5, OneSignIn
<1>7. S!TypeOK'
  BY <1>0, <1>1, <1>6 DEF S!TypeOK
<1>8. S!CodesOfOneEnrolment'
  BY <1>1 DEF S!IInv, S!CodesOfOneEnrolment
<1>9. ASSUME NEW q \in Requests
      PROVE  /\ signInReq'[q].at \in {"replace", "erase"} =>
                   userHolder' = q /\ codes' \subseteq signInReq'[q].seen
             /\ signInReq'[q].at = "clear" => lockout'[signInReq'[q].scope]
  <2>1. CASE q = r
    BY <1>1, <1>4, <1>6, <2>1
  <2>2. CASE q # r
    <3>1. userHolder # q
      BY <1>1 DEF S!SignInAssumption
    <3> QED
      BY <1>1, <1>6, <2>2, <3>1 DEF S!IInv, S!RowInv
  <2> QED
    BY <2>1, <2>2
<1>10. \A s \in S!Scopes : S!GuessInv(s)'
  BY <1>1, <1>4, <1>6, GuardsAlone
<1> QED
  BY <1>7, <1>8, <1>9, <1>10 DEF S!IInv, S!RowInv

\* The second factor is enabled with new recovery codes, or disabled without any.
LEMMA EnrolmentCommitOK ==
    ASSUME S!SignInAssumption, S!IInv, NEW r \in Requests,
           S!EnableCommit(r) \/ S!DisableCommit(r)
    PROVE  S!IInv'
<1>0. S!TypeOK
  BY DEF S!IInv
<1>1. /\ signInReq[r].at \in {"replace", "erase"} /\ userHolder' = None
      /\ UNCHANGED <<fails, expiring, lockout, wrong, challenge>>
      /\ S!Finish(r)
  BY DEF S!EnableCommit, S!DisableCommit, S!At, S!guard
<1>2. userHolder = r /\ codes \subseteq signInReq[r].seen
  BY <1>1 DEF S!IInv, S!RowInv
<1>3. /\ signInReq' \in [Requests -> S!RequestState] /\ signInReq'[r].at = "idle"
      /\ \A q \in Requests : q # r => signInReq'[q] = signInReq[q]
  BY <1>1, SignInEnds
<1>4. /\ userRow' \in S!UserRow /\ codes' \subseteq S!Enrolments /\ enrolled' \in 0..MaxEnrolments
      /\ S!CodesOfOneEnrolment'
  <2>1. CASE S!EnableCommit(r)
    <3>1. /\ userRow' = [userRow EXCEPT !.enabled = TRUE] /\ enrolled' = enrolled + 1
          /\ codes' = (codes \ signInReq[r].seen) \cup {enrolled + 1} /\ enrolled < MaxEnrolments
      BY <2>1 DEF S!EnableCommit
    <3>2. userRow' \in S!UserRow /\ userRow'.enabled
      BY <1>0, <3>1 DEF S!TypeOK, S!UserRow
    <3>3. codes' = {enrolled + 1}
      BY <1>2, <3>1
    <3>4. enrolled + 1 \in 0..MaxEnrolments /\ enrolled + 1 \in S!Enrolments
      BY <1>0, <3>1, FiniteRequests DEF S!TypeOK, S!Enrolments
    <3> QED
      BY <3>1, <3>2, <3>3, <3>4 DEF S!CodesOfOneEnrolment
  <2>2. CASE S!DisableCommit(r)
    <3>1. /\ userRow' = [enabled |-> FALSE, secret |-> None] /\ enrolled' = enrolled
          /\ codes' = codes \ signInReq[r].seen
      BY <2>2 DEF S!DisableCommit
    <3>2. userRow' \in S!UserRow
      BY <3>1 DEF S!UserRow
    <3>3. codes' = {}
      BY <1>2, <3>1
    <3> QED
      BY <1>0, <3>1, <3>2, <3>3 DEF S!CodesOfOneEnrolment, S!TypeOK
  <2> QED
    BY <2>1, <2>2
<1>5. S!TypeOK'
  BY <1>0, <1>1, <1>3, <1>4 DEF S!TypeOK
<1>6. S!RowInv'
  <2> SUFFICES ASSUME NEW q \in Requests
               PROVE  /\ signInReq'[q].at \notin {"replace", "erase"}
                      /\ signInReq'[q].at = "clear" => lockout'[signInReq'[q].scope]
    BY DEF S!RowInv
  <2>1. CASE q = r
    BY <1>3, <2>1
  <2>2. CASE q # r
    BY <1>1, <1>2, <1>3, <2>2 DEF S!IInv, S!RowInv
  <2> QED
    BY <2>1, <2>2
<1>7. \A s \in S!Scopes : S!GuessInv(s)'
  BY <1>1, <1>3, GuardsAlone
<1> QED
  BY <1>4, <1>5, <1>6, <1>7 DEF S!IInv

\* A wrong answer leaves the ones that may still come and goes to the counter.
LEMMA AnswerWrongOK ==
    ASSUME S!SignInAssumption, S!IInv, NEW r \in Requests, S!AnswerWrong(r)
    PROVE  S!IInv'
<1>0. S!TypeOK
  BY DEF S!IInv
<1>1. PICK c \in S!Scopes : c = signInReq[r].scope
  BY RequestTypes
<1>2. /\ signInReq[r].at \in {"password", "second"}
      /\ wrong' = [wrong EXCEPT ![c] = wrong[c] + 1]
      /\ UNCHANGED <<fails, expiring, lockout, challenge, userRow, userHolder, codes, enrolled>>
      /\ S!Goto(r, "fail")
  BY <1>1 DEF S!AnswerWrong, S!At, S!Wrong, S!enrolment
<1>3. /\ signInReq' \in [Requests -> S!RequestState]
      /\ signInReq'[r].at = "fail" /\ signInReq'[r].scope = c
      /\ \A q \in Requests : q # r => signInReq'[q] = signInReq[q]
  BY <1>1, <1>2, OtherStep DEF S!Steps
<1>4. /\ wrong' \in [S!Scopes -> Nat] /\ wrong'[c] = wrong[c] + 1
      /\ \A s \in S!Scopes : s # c => wrong'[s] = wrong[s]
  BY <1>0, <1>1, <1>2 DEF S!TypeOK
<1>5. S!TypeOK'
  BY <1>0, <1>2, <1>3, <1>4 DEF S!TypeOK
<1>6. S!RowInv' /\ S!CodesOfOneEnrolment'
  BY <1>2, <1>3, RowsAlone
<1>7. ASSUME NEW s \in S!Scopes PROVE S!GuessInv(s)'
  <2>1. CASE s # c
    <3>1. /\ Mark(signInReq[r], s, Fails) = 0 /\ Mark(signInReq'[r], s, Fails) = 0
          /\ Mark(signInReq[r], s, Locks) = 0 /\ Mark(signInReq'[r], s, Locks) = 0
          /\ Mark(signInReq'[r], s, Answers) = 0
      BY <1>1, <1>3, <2>1 DEF Mark
    <3> QED
      BY <1>2, <1>3, <1>4, <2>1, <3>1, GuardAlone, SMTT(30)
  <2>2. CASE s = c
    <3>1. /\ Mark(signInReq[r], s, Fails) = 0 /\ Mark(signInReq'[r], s, Fails) = 1
          /\ Mark(signInReq[r], s, Locks) = 0 /\ Mark(signInReq'[r], s, Locks) = 0
          /\ Mark(signInReq[r], s, Answers) = 1 /\ Mark(signInReq'[r], s, Answers) = 0
      BY <1>1, <1>2, <1>3, <2>2 DEF Mark, Fails, Locks, Answers
    <3>2. /\ Count(signInReq', s, Fails) = Count(signInReq, s, Fails) + 1
          /\ Count(signInReq', s, Locks) = Count(signInReq, s, Locks)
          /\ Count(signInReq', s, Answers) + 1 = Count(signInReq, s, Answers)
          /\ Count(signInReq, s, Fails) \in Nat /\ Count(signInReq, s, Locks) \in Nat
          /\ Count(signInReq, s, Answers) \in Nat /\ Count(signInReq', s, Answers) \in Nat
      BY <1>3, <3>1, GuessStep
    <3>3. Guess(signInReq, fails[s], lockout[s], wrong[s], s)
      BY <1>3, GuessStep
    <3>4. Guess(signInReq', fails'[s], lockout'[s], wrong'[s], s)
      BY <1>2, <1>4, <2>2, <3>2, <3>3, GuardTypes, FiniteRequests DEF Guess
    <3> QED
      BY <1>3, <3>4, GuessStep
  <2> QED
    BY <2>1, <2>2
<1> QED
  BY <1>5, <1>6, <1>7 DEF S!IInv

\* A success clears the counter, and with it what is known of wrong answers.
LEMMA ResetOK ==
    ASSUME S!SignInAssumption, S!IInv, NEW r \in Requests, S!Reset(r)
    PROVE  S!IInv'
<1>0. S!TypeOK
  BY DEF S!IInv
<1>1. PICK c \in S!Scopes : c = signInReq[r].scope
  BY RequestTypes
<1>2. /\ signInReq[r].at = "reset"
      /\ fails' = [fails EXCEPT ![c] = 0] /\ expiring' = [expiring EXCEPT ![c] = FALSE]
      /\ wrong' = [wrong EXCEPT ![c] = 0]
      /\ UNCHANGED <<lockout, challenge, userRow, userHolder, codes, enrolled>>
      /\ S!Goto(r, "answered") \/ S!Goto(r, "challenge") \/ S!Finish(r)
  BY <1>1 DEF S!Reset, S!At, S!enrolment
<1>3. /\ signInReq' \in [Requests -> S!RequestState]
      /\ signInReq'[r].at \in {"answered", "challenge", "idle"}
      /\ \A q \in Requests : q # r => signInReq'[q] = signInReq[q]
  BY <1>2, OtherStep, SignInEnds DEF S!Steps
<1>4. /\ wrong' \in [S!Scopes -> Nat] /\ wrong'[c] = 0
      /\ fails' \in [S!Scopes -> 0..FailureLimit] /\ fails'[c] = 0
      /\ expiring' \in [S!Scopes -> BOOLEAN]
      /\ \A s \in S!Scopes : s # c => wrong'[s] = wrong[s] /\ fails'[s] = fails[s]
  BY <1>0, <1>1, <1>2, FiniteRequests DEF S!TypeOK
<1>5. S!TypeOK'
  BY <1>0, <1>2, <1>3, <1>4 DEF S!TypeOK
<1>6. S!RowInv' /\ S!CodesOfOneEnrolment'
  BY <1>2, <1>3, RowsAlone
<1>7. ASSUME NEW s \in S!Scopes PROVE S!GuessInv(s)'
  <2>0. \A f \in {signInReq, signInReq'} : /\ Mark(f[r], s, Fails) = 0 /\ Mark(f[r], s, Locks) = 0
                                           /\ Mark(f[r], s, Answers) = 0
    BY <1>2, <1>3 DEF Mark, Fails, Locks, Answers
  <2>1. CASE s # c
    BY <1>2, <1>3, <1>4, <2>0, <2>1, GuardAlone, SMTT(30)
  <2>2. CASE s = c
    <3>1. /\ Count(signInReq', s, Fails) = Count(signInReq, s, Fails)
          /\ Count(signInReq', s, Locks) = Count(signInReq, s, Locks)
          /\ Count(signInReq', s, Answers) = Count(signInReq, s, Answers)
          /\ Count(signInReq, s, Fails) \in Nat /\ Count(signInReq, s, Locks) \in Nat
          /\ Count(signInReq, s, Answers) \in Nat
      BY <1>3, <2>0, GuessStep
    <3>2. Guess(signInReq, fails[s], lockout[s], wrong[s], s)
      BY <1>3, GuessStep
    <3>3. Guess(signInReq', fails'[s], lockout'[s], wrong'[s], s)
      BY <1>2, <1>4, <2>2, <3>1, <3>2, GuardTypes, FiniteRequests DEF Guess
    <3> QED
      BY <1>3, <3>3, GuessStep
  <2> QED
    BY <2>1, <2>2
<1> QED
  BY <1>5, <1>6, <1>7 DEF S!IInv

\* The counter takes a wrong answer in; the request that fills it goes on to lock.
LEMMA IncrementOK ==
    ASSUME S!SignInAssumption, S!IInv, NEW r \in Requests, S!Increment(r)
    PROVE  S!IInv'
<1>0. S!TypeOK
  BY DEF S!IInv
<1>1. PICK c \in S!Scopes : c = signInReq[r].scope
  BY RequestTypes
<1>2. /\ signInReq[r].at = "fail"
      /\ fails' = [fails EXCEPT ![c] = IF fails[c] < FailureLimit THEN fails[c] + 1 ELSE fails[c]]
      /\ UNCHANGED <<expiring, lockout, wrong, challenge, userRow, userHolder, codes, enrolled>>
      /\ \/ fails[c] = 0 /\ S!Goto(r, "ttl")
         \/ fails[c] # 0 /\ fails'[c] = FailureLimit /\ S!Goto(r, "lock")
         \/ fails[c] # 0 /\ fails'[c] < FailureLimit /\ S!Finish(r)
  BY <1>1 DEF S!Increment, S!At, S!enrolment
<1>3. /\ signInReq' \in [Requests -> S!RequestState]
      /\ \/ fails[c] = 0 /\ signInReq'[r].at = "ttl" /\ signInReq'[r].scope = c
         \/ fails[c] # 0 /\ fails'[c] = FailureLimit /\ signInReq'[r].at = "lock"
                         /\ signInReq'[r].scope = c
         \/ fails[c] # 0 /\ fails'[c] < FailureLimit /\ signInReq'[r].at = "idle"
      /\ \A q \in Requests : q # r => signInReq'[q] = signInReq[q]
  BY <1>1, <1>2, OtherStep, SignInEnds DEF S!Steps
<1>4. /\ fails' \in [S!Scopes -> 0..FailureLimit]
      /\ fails'[c] = IF fails[c] < FailureLimit THEN fails[c] + 1 ELSE fails[c]
      /\ \A s \in S!Scopes : s # c => fails'[s] = fails[s]
  BY <1>0, <1>1, <1>2, GuardTypes, FiniteRequests DEF S!TypeOK
<1>5. S!TypeOK'
  BY <1>0, <1>2, <1>3, <1>4 DEF S!TypeOK
<1>6. S!RowInv' /\ S!CodesOfOneEnrolment'
  BY <1>2, <1>3, RowsAlone
<1>7. ASSUME NEW s \in S!Scopes PROVE S!GuessInv(s)'
  <2>1. CASE s # c
    <3>1. /\ Mark(signInReq[r], s, Fails) = 0 /\ Mark(signInReq'[r], s, Fails) = 0
          /\ Mark(signInReq[r], s, Locks) = 0 /\ Mark(signInReq'[r], s, Locks) = 0
          /\ Mark(signInReq'[r], s, Answers) = 0
      BY <1>1, <1>3, <2>1 DEF Mark, Fails, Locks, Answers
    <3> QED
      BY <1>2, <1>3, <1>4, <2>1, <3>1, GuardAlone, SMTT(30)
  <2>2. CASE s = c
    <3>1. /\ Mark(signInReq[r], s, Fails) = 1 /\ Mark(signInReq'[r], s, Fails) = 0
          /\ Mark(signInReq[r], s, Locks) = 0
          /\ Mark(signInReq[r], s, Answers) = 0 /\ Mark(signInReq'[r], s, Answers) = 0
          /\ fails'[s] = FailureLimit => Mark(signInReq'[r], s, Locks) = 1
      BY <1>1, <1>2, <1>3, <1>4, <2>2, GuardTypes, FiniteRequests DEF Mark, Fails, Locks, Answers
    <3>2. /\ Count(signInReq', s, Fails) + 1 = Count(signInReq, s, Fails)
          /\ Count(signInReq', s, Locks) >= Count(signInReq, s, Locks)
          /\ fails'[s] = FailureLimit =>
                Count(signInReq', s, Locks) = Count(signInReq, s, Locks) + 1
          /\ Count(signInReq', s, Answers) = Count(signInReq, s, Answers)
          /\ Count(signInReq, s, Fails) \in Nat /\ Count(signInReq, s, Locks) \in Nat
          /\ Count(signInReq', s, Fails) \in Nat /\ Count(signInReq', s, Locks) \in Nat
          /\ Count(signInReq, s, Answers) \in Nat
      BY <1>3, <3>1, GuessStep
    <3>3. Guess(signInReq, fails[s], lockout[s], wrong[s], s)
      BY <1>3, GuessStep
    <3>4. Guess(signInReq', fails'[s], lockout'[s], wrong'[s], s)
      BY <1>2, <1>4, <2>2, <3>2, <3>3, GuardTypes, FiniteRequests DEF Guess
    <3> QED
      BY <1>3, <3>4, GuessStep
  <2> QED
    BY <2>1, <2>2
<1> QED
  BY <1>5, <1>6, <1>7 DEF S!IInv

\* The window of the first failure begins.
LEMMA ExpireOK ==
    ASSUME S!SignInAssumption, S!IInv, NEW r \in Requests, S!Expire(r)
    PROVE  S!IInv'
<1>0. S!TypeOK
  BY DEF S!IInv
<1>1. PICK c \in S!Scopes : c = signInReq[r].scope
  BY RequestTypes
<1>2. /\ signInReq[r].at = "ttl" /\ expiring' = [expiring EXCEPT ![c] = fails[c] # 0]
      /\ UNCHANGED <<fails, lockout, wrong, challenge, userRow, userHolder, codes, enrolled>>
      /\ IF FailureLimit = 1 THEN S!Goto(r, "lock") ELSE S!Finish(r)
  BY <1>1 DEF S!Expire, S!At, S!enrolment
<1>3. /\ signInReq' \in [Requests -> S!RequestState]
      /\ FailureLimit = 1 => signInReq'[r].at = "lock" /\ signInReq'[r].scope = c
      /\ FailureLimit # 1 => signInReq'[r].at = "idle"
      /\ \A q \in Requests : q # r => signInReq'[q] = signInReq[q]
  BY <1>1, <1>2, OtherStep, SignInEnds DEF S!Steps
<1>4. expiring' \in [S!Scopes -> BOOLEAN]
  BY <1>0, <1>2 DEF S!TypeOK
<1>5. S!TypeOK'
  BY <1>0, <1>2, <1>3, <1>4 DEF S!TypeOK
<1>6. S!RowInv' /\ S!CodesOfOneEnrolment'
  BY <1>2, <1>3, RowsAlone
<1>7. ASSUME NEW s \in S!Scopes PROVE S!GuessInv(s)'
  <2>1. /\ Mark(signInReq'[r], s, Fails) = Mark(signInReq[r], s, Fails)
        /\ Mark(signInReq'[r], s, Locks) = Mark(signInReq[r], s, Locks)
        /\ Mark(signInReq'[r], s, Answers) = 0
    BY <1>1, <1>2, <1>3 DEF Mark, Fails, Locks, Answers
  <2> QED
    BY <1>2, <1>3, <2>1, GuardAlone, SMTT(30)
<1> QED
  BY <1>5, <1>6, <1>7 DEF S!IInv

\* The lock is set: whoever may still answer wrongly is a request of its own.
LEMMA SetLockOK ==
    ASSUME S!SignInAssumption, S!IInv, NEW r \in Requests, S!SetLock(r)
    PROVE  S!IInv'
<1>0. S!TypeOK
  BY DEF S!IInv
<1>1. PICK c \in S!Scopes : c = signInReq[r].scope
  BY RequestTypes
<1>2. /\ signInReq[r].at = "lock" /\ lockout' = [lockout EXCEPT ![c] = TRUE]
      /\ UNCHANGED <<fails, expiring, wrong, challenge, userRow, userHolder, codes, enrolled>>
      /\ S!Goto(r, "clear")
  BY <1>1 DEF S!SetLock, S!At, S!enrolment
<1>3. /\ signInReq' \in [Requests -> S!RequestState]
      /\ signInReq'[r].at = "clear" /\ signInReq'[r].scope = c
      /\ \A q \in Requests : q # r => signInReq'[q] = signInReq[q]
  BY <1>1, <1>2, OtherStep DEF S!Steps
<1>4. /\ lockout' \in [S!Scopes -> BOOLEAN] /\ lockout'[c]
      /\ \A s \in S!Scopes : s # c => lockout'[s] = lockout[s]
  BY <1>0, <1>1, <1>2 DEF S!TypeOK
<1>5. S!TypeOK'
  BY <1>0, <1>2, <1>3, <1>4 DEF S!TypeOK
<1>6. S!RowInv' /\ S!CodesOfOneEnrolment'
  BY <1>2, <1>3, <1>4, RowsAlone
<1>7. ASSUME NEW s \in S!Scopes PROVE S!GuessInv(s)'
  <2>1. CASE s # c
    <3>1. /\ Mark(signInReq[r], s, Fails) = 0 /\ Mark(signInReq'[r], s, Fails) = 0
          /\ Mark(signInReq[r], s, Locks) = 0 /\ Mark(signInReq'[r], s, Locks) = 0
          /\ Mark(signInReq'[r], s, Answers) = 0
      BY <1>1, <1>3, <2>1 DEF Mark, Fails, Locks, Answers
    <3>2. fails'[s] = fails[s] /\ lockout'[s] = lockout[s] /\ wrong'[s] = wrong[s]
      BY <1>2, <1>4, <2>1
    <3>3. \A q \in Requests : q # r => signInReq'[q] = signInReq[q]
      BY <1>3
    <3> QED
      BY <3>1, <3>2, <3>3, GuardAlone, SMTT(30)
  <2>2. CASE s = c
    <3>1. Mark(signInReq[r], s, Answers) = 0 /\ Mark(signInReq'[r], s, Answers) = 0
      BY <1>1, <1>2, <1>3, <2>2 DEF Mark, Answers
    <3>2. /\ Count(signInReq', s, Answers) = Count(signInReq, s, Answers)
          /\ Count(signInReq, s, Fails) \in Nat /\ Count(signInReq, s, Locks) \in Nat
          /\ Count(signInReq, s, Answers) \in Nat
          /\ Count(signInReq, s, Answers) + Count(signInReq, s, Fails)
                + Count(signInReq, s, Locks) <= Cardinality(Requests)
      BY <1>3, <3>1, GuessStep
    <3>3. Guess(signInReq, fails[s], lockout[s], wrong[s], s)
      BY <1>3, GuessStep
    <3>4. wrong[s] + Count(signInReq, s, Answers) <= FailureLimit - 1 + Cardinality(Requests)
      BY <3>2, <3>3, GuardTypes, FiniteRequests DEF Guess
    <3>5. Guess(signInReq', fails'[s], lockout'[s], wrong'[s], s)
      BY <1>2, <1>4, <2>2, <3>2, <3>4 DEF Guess
    <3> QED
      BY <1>3, <3>5, GuessStep
  <2> QED
    BY <2>1, <2>2
<1> QED
  BY <1>5, <1>6, <1>7 DEF S!IInv

\* The counter is cleared under the lock.
LEMMA ClearFailsOK ==
    ASSUME S!SignInAssumption, S!IInv, NEW r \in Requests, S!ClearFails(r)
    PROVE  S!IInv'
<1>0. S!TypeOK
  BY DEF S!IInv
<1>1. PICK c \in S!Scopes : c = signInReq[r].scope
  BY RequestTypes
<1>2. /\ signInReq[r].at = "clear"
      /\ fails' = [fails EXCEPT ![c] = 0] /\ expiring' = [expiring EXCEPT ![c] = FALSE]
      /\ challenge' \in BOOLEAN
      /\ UNCHANGED <<lockout, wrong, userRow, userHolder, codes, enrolled>>
      /\ S!Finish(r)
  BY <1>1 DEF S!ClearFails, S!At, S!enrolment
<1>3. /\ signInReq' \in [Requests -> S!RequestState] /\ signInReq'[r].at = "idle"
      /\ \A q \in Requests : q # r => signInReq'[q] = signInReq[q]
  BY <1>2, SignInEnds
<1>4. /\ fails' \in [S!Scopes -> 0..FailureLimit] /\ fails'[c] = 0
      /\ expiring' \in [S!Scopes -> BOOLEAN]
      /\ \A s \in S!Scopes : s # c => fails'[s] = fails[s]
  BY <1>0, <1>1, <1>2, FiniteRequests DEF S!TypeOK
<1>5. S!TypeOK'
  BY <1>0, <1>2, <1>3, <1>4 DEF S!TypeOK
<1>6. S!RowInv' /\ S!CodesOfOneEnrolment'
  BY <1>2, <1>3, RowsAlone
<1>7. ASSUME NEW s \in S!Scopes PROVE S!GuessInv(s)'
  <2>0. \A f \in {signInReq, signInReq'} : /\ Mark(f[r], s, Fails) = 0 /\ Mark(f[r], s, Locks) = 0
                                           /\ Mark(f[r], s, Answers) = 0
    BY <1>2, <1>3 DEF Mark, Fails, Locks, Answers
  <2>1. CASE s # c
    BY <1>2, <1>3, <1>4, <2>0, <2>1, GuardAlone, SMTT(30)
  <2>2. CASE s = c
    <3>1. lockout[s]
      BY <1>1, <1>2, <2>2 DEF S!IInv, S!RowInv
    <3>2. Count(signInReq', s, Answers) = Count(signInReq, s, Answers)
      BY <1>3, <2>0, GuessStep
    <3>3. Guess(signInReq, fails[s], lockout[s], wrong[s], s)
      BY <1>3, GuessStep
    <3>4. Guess(signInReq', fails'[s], lockout'[s], wrong'[s], s)
      BY <1>2, <3>1, <3>2, <3>3 DEF Guess
    <3> QED
      BY <1>3, <3>4, GuessStep
  <2> QED
    BY <2>1, <2>2
<1> QED
  BY <1>5, <1>6, <1>7 DEF S!IInv

\* A request that dies gives back the row it holds, and takes with it a wrong answer that
\* nobody was told of.
LEMMA SignInAbortOK ==
    ASSUME S!SignInAssumption, S!IInv, NEW r \in Requests, S!Abort(r)
    PROVE  S!IInv'
<1>0. S!TypeOK
  BY DEF S!IInv
<1>1. PICK c \in S!Scopes : c = signInReq[r].scope
  BY RequestTypes
<1>2. /\ S!Finish(r)
      /\ userHolder' = IF userHolder = r THEN None ELSE userHolder
      /\ wrong' = IF signInReq[r].at \in {"fail", "ttl", "lock"}
                     THEN [wrong EXCEPT ![c] = IF wrong[c] > 0 THEN wrong[c] - 1 ELSE 0] ELSE wrong
      /\ UNCHANGED <<fails, expiring, lockout, challenge, userRow, codes, enrolled>>
  BY <1>1 DEF S!Abort
<1>3. /\ signInReq' \in [Requests -> S!RequestState] /\ signInReq'[r].at = "idle"
      /\ \A q \in Requests : q # r => signInReq'[q] = signInReq[q]
  BY <1>2, SignInEnds
<1>4. /\ wrong' \in [S!Scopes -> Nat]
      /\ \A s \in S!Scopes : s # c => wrong'[s] = wrong[s]
      /\ wrong'[c] = IF signInReq[r].at \in {"fail", "ttl", "lock"}
                        THEN IF wrong[c] > 0 THEN wrong[c] - 1 ELSE 0 ELSE wrong[c]
  <2>1. wrong[c] \in Nat /\ (IF wrong[c] > 0 THEN wrong[c] - 1 ELSE 0) \in Nat
    BY GuardTypes
  <2> QED
    BY <1>0, <1>1, <1>2, <2>1 DEF S!TypeOK
<1>5. S!TypeOK'
  BY <1>0, <1>2, <1>3, <1>4 DEF S!TypeOK
<1>6. S!RowInv' /\ S!CodesOfOneEnrolment'
  BY <1>2, <1>3, RowsAlone
<1>7. ASSUME NEW s \in S!Scopes PROVE S!GuessInv(s)'
  <2>0. /\ Mark(signInReq'[r], s, Fails) = 0 /\ Mark(signInReq'[r], s, Locks) = 0
        /\ Mark(signInReq'[r], s, Answers) = 0
    BY <1>3 DEF Mark, Fails, Locks, Answers
  <2>1. CASE s # c
    <3>1. Mark(signInReq[r], s, Fails) = 0 /\ Mark(signInReq[r], s, Locks) = 0
      BY <1>1, <2>1 DEF Mark
    <3> QED
      BY <1>2, <1>3, <1>4, <2>0, <2>1, <3>1, GuardAlone, SMTT(30)
  <2>2. CASE s = c
    <3>1. /\ Mark(signInReq[r], s, Fails) + Mark(signInReq[r], s, Locks) <= 1
          /\ Mark(signInReq[r], s, Fails) + Mark(signInReq[r], s, Locks) = 1 =>
                signInReq[r].at \in {"fail", "ttl", "lock"}
      BY <1>1, <2>2 DEF Mark, Fails, Locks
    <3>2. /\ Count(signInReq', s, Fails) + Mark(signInReq[r], s, Fails)
                = Count(signInReq, s, Fails)
          /\ Count(signInReq', s, Locks) + Mark(signInReq[r], s, Locks)
                = Count(signInReq, s, Locks)
          /\ Count(signInReq', s, Answers) <= Count(signInReq, s, Answers)
          /\ Mark(signInReq[r], s, Fails) \in {0, 1} /\ Mark(signInReq[r], s, Locks) \in {0, 1}
          /\ Count(signInReq', s, Fails) \in Nat /\ Count(signInReq', s, Locks) \in Nat
          /\ Count(signInReq, s, Answers) \in Nat /\ Count(signInReq', s, Answers) \in Nat
      BY <1>3, <2>0, GuessStep
    <3>3. Guess(signInReq, fails[s], lockout[s], wrong[s], s)
      BY <1>3, GuessStep
    <3>4. Guess(signInReq', fails'[s], lockout'[s], wrong'[s], s)
      BY <1>2, <1>4, <2>2, <3>1, <3>2, <3>3, GuardTypes, FiniteRequests DEF Guess
    <3> QED
      BY <1>3, <3>4, GuessStep
  <2> QED
    BY <2>1, <2>2
<1> QED
  BY <1>5, <1>6, <1>7 DEF S!IInv

\* A set of requests has a size, and there are no more of them than requests.
LEMMA CountTypes ==
    ASSUME S!SignInAssumption, NEW f, NEW s
    PROVE  /\ Count(f, s, Answers) \in Nat /\ Count(f, s, Fails) \in Nat
           /\ Count(f, s, Locks) \in Nat
           /\ Count(f, s, Answers) + Count(f, s, Fails) + Count(f, s, Locks)
                 <= Cardinality(Requests)
<1>1. ASSUME NEW steps PROVE Count(f, s, steps) \in Nat
  <2>1. There(f, s, steps) \in SUBSET Requests
    BY DEF There
  <2> QED
    BY <2>1, FiniteRequests, FS_Subset, FS_CardinalityType DEF Count
<1> QED
  BY <1>1, OneStepEach, FiniteRequests

\* The same after a step.
LEMMA OtherCounts ==
    ASSUME S!SignInAssumption, NEW s
    PROVE  /\ Count(signInReq', s, Answers) \in Nat /\ Count(signInReq', s, Fails) \in Nat
           /\ Count(signInReq', s, Locks) \in Nat
           /\ Count(signInReq', s, Answers) <= Cardinality(Requests)
<1>1. PICK f : f = signInReq'
  OBVIOUS
<1>2. /\ Count(f, s, Answers) \in Nat /\ Count(f, s, Fails) \in Nat
      /\ Count(f, s, Locks) \in Nat
      /\ Count(f, s, Answers) + Count(f, s, Fails) + Count(f, s, Locks)
            <= Cardinality(Requests)
  BY CountTypes
<1>3. Count(f, s, Answers) <= Cardinality(Requests)
  BY <1>2, FiniteRequests
<1> QED
  BY <1>1, <1>2, <1>3

\* Keys whose time is over: a window, a lock, a challenge.
LEMMA KeysEnd ==
    ASSUME S!SignInAssumption, S!IInv,
           (\E s \in S!Scopes : S!WindowEnds(s) \/ S!LockEnds(s)) \/ S!ChallengeEnds
    PROVE  S!IInv'
<1>0. S!TypeOK
  BY DEF S!IInv
<1>1. UNCHANGED <<userRow, userHolder, codes, enrolled, signInReq>>
  BY DEF S!WindowEnds, S!LockEnds, S!ChallengeEnds, S!enrolment
<1>2. S!CodesOfOneEnrolment'
  BY <1>1 DEF S!IInv, S!CodesOfOneEnrolment
<1>3. CASE S!ChallengeEnds
  <2>1. challenge' = FALSE /\ UNCHANGED <<fails, expiring, lockout, wrong>>
    BY <1>3 DEF S!ChallengeEnds, S!guard
  <2>2. S!TypeOK' /\ S!RowInv'
    BY <1>0, <1>1, <2>1 DEF S!IInv, S!TypeOK, S!RowInv
  <2>3. ASSUME NEW s \in S!Scopes PROVE S!GuessInv(s)'
    <3>1. Guess(signInReq, fails[s], lockout[s], wrong[s], s)
      BY GuessCounts DEF S!IInv
    <3>2. Guess(signInReq', fails'[s], lockout'[s], wrong'[s], s)
      BY <1>1, <2>1, <3>1
    <3> QED
      BY <3>2, GuessCounts
  <2> QED
    BY <1>2, <2>2, <2>3 DEF S!IInv
<1>4. ASSUME NEW c \in S!Scopes, S!WindowEnds(c) PROVE S!IInv'
  <2>1. /\ fails' = [fails EXCEPT ![c] = 0] /\ expiring' = [expiring EXCEPT ![c] = FALSE]
        /\ wrong' = [wrong EXCEPT ![c] = 0] /\ UNCHANGED <<lockout, challenge>>
    BY <1>4 DEF S!WindowEnds
  <2>2. /\ fails' \in [S!Scopes -> 0..FailureLimit] /\ fails'[c] = 0
        /\ expiring' \in [S!Scopes -> BOOLEAN] /\ wrong' \in [S!Scopes -> Nat] /\ wrong'[c] = 0
        /\ \A s \in S!Scopes : s # c => fails'[s] = fails[s] /\ wrong'[s] = wrong[s]
    BY <1>0, <2>1, FiniteRequests DEF S!TypeOK
  <2>3. S!TypeOK'
    BY <1>0, <1>1, <2>1, <2>2 DEF S!TypeOK
  <2>4. S!RowInv'
    BY <1>1, <2>1 DEF S!IInv, S!RowInv
  <2>5. ASSUME NEW s \in S!Scopes PROVE S!GuessInv(s)'
    <3>1. Guess(signInReq, fails[s], lockout[s], wrong[s], s)
      BY GuessCounts DEF S!IInv
    <3>2. CASE s # c
      BY <1>1, <2>1, <2>2, <3>1, <3>2, GuessCounts
    <3>3. CASE s = c
      <4>1. /\ Count(signInReq', s, Fails) \in Nat /\ Count(signInReq', s, Answers) \in Nat
            /\ Count(signInReq', s, Answers) <= Cardinality(Requests)
        BY OtherCounts
      <4>2. fails'[s] = 0 /\ wrong'[s] = 0
        BY <2>2, <3>3
      <4>3. Guess(signInReq', fails'[s], lockout'[s], wrong'[s], s)
        BY <4>1, <4>2, FiniteRequests DEF Guess
      <4> QED
        BY <4>3, GuessCounts
    <3> QED
      BY <3>2, <3>3
  <2> QED
    BY <1>2, <2>3, <2>4, <2>5 DEF S!IInv
<1>5. ASSUME NEW c \in S!Scopes, S!LockEnds(c) PROVE S!IInv'
  <2>1. /\ lockout' = [lockout EXCEPT ![c] = FALSE] /\ wrong' = [wrong EXCEPT ![c] = 0]
        /\ UNCHANGED <<fails, expiring, challenge>>
        /\ \A r \in Requests : signInReq[r].scope = c => signInReq[r].at # "clear"
    BY <1>5 DEF S!LockEnds, S!Quiet
  <2>2. /\ lockout' \in [S!Scopes -> BOOLEAN] /\ ~lockout'[c]
        /\ wrong' \in [S!Scopes -> Nat] /\ wrong'[c] = 0
        /\ \A s \in S!Scopes : s # c => lockout'[s] = lockout[s] /\ wrong'[s] = wrong[s]
    BY <1>0, <2>1 DEF S!TypeOK
  <2>3. S!TypeOK'
    BY <1>0, <1>1, <2>1, <2>2 DEF S!TypeOK
  <2>4. S!RowInv'
    BY <1>1, <2>1, <2>2, RequestTypes DEF S!IInv, S!RowInv
  <2>5. ASSUME NEW s \in S!Scopes PROVE S!GuessInv(s)'
    <3>1. Guess(signInReq, fails[s], lockout[s], wrong[s], s)
      BY GuessCounts DEF S!IInv
    <3>2. CASE s # c
      BY <1>1, <2>1, <2>2, <3>1, <3>2, GuessCounts
    <3>3. CASE s = c
      <4>1. fails'[s] \in Nat
        BY <2>1, GuardTypes
      <4>2. Count(signInReq', s, Fails) \in Nat /\ Count(signInReq', s, Locks) \in Nat
        BY OtherCounts
      <4>3. ~lockout'[s] /\ wrong'[s] = 0
        BY <2>2, <3>3
      <4>4. Guess(signInReq', fails'[s], lockout'[s], wrong'[s], s)
        BY <4>1, <4>2, <4>3, FiniteRequests DEF Guess
      <4> QED
        BY <4>4, GuessCounts
    <3> QED
      BY <3>2, <3>3
  <2> QED
    BY <1>2, <2>3, <2>4, <2>5 DEF S!IInv
<1> QED
  BY <1>3, <1>4, <1>5

LEMMA SignInInit == ASSUME S!SignInAssumption PROVE S!Init => S!IInv
<1> SUFFICES ASSUME S!Init PROVE S!IInv
  OBVIOUS
<1>1. S!Idle \in S!RequestState /\ S!Idle.at = "idle"
  BY DEF S!RequestState, S!Idle, S!Steps, S!Scopes
<1>2. S!TypeOK
  <2>1. 0 \in 0..FailureLimit /\ 0 \in 0..MaxEnrolments
    BY FiniteRequests
  <2>2. userRow \in S!UserRow /\ userHolder \in Requests \cup {None}
    BY DEF S!Init, S!UserRow
  <2>3. signInReq \in [Requests -> S!RequestState]
    BY <1>1 DEF S!Init
  <2> QED
    BY <2>1, <2>2, <2>3 DEF S!Init, S!TypeOK
<1>3. S!RowInv /\ S!CodesOfOneEnrolment
  BY <1>1 DEF S!Init, S!RowInv, S!CodesOfOneEnrolment
<1>4. ASSUME NEW s \in S!Scopes PROVE S!GuessInv(s)
  <2>1. fails[s] = 0 /\ wrong[s] = 0 /\ ~lockout[s]
    BY DEF S!Init
  <2>2. Guess(signInReq, fails[s], lockout[s], wrong[s], s)
    BY <2>1, CountTypes, FiniteRequests DEF Guess
  <2> QED
    BY <2>2, GuessCounts
<1> QED
  BY <1>2, <1>3, <1>4 DEF S!IInv

LEMMA SignInNext == ASSUME S!SignInAssumption, S!IInv, [S!Next]_S!vars PROVE S!IInv'
<1>1. CASE UNCHANGED S!vars
  <2>1. UNCHANGED <<fails, expiring, lockout, wrong, challenge, userRow, userHolder, codes,
                    enrolled, signInReq>>
    BY <1>1 DEF S!vars
  <2>2. S!TypeOK' /\ S!RowInv' /\ S!CodesOfOneEnrolment'
    BY <2>1 DEF S!IInv, S!TypeOK, S!RowInv, S!CodesOfOneEnrolment
  <2>3. ASSUME NEW s \in S!Scopes PROVE S!GuessInv(s)'
    <3>1. Guess(signInReq, fails[s], lockout[s], wrong[s], s)
      BY GuessCounts DEF S!IInv
    <3>2. Guess(signInReq', fails'[s], lockout'[s], wrong'[s], s)
      BY <2>1, <3>1
    <3> QED
      BY <3>2, GuessCounts
  <2> QED
    BY <2>2, <2>3 DEF S!IInv
<1>2. CASE S!Next
  BY <1>2, SignInMoves, AnswerWrongOK, ResetOK, IncrementOK, ExpireOK, SetLockOK, ClearFailsOK,
     SetupCommitOK, EnrolmentFlushOK, EnrolmentCommitOK, SignInAbortOK, KeysEnd DEF S!Next
<1> QED
  BY <1>1, <1>2

\* The inductive invariant of sign-in: every wrong answer is counted or on its way, and who
\* changes the recovery codes holds the account's row.
THEOREM SignInInvariant == ASSUME S!SignInAssumption PROVE S!Spec => []S!IInv
<1>1. S!IInv /\ [S!Next]_S!vars => S!IInv'
  BY SignInNext
<1> QED
  BY <1>1, SignInInit, PTL DEF S!Spec

\* What the invariant says of guesses: the lock comes after FailureLimit - 1 wrong answers and
\* one by each request.
LEMMA GuessesOK == ASSUME S!SignInAssumption, S!IInv PROVE S!GuessesBounded
<1> SUFFICES ASSUME NEW s \in S!Scopes PROVE wrong[s] < FailureLimit + Cardinality(Requests)
  BY SameFiniteSets DEF S!GuessesBounded
<1>1. Guess(signInReq, fails[s], lockout[s], wrong[s], s)
  BY GuessCounts DEF S!IInv
<1>2. PICK fail, lock, ans \in Nat :
          /\ fail = Count(signInReq, s, Fails) /\ lock = Count(signInReq, s, Locks)
          /\ ans = Count(signInReq, s, Answers)
          /\ ans + fail + lock <= Cardinality(Requests)
  BY CountTypes
<1>3. fails[s] < FailureLimit \/ fails[s] = FailureLimit
  BY GuardTypes, FiniteRequests
<1> QED
  BY <1>1, <1>2, <1>3, GuardTypes, FiniteRequests DEF Guess

-----------------------------------------------------------------------------
(* Accounts: the purge is final.                                            *)

\* What the invariant says of the pieces of the state.
LEMMA AccountTypes ==
    ASSUME A!AccountsAssumption, A!IInv
    PROVE  /\ RestoreDays \in Nat /\ RestoreDays > 1 /\ AccountMaxAttempts \in Nat /\ MaxDay \in Nat
           /\ account.deleted \in Nat /\ account.deleted <= MaxDay
           /\ day \in Nat /\ day >= 1 /\ day <= MaxDay
           /\ DOMAIN accountReq = Requests
           /\ A!Idle \in A!RequestState /\ A!Idle.at = "idle" /\ ~A!Idle.late
           /\ \A q \in Requests : accountReq[q] \in A!RequestState
BY DEF A!AccountsAssumption, A!IInv, A!TypeOK, A!UserRow, A!Idle, A!RequestState, A!Steps,
   A!Purposes, A!Attempts

\* A step that reads an account which is not deleted cannot be under way any more when the
\* worker has read it as long deleted.
LEMMA PurgedAlone ==
    ASSUME A!AccountsAssumption, A!IInv, ~restoredLate, NEW r \in Requests,
           accountReq[r].at \in A!Writing
    PROVE  worker.at # "finalize" /\ ~account.anonymized
<1> SUFFICES ASSUME worker.at = "finalize" \/ account.anonymized PROVE FALSE
  OBVIOUS
<1>1. account.deleted # 0 /\ account.deleted + RestoreDays <= day
  BY DEF A!IInv
<1>2. day <= account.deleted + (IF accountReq[r].late THEN 1 ELSE 0)
  BY <1>1 DEF A!IInv
<1>3. day <= account.deleted + 1
  BY <1>2, AccountTypes
<1> QED
  BY <1>1, <1>3, AccountTypes

\* What one request does to the requests.
LEMMA OneRequest ==
    ASSUME A!AccountsAssumption, A!IInv, NEW r \in Requests, NEW s \in A!RequestState,
           accountReq' = [accountReq EXCEPT ![r] = s]
    PROVE  /\ accountReq' \in [Requests -> A!RequestState]
           /\ accountReq'[r] = s
           /\ \A q \in Requests : q # r => accountReq'[q] = accountReq[q]
BY DEF A!IInv, A!TypeOK

\* Requests move on: whoever is to write a deleted account was on its way already.
LEMMA RequestsMove ==
    ASSUME A!AccountsAssumption, A!IInv,
           accountReq' \in [Requests -> A!RequestState],
           \A q \in Requests : accountReq'[q].at \in A!Writing =>
              accountReq'[q] = accountReq[q] \/ account.deleted = 0,
           \A q \in Requests : accountReq'[q].at = "miscount" =>
              accountReq'[q].attempts < AccountMaxAttempts,
           recovery' \in [A!Purposes -> A!Attempts \cup {None}],
           UNCHANGED <<account, live, restoredLate, day, worker>>
    PROVE  A!IInv'
<1>1. A!TypeOK'
  BY DEF A!IInv, A!TypeOK
<1>2. A!PurgeFinal'
  BY DEF A!IInv, A!PurgeFinal
<1>3. ASSUME ~restoredLate', account'.deleted # 0, NEW q \in Requests,
             accountReq'[q].at \in A!Writing
      PROVE  day' <= account'.deleted + (IF accountReq'[q].late THEN 1 ELSE 0)
  BY <1>3 DEF A!IInv
<1>4. ASSUME ~restoredLate', worker'.at = "finalize" \/ account'.anonymized
      PROVE  account'.deleted # 0 /\ account'.deleted + RestoreDays <= day'
  BY <1>4 DEF A!IInv
<1> QED
  BY <1>1, <1>2, <1>3, <1>4 DEF A!IInv, A!At

\* A request starts: it reads the account, or an account's code.
LEMMA AccountReads ==
    ASSUME A!AccountsAssumption, A!IInv, NEW r \in Requests,
           \/ A!SessionRead(r) \/ A!ChangeRead(r) \/ A!DeleteRead(r)
           \/ \E p \in A!Purposes : A!CodeWrong(r, p) \/ A!CodeRight(r, p)
    PROVE  A!IInv'
<1>0. /\ accountReq[r] \in A!RequestState
      /\ recovery \in [A!Purposes -> A!Attempts \cup {None}]
      /\ \A q \in Requests : accountReq[q].at = "miscount" =>
            accountReq[q].attempts < AccountMaxAttempts
  BY AccountTypes DEF A!IInv, A!TypeOK, A!At
<1>1. ASSUME NEW s \in A!RequestState, accountReq' = [accountReq EXCEPT ![r] = s],
             s.at \in A!Writing => account.deleted = 0,
             s.at = "miscount" => s.attempts < AccountMaxAttempts,
             UNCHANGED <<account, live, recovery, restoredLate, day, worker>>
      PROVE  A!IInv'
  <2>1. /\ accountReq' \in [Requests -> A!RequestState]
        /\ accountReq'[r] = s
        /\ \A q \in Requests : q # r => accountReq'[q] = accountReq[q]
    BY <1>1, OneRequest
  <2>2. \A q \in Requests : accountReq'[q].at \in A!Writing =>
           accountReq'[q] = accountReq[q] \/ account.deleted = 0
    BY <1>1, <2>1
  <2>3. \A q \in Requests : accountReq'[q].at = "miscount" =>
           accountReq'[q].attempts < AccountMaxAttempts
    BY <1>0, <1>1, <2>1
  <2> QED
    BY <1>0, <1>1, <2>1, <2>2, <2>3, RequestsMove
<1>2. ASSUME NEW a \in {"session", "change", "delete"}, A!Start(r, a), account.deleted = 0,
             UNCHANGED <<account, live, recovery, restoredLate, day, worker>>
      PROVE  A!IInv'
  <2>1. PICK s : s = [accountReq[r] EXCEPT !.at = a]
    OBVIOUS
  <2>2. s \in A!RequestState /\ s.at = a
    BY <1>0, <2>1 DEF A!RequestState, A!Steps
  <2>3. accountReq' = [accountReq EXCEPT ![r] = s]
    BY <1>2, <2>1 DEF A!Start
  <2> QED
    BY <1>1, <1>2, <2>2, <2>3
<1>3. CASE A!SessionRead(r) \/ A!ChangeRead(r) \/ A!DeleteRead(r)
  BY <1>2, <1>3 DEF A!SessionRead, A!ChangeRead, A!DeleteRead, A!SignedIn, A!Found
<1>4. ASSUME NEW p \in A!Purposes, A!CodeWrong(r, p) PROVE A!IInv'
  <2>1. PICK s : s = [at |-> "miscount", for |-> p, attempts |-> recovery[p], late |-> FALSE]
    OBVIOUS
  <2>2. /\ recovery[p] \in A!Attempts /\ recovery[p] < AccountMaxAttempts
        /\ accountReq' = [accountReq EXCEPT ![r] = s]
        /\ UNCHANGED <<account, live, recovery, restoredLate, day, worker>>
    BY <1>4, <2>1 DEF A!CodeWrong, A!Guessable
  <2>3. s \in A!RequestState /\ s.at = "miscount" /\ s.attempts = recovery[p]
    BY <2>1, <2>2 DEF A!RequestState, A!Steps
  <2> QED
    BY <1>1, <2>2, <2>3 DEF A!Writing
<1>5. ASSUME NEW p \in A!Purposes, A!CodeRight(r, p) PROVE A!IInv'
  <2>1. PICK s : s = [accountReq[r] EXCEPT !.at = p, !.for = p]
    OBVIOUS
  <2>2. /\ p \in {"reset", "restore"} /\ (p = "reset" => account.deleted = 0)
        /\ UNCHANGED <<account, live, recovery, restoredLate, day, worker>>
    BY <1>5 DEF A!CodeRight, A!Found, A!Purposes
  <2>3. accountReq' = [accountReq EXCEPT ![r] = s]
    BY <1>5, <2>1 DEF A!CodeRight
  <2>4. s \in A!RequestState /\ s.at = p
    BY <1>0, <2>1, <2>2 DEF A!RequestState, A!Steps, A!Purposes
  <2> QED
    BY <1>1, <2>2, <2>3, <2>4 DEF A!Writing
<1> QED
  BY <1>3, <1>4, <1>5

\* A request that ends without writing the account, or gives up.
LEMMA AccountEnds ==
    ASSUME A!AccountsAssumption, A!IInv, NEW r \in Requests,
           A!MiscountWrite(r) \/ A!DiscardCode(r) \/ A!Abort(r)
    PROVE  A!IInv'
<1>1. /\ A!Finish(r) /\ UNCHANGED <<account, live, restoredLate, day, worker>>
  BY DEF A!MiscountWrite, A!DiscardCode, A!Abort
<1>2. /\ accountReq' \in [Requests -> A!RequestState] /\ accountReq'[r] = A!Idle
      /\ \A q \in Requests : q # r => accountReq'[q] = accountReq[q]
  BY <1>1, OneRequest, AccountTypes DEF A!Finish
<1>3. recovery' \in [A!Purposes -> A!Attempts \cup {None}]
  <2>1. recovery \in [A!Purposes -> A!Attempts \cup {None}] /\ accountReq[r] \in A!RequestState
    BY AccountTypes DEF A!IInv, A!TypeOK
  <2>2. CASE A!MiscountWrite(r)
    <3>1. accountReq[r].attempts + 1 \in A!Attempts
      BY <2>1, <2>2, AccountTypes DEF A!MiscountWrite, A!IInv, A!At, A!RequestState, A!Attempts
    <3> QED
      BY <2>1, <2>2, <3>1 DEF A!MiscountWrite
  <2>3. CASE A!DiscardCode(r)
    BY <2>1, <2>3 DEF A!DiscardCode
  <2>4. CASE A!Abort(r)
    BY <2>1, <2>4 DEF A!Abort
  <2> QED
    BY <2>2, <2>3, <2>4
<1>4. \A q \in Requests : accountReq'[q].at \in A!Writing => accountReq'[q] = accountReq[q]
  BY <1>2, AccountTypes DEF A!Writing
<1>5. \A q \in Requests : accountReq'[q].at = "miscount" =>
         accountReq'[q].attempts < AccountMaxAttempts
  BY <1>2, AccountTypes DEF A!IInv, A!At
<1> QED
  BY <1>1, <1>2, <1>3, <1>4, <1>5, RequestsMove

\* Requests that go on: the others keep what they do, and this one writes no more.
LEMMA OthersWrite ==
    ASSUME A!AccountsAssumption, A!IInv, NEW r \in Requests, NEW s \in A!RequestState,
           s.at \in {"idle", "discard"}, accountReq' = [accountReq EXCEPT ![r] = s]
    PROVE  /\ accountReq' \in [Requests -> A!RequestState]
           /\ \A q \in Requests : accountReq'[q].at \in A!Writing => accountReq'[q] = accountReq[q]
           /\ \A q \in Requests : accountReq'[q].at = "miscount" =>
                 accountReq'[q].attempts < AccountMaxAttempts
<1>1. /\ accountReq' \in [Requests -> A!RequestState] /\ accountReq'[r] = s
      /\ \A q \in Requests : q # r => accountReq'[q] = accountReq[q]
  BY OneRequest
<1>2. \A q \in Requests : accountReq'[q].at \in A!Writing => accountReq'[q] = accountReq[q]
  BY <1>1 DEF A!Writing
<1>3. \A q \in Requests : accountReq'[q].at = "miscount" =>
         accountReq'[q].attempts < AccountMaxAttempts
  BY <1>1 DEF A!IInv, A!At
<1> QED
  BY <1>1, <1>2, <1>3

\* A session, a password, a deletion or a restore is committed.
LEMMA AccountWrites ==
    ASSUME A!AccountsAssumption, A!IInv, NEW r \in Requests,
           A!SessionCommit(r) \/ A!PasswordCommit(r) \/ A!DeleteCommit(r) \/ A!RestoreCommit(r)
    PROVE  A!IInv'
<1>0. /\ A!TypeOK /\ accountReq[r] \in A!RequestState
  BY AccountTypes DEF A!IInv
<1>1. PICK s \in A!RequestState : /\ s.at \in {"idle", "discard"}
                                  /\ accountReq' = [accountReq EXCEPT ![r] = s]
  <2>1. CASE A!Finish(r)
    BY <2>1, AccountTypes DEF A!Finish
  <2>2. CASE accountReq' = [accountReq EXCEPT ![r].at = "discard"]
    <3>1. PICK t : t = [accountReq[r] EXCEPT !.at = "discard"]
      OBVIOUS
    <3>2. t \in A!RequestState /\ t.at = "discard"
      BY <1>0, <3>1 DEF A!RequestState, A!Steps
    <3>3. accountReq' = [accountReq EXCEPT ![r] = t]
      BY <2>2, <3>1
    <3> QED
      BY <3>2, <3>3
  <2> QED
    BY <2>1, <2>2 DEF A!SessionCommit, A!PasswordCommit, A!DeleteCommit, A!RestoreCommit
<1>2. /\ accountReq' \in [Requests -> A!RequestState]
      /\ \A q \in Requests : accountReq'[q].at \in A!Writing => accountReq'[q] = accountReq[q]
      /\ \A q \in Requests : accountReq'[q].at = "miscount" =>
            accountReq'[q].attempts < AccountMaxAttempts
  BY <1>1, OthersWrite
<1>3. CASE A!SessionCommit(r)
  <2>1. /\ live' = TRUE /\ UNCHANGED <<account, recovery, restoredLate, day, worker>>
        /\ accountReq[r].at \in A!Writing
    BY <1>3 DEF A!SessionCommit, A!At, A!Writing
  <2>2. A!TypeOK'
    BY <1>0, <1>2, <2>1 DEF A!TypeOK
  <2>3. ASSUME ~restoredLate', account'.deleted # 0, NEW q \in Requests,
               accountReq'[q].at \in A!Writing
        PROVE  day' <= account'.deleted + (IF accountReq'[q].late THEN 1 ELSE 0)
    BY <1>2, <2>1, <2>3 DEF A!IInv
  <2>4. ~restoredLate => worker.at # "finalize" /\ ~account.anonymized
    BY <2>1, PurgedAlone
  <2>5. A!PurgeFinal'
    BY <2>1, <2>4 DEF A!PurgeFinal
  <2> QED
    BY <1>2, <2>1, <2>2, <2>3, <2>4, <2>5 DEF A!IInv, A!At
<1>4. CASE A!PasswordCommit(r)
  <2>1. /\ account' = [account EXCEPT !.password = TRUE] /\ live' = FALSE
        /\ UNCHANGED <<recovery, restoredLate, day, worker>>
        /\ accountReq[r].at \in A!Writing
    BY <1>4 DEF A!PasswordCommit, A!At, A!Writing
  <2>2. /\ account' \in A!UserRow /\ account'.deleted = account.deleted
        /\ account'.anonymized = account.anonymized
    BY <1>0, <2>1 DEF A!TypeOK, A!UserRow
  <2>3. A!TypeOK'
    BY <1>0, <1>2, <2>1, <2>2 DEF A!TypeOK
  <2>4. ASSUME ~restoredLate', account'.deleted # 0, NEW q \in Requests,
               accountReq'[q].at \in A!Writing
        PROVE  day' <= account'.deleted + (IF accountReq'[q].late THEN 1 ELSE 0)
    BY <1>2, <2>1, <2>2, <2>4 DEF A!IInv
  <2>5. ~restoredLate => worker.at # "finalize" /\ ~account.anonymized
    BY <2>1, PurgedAlone
  <2>6. A!PurgeFinal'
    BY <2>1, <2>2, <2>5 DEF A!PurgeFinal
  <2> QED
    BY <1>2, <2>1, <2>2, <2>3, <2>4, <2>5, <2>6 DEF A!IInv, A!At
<1>5. CASE A!DeleteCommit(r)
  <2>1. /\ account' = [account EXCEPT !.deleted = day] /\ live' = FALSE
        /\ UNCHANGED <<recovery, restoredLate, day, worker>>
        /\ accountReq[r].at \in A!Writing
    BY <1>5 DEF A!DeleteCommit, A!At, A!Writing
  <2>2. /\ account' \in A!UserRow /\ account'.deleted = day
        /\ account'.anonymized = account.anonymized
    BY <1>0, <2>1, AccountTypes DEF A!TypeOK, A!UserRow
  <2>3. A!TypeOK'
    BY <1>0, <1>2, <2>1, <2>2 DEF A!TypeOK
  <2>4. ASSUME NEW q \in Requests
        PROVE  day' <= account'.deleted + (IF accountReq'[q].late THEN 1 ELSE 0)
    BY <2>1, <2>2, AccountTypes
  <2>5. ~restoredLate => worker.at # "finalize" /\ ~account.anonymized
    BY <2>1, PurgedAlone
  <2>6. A!PurgeFinal'
    BY <2>1, <2>2, <2>5 DEF A!PurgeFinal
  <2> QED
    BY <1>2, <2>1, <2>2, <2>3, <2>4, <2>5, <2>6 DEF A!IInv, A!At
<1>6. CASE A!RestoreCommit(r)
  <2>1. /\ account' = [account EXCEPT !.deleted = 0]
        /\ restoredLate' = (restoredLate \/ worker.at = "finalize" \/ account.anonymized)
        /\ UNCHANGED <<live, recovery, day, worker>>
    BY <1>6 DEF A!RestoreCommit
  <2>2. /\ account' \in A!UserRow /\ account'.deleted = 0
        /\ account'.anonymized = account.anonymized
    BY <1>0, <2>1, AccountTypes DEF A!TypeOK, A!UserRow
  <2>3. restoredLate' \in BOOLEAN
    BY <2>1
  <2>4. A!TypeOK'
    BY <1>0, <1>2, <2>1, <2>2, <2>3 DEF A!TypeOK
  <2>5. ~restoredLate' => worker.at # "finalize" /\ ~account.anonymized
    BY <2>1
  <2>6. A!PurgeFinal'
    BY <2>2, <2>5 DEF A!PurgeFinal
  <2> QED
    BY <1>2, <2>1, <2>2, <2>4, <2>5, <2>6 DEF A!IInv, A!At
<1> QED
  BY <1>3, <1>4, <1>5, <1>6

\* What happens to the account without a request: its sessions end, a code is mailed or
\* dropped, an administrator suspends it.
LEMMA AccountAround ==
    ASSUME A!AccountsAssumption, A!IInv,
           \/ A!LogOut
           \/ \E p \in A!Purposes : A!RequestCode(p) \/ A!CodeExpires(p)
           \/ \E s \in {"active", "suspended"} : A!SetStatus(s)
    PROVE  A!IInv'
<1>0. A!TypeOK
  BY DEF A!IInv
<1>1. CASE A!LogOut
  <2>1. live' = FALSE /\ UNCHANGED <<account, recovery, restoredLate, day, accountReq, worker>>
    BY <1>1 DEF A!LogOut
  <2> QED
    BY <2>1 DEF A!IInv, A!TypeOK, A!PurgeFinal, A!At
<1>2. ASSUME NEW p \in A!Purposes, A!RequestCode(p) \/ A!CodeExpires(p) PROVE A!IInv'
  <2>1. /\ recovery' = [recovery EXCEPT ![p] = 0] \/ recovery' = [recovery EXCEPT ![p] = None]
        /\ UNCHANGED <<account, live, restoredLate, day, accountReq, worker>>
    BY <1>2 DEF A!RequestCode, A!CodeExpires
  <2>2. 0 \in A!Attempts
    BY AccountTypes DEF A!Attempts
  <2>3. recovery' \in [A!Purposes -> A!Attempts \cup {None}]
    BY <1>0, <2>1, <2>2 DEF A!TypeOK
  <2> QED
    BY <1>0, <2>1, <2>3, RequestsMove DEF A!IInv, A!TypeOK, A!At
<1>3. ASSUME NEW s \in {"active", "suspended"}, A!SetStatus(s) PROVE A!IInv'
  <2>1. /\ account' = [account EXCEPT !.status = s]
        /\ UNCHANGED <<live, recovery, restoredLate, day, accountReq, worker>>
    BY <1>3 DEF A!SetStatus
  <2>2. /\ account' \in A!UserRow /\ account'.deleted = account.deleted
        /\ account'.anonymized = account.anonymized /\ account'.password = account.password
        /\ account'.google = account.google
    BY <1>0, <2>1 DEF A!TypeOK, A!UserRow
  <2>3. A!TypeOK'
    BY <1>0, <2>1, <2>2 DEF A!TypeOK
  <2>4. A!PurgeFinal'
    BY <2>1, <2>2 DEF A!IInv, A!PurgeFinal
  <2> QED
    BY <2>1, <2>2, <2>3, <2>4 DEF A!IInv, A!At
<1> QED
  BY <1>1, <1>2, <1>3

\* The worker and the clock.
LEMMA AccountTime ==
    ASSUME A!AccountsAssumption, A!IInv,
           A!FinalizeRead \/ A!FinalizeCommit \/ A!WorkerCrash \/ A!Tick
    PROVE  A!IInv'
<1>0. A!TypeOK
  BY DEF A!IInv
<1>1. CASE A!FinalizeRead
  <2>1. /\ worker' = [worker EXCEPT !.at = "finalize"]
        /\ account.deleted # 0 /\ account.deleted <= day - RestoreDays
        /\ UNCHANGED <<account, live, recovery, restoredLate, day, accountReq>>
    BY <1>1 DEF A!FinalizeRead
  <2>2. worker' \in A!WorkerState
    BY <1>0, <2>1 DEF A!TypeOK, A!WorkerState
  <2>3. account.deleted + RestoreDays <= day
    BY <2>1, AccountTypes
  <2> QED
    BY <1>0, <2>1, <2>2, <2>3 DEF A!IInv, A!TypeOK, A!PurgeFinal, A!At
<1>2. CASE A!FinalizeCommit
  <2>1. /\ account' = [account EXCEPT !.password = FALSE, !.google = FALSE, !.anonymized = TRUE]
        /\ live' = FALSE /\ worker.at = "finalize" /\ worker' = A!IdleWorker
        /\ UNCHANGED <<recovery, restoredLate, day, accountReq>>
    BY <1>2 DEF A!FinalizeCommit
  <2>2. /\ account' \in A!UserRow /\ account'.deleted = account.deleted
        /\ ~account'.password /\ ~account'.google
    BY <1>0, <2>1 DEF A!TypeOK, A!UserRow
  <2>3. worker' \in A!WorkerState
    BY <2>1 DEF A!IdleWorker, A!WorkerState
  <2>4. A!TypeOK'
    BY <1>0, <2>1, <2>2, <2>3 DEF A!TypeOK
  <2>5. ~restoredLate => account.deleted # 0 /\ account.deleted + RestoreDays <= day
    BY <2>1 DEF A!IInv
  <2>6. A!PurgeFinal'
    BY <2>1, <2>2, <2>5 DEF A!PurgeFinal
  <2> QED
    BY <2>1, <2>2, <2>4, <2>5, <2>6 DEF A!IInv, A!At
<1>3. CASE A!WorkerCrash
  <2>1. /\ worker' = A!IdleWorker
        /\ UNCHANGED <<account, live, recovery, restoredLate, day, accountReq>>
    BY <1>3 DEF A!WorkerCrash
  <2>2. worker' \in A!WorkerState /\ worker'.at # "finalize"
    BY <2>1 DEF A!IdleWorker, A!WorkerState
  <2> QED
    BY <1>0, <2>1, <2>2 DEF A!IInv, A!TypeOK, A!PurgeFinal, A!At
<1>4. CASE A!Tick
  <2>1. /\ day < MaxDay /\ day' = day + 1
        /\ \A q \in Requests : ~accountReq[q].late
        /\ accountReq' = [q \in Requests |-> [accountReq[q] EXCEPT !.late = ~A!At(q, "idle")]]
        /\ worker' = [worker EXCEPT !.late = worker.at # "idle"]
        /\ UNCHANGED <<account, live, recovery, restoredLate>>
    BY <1>4 DEF A!Tick
  <2>2. ASSUME NEW q \in Requests
        PROVE  /\ accountReq'[q] \in A!RequestState /\ accountReq'[q].at = accountReq[q].at
               /\ accountReq'[q].attempts = accountReq[q].attempts
               /\ accountReq[q].at # "idle" => accountReq'[q].late
    <3>1. PICK b \in BOOLEAN : b = ~A!At(q, "idle")
      OBVIOUS
    <3>2. accountReq'[q] = [accountReq[q] EXCEPT !.late = b]
      BY <2>1, <3>1
    <3>3. accountReq[q] \in A!RequestState
      BY AccountTypes
    <3>4. /\ accountReq'[q] \in A!RequestState /\ accountReq'[q].at = accountReq[q].at
          /\ accountReq'[q].attempts = accountReq[q].attempts /\ accountReq'[q].late = b
      BY <3>2, <3>3 DEF A!RequestState
    <3> QED
      BY <3>1, <3>4 DEF A!At
  <2>3. accountReq' \in [Requests -> A!RequestState]
    BY <2>1, <2>2
  <2>4. worker' \in A!WorkerState /\ worker'.at = worker.at
    <3>1. PICK b \in BOOLEAN : b = (worker.at # "idle")
      OBVIOUS
    <3>2. worker' = [worker EXCEPT !.late = b]
      BY <2>1, <3>1
    <3> QED
      BY <1>0, <3>2 DEF A!TypeOK, A!WorkerState
  <2>5. day' \in 1..MaxDay
    BY <2>1, AccountTypes
  <2>6. A!TypeOK'
    BY <1>0, <2>1, <2>3, <2>4, <2>5 DEF A!TypeOK
  <2>7. ASSUME ~restoredLate', account'.deleted # 0, NEW q \in Requests,
               accountReq'[q].at \in A!Writing
        PROVE  day' <= account'.deleted + (IF accountReq'[q].late THEN 1 ELSE 0)
    <3>1. accountReq[q].at \in A!Writing /\ accountReq'[q].late
      BY <2>2, <2>7 DEF A!Writing
    <3>2. day <= account.deleted + (IF accountReq[q].late THEN 1 ELSE 0)
      BY <2>1, <2>7, <3>1 DEF A!IInv
    <3>3. day <= account.deleted
      BY <2>1, <3>2, AccountTypes
    <3> QED
      BY <2>1, <3>1, <3>3, AccountTypes
  <2>8. ASSUME ~restoredLate', worker'.at = "finalize" \/ account'.anonymized
        PROVE  account'.deleted # 0 /\ account'.deleted + RestoreDays <= day'
    <3>1. account.deleted # 0 /\ account.deleted + RestoreDays <= day
      BY <2>1, <2>4, <2>8 DEF A!IInv
    <3> QED
      BY <2>1, <3>1, AccountTypes
  <2>9. A!PurgeFinal'
    BY <2>1 DEF A!IInv, A!PurgeFinal
  <2>10. \A q \in Requests : accountReq'[q].at = "miscount" =>
            accountReq'[q].attempts < AccountMaxAttempts
    BY <2>2 DEF A!IInv, A!At
  <2> QED
    BY <2>6, <2>7, <2>8, <2>9, <2>10 DEF A!IInv, A!At
<1> QED
  BY <1>1, <1>2, <1>3, <1>4

LEMMA AccountsInit == ASSUME A!AccountsAssumption PROVE A!Init => A!IInv
<1> SUFFICES ASSUME A!Init PROVE A!IInv
  OBVIOUS
<1>1. AccountMaxAttempts \in Nat /\ MaxDay \in Nat /\ MaxDay # 0
  BY DEF A!AccountsAssumption
<1>2. 0 \in A!Attempts /\ 0 \in 0..MaxDay /\ 1 \in 1..MaxDay
  BY <1>1 DEF A!Attempts
<1>3. A!Idle \in A!RequestState /\ A!Idle.at = "idle"
  BY <1>2 DEF A!Idle, A!RequestState, A!Steps, A!Purposes
<1>4. A!IdleWorker \in A!WorkerState /\ A!IdleWorker.at = "idle"
  BY DEF A!IdleWorker, A!WorkerState
<1>5. account \in A!UserRow /\ account.deleted = 0 /\ account.anonymized = FALSE
  <2>1. account \in [password : BOOLEAN, google : BOOLEAN, status : {"active"},
                     deleted : {0}, anonymized : {FALSE}]
    BY DEF A!Init
  <2>2. /\ account.password \in BOOLEAN /\ account.google \in BOOLEAN
        /\ account.status \in {"active", "suspended"}
        /\ account.deleted = 0 /\ account.anonymized = FALSE
    BY <2>1, Zenon
  <2>3. account = [password |-> account.password, google |-> account.google,
                   status |-> account.status, deleted |-> account.deleted,
                   anonymized |-> account.anonymized]
    BY <2>1, Zenon
  <2> QED
    BY <1>2, <2>2, <2>3 DEF A!UserRow
<1>6. A!TypeOK
  BY <1>2, <1>3, <1>4, <1>5 DEF A!Init, A!TypeOK
<1>7. \A q \in Requests : accountReq[q].at = "idle"
  BY <1>3 DEF A!Init
<1>8. A!PurgeFinal
  BY <1>5 DEF A!PurgeFinal
<1> QED
  BY <1>4, <1>5, <1>6, <1>7, <1>8 DEF A!Init, A!IInv, A!At, A!Writing

LEMMA AccountsNext == ASSUME A!AccountsAssumption, A!IInv, [A!Next]_A!vars PROVE A!IInv'
<1>1. CASE UNCHANGED A!vars
  BY <1>1 DEF A!vars, A!IInv, A!TypeOK, A!PurgeFinal, A!At
<1>2. CASE A!Next
  BY <1>2, AccountReads, AccountEnds, AccountWrites, AccountAround, AccountTime
     DEF A!Next, A!Continue
<1> QED
  BY <1>1, <1>2

\* The inductive invariant of an account's life: what was begun before a deletion is over
\* before the worker reads the account.
THEOREM AccountsInvariant == ASSUME A!AccountsAssumption PROVE A!Spec => []A!IInv
<1>1. A!IInv /\ [A!Next]_A!vars => A!IInv'
  BY AccountsNext
<1> QED
  BY <1>1, AccountsInit, PTL DEF A!Spec

-----------------------------------------------------------------------------
(* Launch: a one-time record opens one session.                             *)

LEMMA LaunchInit == ASSUME L!LaunchAssumption PROVE L!Init => L!IInv
<1> SUFFICES ASSUME L!Init PROVE L!IInv
  OBVIOUS
<1>1. L!TypeOK
  BY DEF L!Init, L!TypeOK, L!Record, L!Absent
<1>2. \A g \in Grants : L!GrantOK(g)
  BY DEF L!Init, L!GrantOK, L!Absent, L!Unopened
<1>3. L!ConsumedOnce
  BY DEF L!Init, L!ConsumedOnce
<1>4. DOMAIN launchReq = Requests /\ \A r \in Requests : launchReq[r] = L!Idle
  BY DEF L!Init
<1> QED
  BY <1>1, <1>2, <1>3, <1>4 DEF L!IInv, L!RequestOK

\* What the steps of requests leave to the other requests: a step of r for grant g.
LEMMA LaunchOthers ==
    ASSUME L!IInv, NEW r \in Requests, NEW g \in Grants, DOMAIN launchReq' = Requests,
           \A q \in Requests : q # r => launchReq'[q] = launchReq[q],
           L!RequestOK(launchReq[r])',
           launchReq'[r] # L!Idle => launchReq'[r].grant = g,
           \A q \in Requests : q # r /\ launchReq[q] # L!Idle => launchReq[q].grant # g,
           kind' = kind,
           \A h \in Grants : h # g => /\ record'[h] = record[h] /\ claimed'[h] = claimed[h]
                                      /\ sessions'[h] = sessions[h]
    PROVE  /\ \A q \in Requests : L!RequestOK(launchReq[q])'
           /\ \A p, q \in Requests :
                 launchReq'[p] # L!Idle /\ launchReq'[q] # L!Idle
                    /\ launchReq'[p].grant = launchReq'[q].grant => p = q
<1>1. ASSUME NEW q \in Requests, q # r PROVE L!RequestOK(launchReq[q])'
  <2>1. launchReq'[q] = launchReq[q] /\ L!RequestOK(launchReq[q])
    BY <1>1 DEF L!IInv
  <2>2. CASE launchReq[q] = L!Idle
    BY <2>1, <2>2 DEF L!RequestOK, L!Idle
  <2>3. CASE launchReq[q] # L!Idle
    <3>1. launchReq[q].grant \in Grants /\ launchReq[q].grant # g
      BY <1>1, <2>1, <2>3 DEF L!RequestOK
    <3> QED
      BY <2>1, <2>3, <3>1 DEF L!RequestOK, L!Unopened, L!Idle
  <2> QED
    BY <2>2, <2>3
<1>2. ASSUME NEW p \in Requests, NEW q \in Requests, launchReq'[p] # L!Idle,
             launchReq'[q] # L!Idle, launchReq'[p].grant = launchReq'[q].grant
      PROVE  p = q
  BY <1>2 DEF L!IInv
<1> QED
  BY <1>1, <1>2

\* A grant at rest in Redis is nobody's.
LEMMA NobodyHas ==
    ASSUME L!IInv, NEW g \in Grants, kind[g] = "none" \/ record[g].at # "absent"
    PROVE  \A q \in Requests : launchReq[q] # L!Idle => launchReq[q].grant # g
BY DEF L!IInv, L!RequestOK

\* The grants and the sessions after a step about grant g.
LEMMA GrantsAfter ==
    ASSUME L!IInv, NEW g \in Grants,
           \A h \in Grants : h # g => /\ kind'[h] = kind[h] /\ record'[h] = record[h]
                                      /\ claimed'[h] = claimed[h] /\ sessions'[h] = sessions[h],
           L!GrantOK(g)',
           \/ sessions'[g] = sessions[g] /\ kind'[g] = kind[g] /\ claimed'[g] = claimed[g]
           \/ \A c \in Clients : sessions'[g][c] = 0
    PROVE  L!ConsumedOnce' /\ \A h \in Grants : L!GrantOK(h)'
<1>1. L!ConsumedOnce'
  BY DEF L!IInv, L!ConsumedOnce
<1>2. ASSUME NEW h \in Grants, h # g PROVE L!GrantOK(h)'
  BY <1>2 DEF L!IInv, L!GrantOK, L!Unopened
<1> QED
  BY <1>1, <1>2

LEMMA LaunchCreateOK ==
    ASSUME L!LaunchAssumption, L!IInv, NEW g \in Grants,
           \/ \E k \in L!Kinds : L!Create(g, k)
           \/ \E c \in Clients : L!CreateBound(g, c)
           \/ L!Expire(g)
    PROVE  L!IInv'
<1>0. /\ L!TypeOK /\ L!GrantOK(g) /\ DOMAIN launchReq = Requests
      /\ \A q \in Requests : L!RequestOK(launchReq[q])
  BY DEF L!IInv
<1>1. /\ launchReq' = launchReq /\ sessions' = sessions /\ allowed' = allowed
      /\ \A h \in Grants : h # g => /\ kind'[h] = kind[h] /\ record'[h] = record[h]
                                    /\ claimed'[h] = claimed[h]
      /\ kind[g] = "none" \/ record[g].at # "absent"
  <2>1. CASE \E k \in L!Kinds : L!Create(g, k)
    BY <1>0, <2>1 DEF L!Create, L!TypeOK
  <2>2. CASE \E c \in Clients : L!CreateBound(g, c)
    BY <1>0, <2>2 DEF L!CreateBound, L!TypeOK
  <2>3. CASE L!Expire(g)
    BY <1>0, <2>3 DEF L!Expire, L!TypeOK, L!Absent, L!Record
  <2> QED
    BY <2>1, <2>2, <2>3
<1>2. L!TypeOK'
  <2>1. CASE \E k \in L!Kinds : L!Create(g, k)
    BY <1>0, <2>1 DEF L!Create, L!TypeOK, L!Record
  <2>2. CASE \E c \in Clients : L!CreateBound(g, c)
    BY <1>0, <2>2 DEF L!CreateBound, L!TypeOK, L!Record, L!Kinds
  <2>3. CASE L!Expire(g)
    BY <1>0, <2>3 DEF L!Expire, L!TypeOK, L!Record, L!Absent
  <2> QED
    BY <2>1, <2>2, <2>3
<1>3. L!GrantOK(g)'
  <2>1. CASE \E k \in L!Kinds : L!Create(g, k)
    BY <1>0, <2>1 DEF L!Create, L!TypeOK, L!Record, L!GrantOK, L!Unopened
  <2>2. CASE \E c \in Clients : L!CreateBound(g, c)
    BY <1>0, <2>2 DEF L!CreateBound, L!TypeOK, L!GrantOK, L!Unopened, L!Kinds
  <2>3. CASE L!Expire(g)
    BY <1>0, <2>3 DEF L!Expire, L!TypeOK, L!Absent, L!GrantOK, L!Unopened
  <2> QED
    BY <2>1, <2>2, <2>3
<1>4. \/ kind'[g] = kind[g] /\ claimed'[g] = claimed[g]
      \/ \A c \in Clients : sessions'[g][c] = 0
  BY <1>0, <1>1 DEF L!Create, L!CreateBound, L!Expire, L!GrantOK, L!Unopened
<1>5. L!ConsumedOnce' /\ \A h \in Grants : L!GrantOK(h)'
  BY <1>1, <1>3, <1>4, GrantsAfter
<1>6. ASSUME NEW q \in Requests PROVE L!RequestOK(launchReq[q])'
  <2>1. CASE launchReq[q] = L!Idle
    BY <1>1, <2>1 DEF L!RequestOK, L!Idle
  <2>2. CASE launchReq[q] # L!Idle
    <3>1. launchReq[q].grant \in Grants /\ launchReq[q].grant # g
      BY <1>0, <1>1, <2>2, NobodyHas DEF L!RequestOK
    <3> QED
      BY <1>0, <1>1, <2>2, <3>1 DEF L!RequestOK, L!Unopened, L!Idle
  <2> QED
    BY <2>1, <2>2
<1> QED
  BY <1>1, <1>2, <1>5, <1>6 DEF L!IInv, L!Idle

\* A request takes the record, to claim it or to exchange it.
LEMMA LaunchTakeOK ==
    ASSUME L!LaunchAssumption, L!IInv, NEW r \in Requests, NEW g \in Grants, NEW c \in Clients,
           L!Claim(r, g, c) \/ L!Exchange(r, g, c)
    PROVE  L!IInv'
<1>0. L!TypeOK /\ L!GrantOK(g) /\ DOMAIN launchReq = Requests
  BY DEF L!IInv
<1>1. /\ record[g].at # "absent" /\ record' = [record EXCEPT ![g] = L!Absent]
      /\ UNCHANGED <<kind, claimed, allowed, sessions>>
      /\ DOMAIN launchReq' = Requests
      /\ \A q \in Requests : q # r => launchReq'[q] = launchReq[q]
  BY <1>0 DEF L!Claim, L!Exchange, L!ConsumeRecord
<1>2. record'[g].at = "absent" /\ \A h \in Grants : h # g => record'[h] = record[h]
  BY <1>0, <1>1 DEF L!TypeOK, L!Absent
<1>3. L!TypeOK'
  BY <1>0, <1>1 DEF L!TypeOK, L!Absent, L!Record
<1>4. kind[g] # "none" /\ L!Unopened(g)
  BY <1>0, <1>1 DEF L!GrantOK
<1>5. L!RequestOK(launchReq[r])' /\ launchReq'[r].grant = g
  <2>1. CASE L!Claim(r, g, c)
    <3>1. /\ launchReq'[r] \in [op : {"claim"}, grant : Grants, client : Clients]
          /\ launchReq'[r].grant = g
      BY <1>0, <2>1 DEF L!Claim
    <3>2. kind'[g] = "launch" /\ claimed'[g] = {}
      BY <1>0, <1>1, <2>1 DEF L!Claim, L!GrantOK
    <3> QED
      BY <1>1, <1>2, <1>4, <3>1, <3>2 DEF L!RequestOK, L!Unopened
  <2>2. CASE L!Exchange(r, g, c)
    <3> DEFINE fits == kind[g] = "sso" \/ record[g].challenge = c
    <3>1. fits \in BOOLEAN
      OBVIOUS
    <3>2. launchReq'[r] = [op |-> "exchange", grant |-> g, client |-> c, proven |-> fits]
      BY <1>0, <2>2 DEF L!Exchange
    <3> HIDE DEF fits
    <3>3. /\ launchReq'[r] \in [op : {"exchange"}, grant : Grants, client : Clients,
                                proven : BOOLEAN]
          /\ launchReq'[r].grant = g /\ launchReq'[r].client = c
          /\ launchReq'[r].proven = fits
      BY <3>1, <3>2
    <3>4. launchReq'[r].proven /\ kind'[g] # "sso" => claimed'[g] = {c}
      BY <1>0, <1>1, <2>2, <3>3 DEF L!Exchange, L!GrantOK, fits
    <3> QED
      BY <1>1, <1>2, <1>4, <3>3, <3>4 DEF L!RequestOK, L!Unopened
  <2> QED
    BY <2>1, <2>2
<1>6. \A q \in Requests : q # r /\ launchReq[q] # L!Idle => launchReq[q].grant # g
  BY <1>1, NobodyHas
<1>7. L!GrantOK(g)'
  BY <1>1, <1>2, <1>4 DEF L!GrantOK, L!Unopened
<1>8. L!ConsumedOnce' /\ \A h \in Grants : L!GrantOK(h)'
  BY <1>1, <1>2, <1>7, GrantsAfter
<1>9. /\ \A q \in Requests : L!RequestOK(launchReq[q])'
      /\ \A p, q \in Requests :
            launchReq'[p] # L!Idle /\ launchReq'[q] # L!Idle
               /\ launchReq'[p].grant = launchReq'[q].grant => p = q
  BY <1>1, <1>2, <1>5, <1>6, LaunchOthers
<1> QED
  BY <1>1, <1>3, <1>8, <1>9 DEF L!IInv, L!Idle

\* The request that claims stores the code; the one that exchanges issues the session; or
\* either of them ends.
LEMMA LaunchEndOK ==
    ASSUME L!LaunchAssumption, L!IInv, NEW r \in Requests,
           L!Claimed(r) \/ L!Issue(r) \/ L!Abort(r)
    PROVE  L!IInv'
<1>0. L!TypeOK /\ DOMAIN launchReq = Requests /\ L!RequestOK(launchReq[r])
  BY DEF L!IInv
<1>1. /\ launchReq[r] # L!Idle
      /\ launchReq' = [launchReq EXCEPT ![r] = L!Idle]
      /\ UNCHANGED <<kind, allowed>>
  BY DEF L!Claimed, L!Issue, L!Abort, L!Idle
<1>2. PICK g \in Grants, c \in Clients : g = launchReq[r].grant /\ c = launchReq[r].client
  BY <1>0, <1>1 DEF L!RequestOK
<1>3. kind[g] # "none" /\ record[g].at = "absent" /\ L!Unopened(g)
  BY <1>0, <1>1, <1>2 DEF L!RequestOK
<1>4. /\ DOMAIN launchReq' = Requests /\ launchReq'[r] = L!Idle
      /\ \A q \in Requests : q # r => launchReq'[q] = launchReq[q]
  BY <1>0, <1>1
<1>5. \A q \in Requests : q # r /\ launchReq[q] # L!Idle => launchReq[q].grant # g
  BY <1>1, <1>2 DEF L!IInv
<1>6. L!RequestOK(launchReq[r])'
  BY <1>4 DEF L!RequestOK, L!Idle
<1>7. CASE L!Claimed(r)
  <2>1. /\ record' = [record EXCEPT ![g] = [at |-> "code", challenge |-> c]]
        /\ claimed' = [claimed EXCEPT ![g] = claimed[g] \cup {c}]
        /\ sessions' = sessions /\ claimed[g] = {}
    BY <1>0, <1>2, <1>7 DEF L!Claimed, L!RequestOK, L!Idle
  <2>2. record'[g].at = "code" /\ record'[g].challenge = c /\ claimed'[g] = {c}
    BY <1>0, <1>2, <2>1 DEF L!TypeOK
  <2>3. L!TypeOK'
    BY <1>0, <1>1, <1>2, <2>1 DEF L!TypeOK, L!Record
  <2>4. \A h \in Grants : h # g => /\ record'[h] = record[h] /\ claimed'[h] = claimed[h]
                                   /\ sessions'[h] = sessions[h]
    BY <1>0, <2>1 DEF L!TypeOK
  <2>5. kind'[g] # "none" /\ \A d \in Clients : sessions'[g][d] = 0
    BY <1>1, <1>3, <2>1 DEF L!Unopened
  <2>6. L!GrantOK(g)'
    BY <2>2, <2>5 DEF L!GrantOK, L!Unopened
  <2>7. L!ConsumedOnce' /\ \A h \in Grants : L!GrantOK(h)'
    BY <1>1, <1>2, <2>4, <2>5, <2>6, GrantsAfter
  <2> QED
    BY <1>1, <1>2, <1>4, <1>5, <1>6, <2>3, <2>4, <2>7, LaunchOthers DEF L!IInv, L!Idle
<1>8. CASE L!Issue(r)
  <2>1. /\ sessions' = [sessions EXCEPT ![g][c] = sessions[g][c] + 1]
        /\ UNCHANGED <<record, claimed>>
        /\ kind[g] # "sso" => claimed[g] = {c}
    BY <1>0, <1>2, <1>8 DEF L!Issue, L!RequestOK, L!Idle
  <2>2. /\ sessions' \in [Grants -> [Clients -> Nat]]
        /\ \A h \in Grants : h # g => sessions'[h] = sessions[h]
        /\ sessions'[g][c] = 1 /\ \A d \in Clients : d # c => sessions'[g][d] = 0
    BY <1>0, <1>2, <1>3, <2>1 DEF L!TypeOK, L!Unopened
  <2>3. L!TypeOK'
    BY <1>0, <1>1, <2>1, <2>2 DEF L!TypeOK
  <2>4. L!ConsumedOnce'
    <3> SUFFICES ASSUME NEW h \in Grants
                 PROVE  /\ \A d \in Clients : sessions'[h][d] <= 1
                        /\ \A d, e \in Clients : sessions'[h][d] > 0 /\ sessions'[h][e] > 0 => d = e
                        /\ kind'[h] # "sso"
                              => \A d \in Clients : sessions'[h][d] > 0 => claimed'[h] = {d}
      BY DEF L!ConsumedOnce
    <3>1. CASE h = g
      BY <1>1, <1>2, <2>1, <2>2, <3>1
    <3>2. CASE h # g
      BY <1>1, <2>1, <2>2, <3>2 DEF L!IInv, L!ConsumedOnce
    <3> QED
      BY <3>1, <3>2
  <2>5. \A h \in Grants : L!GrantOK(h)'
    BY <1>1, <1>3, <2>1, <2>2 DEF L!IInv, L!GrantOK, L!Unopened
  <2> QED
    BY <1>1, <1>2, <1>4, <1>5, <1>6, <2>1, <2>2, <2>3, <2>4, <2>5, LaunchOthers
       DEF L!IInv, L!Idle
<1>9. CASE L!Abort(r)
  <2>1. UNCHANGED <<record, claimed, sessions>>
    BY <1>9 DEF L!Abort
  <2>2. L!TypeOK' /\ L!ConsumedOnce' /\ \A h \in Grants : L!GrantOK(h)'
    BY <1>1, <2>1 DEF L!IInv, L!TypeOK, L!ConsumedOnce, L!GrantOK, L!Unopened
  <2> QED
    BY <1>1, <1>2, <1>4, <1>5, <1>6, <2>1, <2>2, LaunchOthers DEF L!IInv, L!Idle
<1> QED
  BY <1>7, <1>8, <1>9

LEMMA LaunchNext == ASSUME L!LaunchAssumption PROVE L!IInv /\ [L!Next]_L!vars => L!IInv'
<1> SUFFICES ASSUME L!IInv, [L!Next]_L!vars PROVE L!IInv'
  OBVIOUS
<1>1. CASE UNCHANGED L!vars
  BY <1>1 DEF L!vars, L!IInv, L!TypeOK, L!ConsumedOnce, L!GrantOK, L!RequestOK, L!Unopened
<1>2. CASE L!AllowedChanges
  <2>1. UNCHANGED <<kind, record, claimed, sessions, launchReq>> /\ allowed' \in BOOLEAN
    BY <1>2 DEF L!AllowedChanges
  <2> QED
    BY <2>1 DEF L!IInv, L!TypeOK, L!ConsumedOnce, L!GrantOK, L!RequestOK, L!Unopened
<1>3. ASSUME NEW g \in Grants,
             \/ \E k \in L!Kinds : L!Create(g, k)
             \/ \E c \in Clients : L!CreateBound(g, c)
             \/ L!Expire(g)
      PROVE  L!IInv'
  BY <1>3, LaunchCreateOK
<1>4. ASSUME NEW r \in Requests, NEW g \in Grants, NEW c \in Clients,
             L!Claim(r, g, c) \/ L!Exchange(r, g, c)
      PROVE  L!IInv'
  BY <1>4, LaunchTakeOK
<1>5. ASSUME NEW r \in Requests, L!Claimed(r) \/ L!Issue(r) \/ L!Abort(r) PROVE L!IInv'
  BY <1>5, LaunchEndOK
<1> QED
  BY <1>1, <1>2, <1>3, <1>4, <1>5 DEF L!Next

\* The inductive invariant of the one-time records: whoever took one is the only one that can
\* still turn it into a session.
THEOREM LaunchInvariant == ASSUME L!LaunchAssumption PROVE L!Spec => []L!IInv
<1> QED
  BY LaunchInit, LaunchNext, PTL DEF L!Spec

(* Launch, its records and requests hidden, is OneTimeSecret.               *)

LEMMA SecretInitial == L!Init => L!Secret!Init
<1> SUFFICES ASSUME L!Init PROVE L!Secret!Init
  OBVIOUS
<1>1. L!Live = {}
  BY DEF L!Init, L!Live, L!Absent
<1> QED
  BY <1>1 DEF L!Init, L!Secret!Init

\* A grant is handed out when Redis first holds its record, and given up when that expires
\* and nobody has taken it.
LEMMA HandedOut ==
    ASSUME L!IInv, NEW g \in Grants,
           \/ \E k \in L!Kinds : L!Create(g, k)
           \/ \E c \in Clients : L!CreateBound(g, c)
           \/ L!Expire(g)
    PROVE  [L!Secret!Next]_(L!Secret!vars)
<1>1. /\ record \in [Grants -> L!Record] /\ launchReq' = launchReq
      /\ kind[g] = "none" \/ record[g].at # "absent"
      /\ \A h \in Grants : h # g => record'[h] = record[h]
  BY DEF L!IInv, L!TypeOK, L!Create, L!CreateBound, L!Expire
<1>2. \A q \in Requests : launchReq[q] # L!Idle => launchReq[q].grant # g
  BY <1>1, NobodyHas
<1>3. \A h \in Grants : h # g => (h \in L!Live' <=> h \in L!Live)
  BY <1>1 DEF L!Live, L!Idle
<1>4. (g \in L!Live' <=> record'[g].at # "absent") /\ (g \in L!Live <=> record[g].at # "absent")
  BY <1>1, <1>2 DEF L!Live, L!Idle
<1>5. L!Live \subseteq Grants /\ L!Live' \subseteq Grants
  BY DEF L!Live
<1>6. ASSUME NEW k \in L!Kinds, L!Create(g, k) PROVE L!Secret!HandOut(g, k) /\ k \in {"launch", "sso"}
  <2>1. record'[g].at = "ticket"
    BY <1>1, <1>6 DEF L!Create, L!Record
  <2>2. L!Live' = L!Live \cup {g}
    BY <1>3, <1>4, <1>5, <2>1
  <2> QED
    BY <1>6, <2>2 DEF L!Create, L!Secret!HandOut
<1>7. ASSUME NEW c \in Clients, L!CreateBound(g, c) PROVE L!Secret!HandOutTo(g, c)
  <2>1. record'[g].at = "code"
    BY <1>1, <1>7 DEF L!CreateBound
  <2>2. L!Live' = L!Live \cup {g}
    BY <1>3, <1>4, <1>5, <2>1
  <2> QED
    BY <1>7, <2>2 DEF L!CreateBound, L!Secret!HandOutTo
<1>8. CASE L!Expire(g)
  <2>1. record'[g].at = "absent" /\ record[g].at # "absent"
    BY <1>1, <1>8 DEF L!Expire, L!Absent
  <2>2. g \in L!Live /\ L!Live' = L!Live \ {g}
    BY <1>3, <1>4, <1>5, <2>1
  <2>3. L!Secret!GiveUp(g)
    BY <1>8, <2>2 DEF L!Expire, L!Secret!GiveUp
  <2> QED
    BY <2>3 DEF L!Secret!Next
<1> QED
  BY <1>6, <1>7, <1>8 DEF L!Secret!Next

\* To take a record shows nothing: the grant lives on in the request.
LEMMA TakenUnseen ==
    ASSUME L!IInv, NEW r \in Requests, NEW g \in Grants, NEW c \in Clients,
           L!Claim(r, g, c) \/ L!Exchange(r, g, c)
    PROVE  UNCHANGED L!Secret!vars
<1>1. /\ record \in [Grants -> L!Record] /\ DOMAIN launchReq = Requests
      /\ launchReq[r] = L!Idle /\ record[g].at # "absent"
      /\ record' = [record EXCEPT ![g] = L!Absent]
      /\ UNCHANGED <<kind, claimed, sessions>>
  BY DEF L!IInv, L!TypeOK, L!Claim, L!Exchange, L!ConsumeRecord
<1>2. /\ launchReq'[r] # L!Idle /\ launchReq'[r].grant = g
      /\ \A q \in Requests : q # r => launchReq'[q] = launchReq[q]
  <2>1. CASE L!Claim(r, g, c)
    <3>1. launchReq' = [launchReq EXCEPT ![r] = [op |-> "claim", grant |-> g, client |-> c]]
      BY <2>1 DEF L!Claim
    <3> QED
      BY <1>1, <3>1 DEF L!Idle
  <2>2. CASE L!Exchange(r, g, c)
    <3> DEFINE fits == kind[g] = "sso" \/ record[g].challenge = c
               new == [op |-> "exchange", grant |-> g, client |-> c, proven |-> fits]
    <3>1. launchReq' = [launchReq EXCEPT ![r] = new] /\ new.op = "exchange" /\ new.grant = g
      BY <2>2 DEF L!Exchange
    <3> HIDE DEF new
    <3> QED
      BY <1>1, <3>1 DEF L!Idle
  <2> QED
    BY <2>1, <2>2
<1>3. \A h \in Grants : h # g => record'[h] = record[h]
  BY <1>1
<1>4. g \in L!Live /\ g \in L!Live'
  BY <1>1, <1>2 DEF L!Live
<1>5. ASSUME NEW h \in Grants, h # g PROVE h \in L!Live' <=> h \in L!Live
  BY <1>1, <1>2, <1>3, <1>5 DEF L!Live
<1>6. L!Live' = L!Live
  <2>1. L!Live \subseteq Grants /\ L!Live' \subseteq Grants
    BY DEF L!Live
  <2> QED
    BY <1>4, <1>5, <2>1
<1> QED
  BY <1>1, <1>6 DEF L!Secret!vars

\* The request that has the record binds the grant, opens the session or gives it up.
LEMMA EndSeen ==
    ASSUME L!IInv, NEW r \in Requests, L!Claimed(r) \/ L!Issue(r) \/ L!Abort(r)
    PROVE  [L!Secret!Next]_(L!Secret!vars)
<1>1. /\ L!TypeOK /\ DOMAIN launchReq = Requests /\ L!RequestOK(launchReq[r])
      /\ launchReq[r] # L!Idle /\ launchReq' = [launchReq EXCEPT ![r] = L!Idle]
      /\ UNCHANGED kind
  BY DEF L!IInv, L!Claimed, L!Issue, L!Abort, L!Idle
<1>2. PICK g \in Grants, c \in Clients : g = launchReq[r].grant /\ c = launchReq[r].client
  BY <1>1 DEF L!RequestOK
<1>3. record[g].at = "absent" /\ g \in L!Live
  BY <1>1, <1>2 DEF L!RequestOK, L!Live
<1>4. \A q \in Requests : launchReq'[q] # L!Idle => q # r /\ launchReq'[q] = launchReq[q]
  BY <1>1
<1>5. \A q \in Requests : launchReq'[q] # L!Idle => launchReq'[q].grant # g
  BY <1>1, <1>2, <1>4 DEF L!IInv
<1>6. ASSUME \A h \in Grants : h # g => record'[h] = record[h]
      PROVE  L!Live' = IF record'[g].at = "absent" THEN L!Live \ {g} ELSE L!Live
  <2>1. ASSUME NEW h \in Grants, h # g PROVE h \in L!Live' <=> h \in L!Live
    <3>1. (\E q \in Requests : launchReq'[q] # L!Idle /\ launchReq'[q].grant = h)
             <=> \E q \in Requests : launchReq[q] # L!Idle /\ launchReq[q].grant = h
      BY <1>1, <1>2, <1>4, <2>1
    <3> QED
      BY <1>6, <2>1, <3>1 DEF L!Live, L!Idle
  <2>2. g \in L!Live' <=> record'[g].at # "absent"
    BY <1>5 DEF L!Live, L!Idle
  <2>3. L!Live \subseteq Grants /\ L!Live' \subseteq Grants
    BY DEF L!Live
  <2> QED
    BY <1>3, <2>1, <2>2, <2>3
<1>7. CASE L!Claimed(r)
  <2>1. /\ record' = [record EXCEPT ![g] = [at |-> "code", challenge |-> c]]
        /\ claimed' = [claimed EXCEPT ![g] = claimed[g] \cup {c}] /\ sessions' = sessions
        /\ launchReq[r].op = "claim" /\ claimed[g] = {}
    BY <1>1, <1>2, <1>7 DEF L!Claimed, L!RequestOK, L!Idle
  <2>2. record'[g].at = "code" /\ \A h \in Grants : h # g => record'[h] = record[h]
    BY <1>1, <2>1 DEF L!TypeOK
  <2>3. L!Live' = L!Live
    BY <1>6, <2>2
  <2>4. kind[g] = "launch"
    BY <1>1, <1>2, <2>1 DEF L!RequestOK
  <2>5. L!Secret!Bind(g, c)
    BY <1>1, <1>3, <2>1, <2>3, <2>4 DEF L!Secret!Bind
  <2> QED
    BY <2>5 DEF L!Secret!Next
<1>8. CASE L!Issue(r)
  <2>1. /\ sessions' = [sessions EXCEPT ![g][c] = sessions[g][c] + 1]
        /\ UNCHANGED <<record, claimed>>
        /\ kind[g] = "sso" \/ claimed[g] = {c}
    BY <1>1, <1>2, <1>8 DEF L!Issue, L!RequestOK, L!Idle
  <2>2. L!Live' = L!Live \ {g}
    BY <1>3, <1>6, <2>1
  <2>3. L!Secret!Open(g, c)
    BY <1>1, <1>3, <2>1, <2>2 DEF L!Secret!Open
  <2> QED
    BY <2>3 DEF L!Secret!Next
<1>9. CASE L!Abort(r)
  <2>1. UNCHANGED <<record, claimed, sessions>>
    BY <1>9 DEF L!Abort
  <2>2. L!Live' = L!Live \ {g}
    BY <1>3, <1>6, <2>1
  <2>3. L!Secret!GiveUp(g)
    BY <1>1, <1>3, <2>1, <2>2 DEF L!Secret!GiveUp
  <2> QED
    BY <2>3 DEF L!Secret!Next
<1> QED
  BY <1>7, <1>8, <1>9

LEMMA SecretSteps == L!IInv /\ [L!Next]_L!vars => [L!Secret!Next]_(L!Secret!vars)
<1> SUFFICES ASSUME L!IInv, [L!Next]_L!vars PROVE [L!Secret!Next]_(L!Secret!vars)
  OBVIOUS
<1>1. UNCHANGED L!vars \/ L!AllowedChanges => UNCHANGED L!Secret!vars
  BY DEF L!vars, L!AllowedChanges, L!Secret!vars, L!Live
<1> QED
  BY <1>1, HandedOut, TakenUnseen, EndSeen DEF L!Next

\* Whatever programs present a ticket, a code or a token at the same time, and wherever a
\* request is cut off, they see a secret that is bound once and opens once.
THEOREM ImplementsSecret == ASSUME L!LaunchAssumption PROVE L!Spec => L!OneTimeSecretSpec
<1> QED
  BY SecretInitial, SecretSteps, LaunchInvariant, PTL
     DEF L!Spec, L!OneTimeSecretSpec, L!Secret!Spec

-----------------------------------------------------------------------------
(* Coupons: a code is redeemed no more often than its limit.                *)

\* What requests hold, in the words of their fields.
LEMMA CouponRequests ==
    ASSUME C!IInv, NEW r \in Requests
    PROVE  /\ DOMAIN couponReq = Requests /\ couponReq[r] \in C!RequestState
           /\ couponReq[r].op \in {"redeem", "grant"} =>
                 /\ couponReq[r] \in [op : {"redeem", "grant"}, user : Users, coupon : Codes,
                                      used : Nat]
                 /\ couponReq[r].user \in Users /\ couponReq[r].coupon \in Codes
                 /\ couponReq[r].used \in Nat
           /\ couponReq[r].op = "pay" =>
                 couponReq[r].invoice \in Invoices /\ couponReq[r].used \in Nat
BY DEF C!IInv, C!TypeOK, C!RequestState, C!Idle

\* A redemption counts one more.
LEMMA OneMore ==
    ASSUME C!CouponsAssumption, NEW X \in SUBSET Users, NEW u \in Users, u \notin X
    PROVE  C!Cardinality(X) \in Nat /\ C!Cardinality(X \cup {u}) = C!Cardinality(X) + 1
<1>1. IsFiniteSet(Users)
  BY SameFiniteSets DEF C!CouponsAssumption
<1>2. IsFiniteSet(X)
  BY <1>1, FS_Subset
<1> QED
  BY <1>2, FS_AddElement, FS_CardinalityType, SameFiniteSets

LEMMA CouponsInit == ASSUME C!CouponsAssumption PROVE C!Init => C!IInv
<1> SUFFICES ASSUME C!Init PROVE C!IInv
  OBVIOUS
<1>1. coupon \in [C!Coupon -> [active : {TRUE}, max : 1..MaxUses \cup {None}, used : {0}]]
      /\ \A c \in C!Coupon : coupon[c].max \in C!Limits(c)
  BY DEF C!Init
<1>2. coupon \in [C!Coupon -> [active : BOOLEAN, max : 1..MaxUses \cup {None}, used : Nat]]
      /\ \A c \in C!Coupon : coupon[c].used = 0
  <2>1. \A c \in C!Coupon : coupon[c] \in [active : BOOLEAN, max : 1..MaxUses \cup {None},
                                           used : Nat] /\ coupon[c].used = 0
    <3> SUFFICES ASSUME NEW c \in C!Coupon
                 PROVE  /\ coupon[c] \in [active : BOOLEAN, max : 1..MaxUses \cup {None},
                                          used : Nat]
                        /\ coupon[c].used = 0
      OBVIOUS
    <3>1. coupon[c] \in [active : {TRUE}, max : 1..MaxUses \cup {None}, used : {0}]
      BY <1>1
    <3>2. coupon[c].used = 0 /\ coupon[c].max \in 1..MaxUses \cup {None}
      BY <3>1
    <3>3. coupon[c].active \in BOOLEAN
      BY <3>1, Zenon
    <3>4. coupon[c] = [active |-> coupon[c].active, max |-> coupon[c].max, used |-> coupon[c].used]
      BY <3>1, Zenon
    <3> QED
      BY <3>2, <3>3, <3>4
  <2> QED
    BY <1>1, <2>1
<1>3. \A c \in Codes : c \in C!Coupon /\ coupon[c].max # None
  BY <1>1 DEF C!CouponsAssumption, C!Limits, C!Coupon
<1>4. C!TypeOK
  BY <1>2, <1>3 DEF C!Init, C!TypeOK, C!RequestState
<1>5. C!Cardinality({}) = 0
  BY FS_EmptySet, SameFiniteSets
<1>6. \A c \in Codes : coupon[c].used = C!Cardinality(redeemed[c])
  BY <1>2, <1>3, <1>5 DEF C!Init
<1>7. \A r \in Requests : couponReq[r].op = "idle"
  BY DEF C!Init, C!Idle
<1> QED
  BY <1>4, <1>6, <1>7 DEF C!IInv

\* A request locks a code's row and finds it usable.
LEMMA RedeemOK ==
    ASSUME C!CouponsAssumption, C!IInv, NEW r \in Requests, NEW u \in Users, NEW c \in Codes,
           C!Redeem(r, u, c)
    PROVE  C!IInv'
<1> DEFINE s == [op |-> "redeem", user |-> u, coupon |-> c, used |-> coupon[c].used]
<1>1. /\ C!TypeOK /\ c \in C!Coupon /\ coupon[c].used \in Nat /\ coupon[c].max # None
      /\ DOMAIN couponReq = Requests /\ couponReq[r].op = "idle"
  BY DEF C!IInv, C!TypeOK, C!Coupon, C!Redeem, C!Idle
<1>2. /\ s \in C!RequestState /\ s.op = "redeem" /\ s.user = u /\ s.coupon = c
      /\ s.used = coupon[c].used
  BY <1>1 DEF C!RequestState
<1> HIDE DEF s
<1>3. /\ couponReq' = [couponReq EXCEPT ![r] = s] /\ holder[c] = None
      /\ holder' = [holder EXCEPT ![c] = r]
      /\ coupon[c].used < coupon[c].max /\ u \notin redeemed[c]
      /\ UNCHANGED <<coupon, redeemed, free, invoice>>
  BY <1>1 DEF C!Redeem, C!Usable, s
<1>4. /\ couponReq' \in [Requests -> C!RequestState]
      /\ \A q \in Requests : couponReq'[q] = IF q = r THEN s ELSE couponReq[q]
  BY <1>1, <1>2, <1>3 DEF C!TypeOK
<1>5. /\ holder' \in [C!Coupon -> Requests \cup {None}] /\ holder'[c] = r
      /\ \A d \in C!Coupon : d # c => holder'[d] = holder[d]
  BY <1>1, <1>3 DEF C!TypeOK
<1>6. C!TypeOK'
  BY <1>1, <1>3, <1>4, <1>5 DEF C!TypeOK
<1>7. ASSUME NEW q \in Requests, couponReq'[q].op \in {"redeem", "grant"}
      PROVE  /\ holder'[couponReq'[q].coupon] = q
             /\ couponReq'[q].used = coupon'[couponReq'[q].coupon].used
             /\ coupon'[couponReq'[q].coupon].used < coupon'[couponReq'[q].coupon].max
             /\ couponReq'[q].user \notin redeemed'[couponReq'[q].coupon]
  <2>1. CASE q = r
    BY <1>2, <1>3, <1>4, <1>5, <2>1
  <2>2. CASE q # r
    <3>1. /\ couponReq'[q] = couponReq[q] /\ couponReq[q].coupon \in C!Coupon
          /\ holder[couponReq[q].coupon] = q
      BY <1>4, <1>7, <2>2, CouponRequests DEF C!IInv, C!Coupon
    <3>2. couponReq[q].coupon # c
      BY <1>3, <3>1 DEF C!CouponsAssumption
    <3> QED
      BY <1>3, <1>5, <1>7, <3>1, <3>2 DEF C!IInv
  <2> QED
    BY <2>1, <2>2
<1>8. \A q \in Requests : couponReq'[q].op = "pay" =>
         invoice'[couponReq'[q].invoice].status # "none"
  BY <1>2, <1>3, <1>4 DEF C!IInv
<1>9. \A d \in Codes : coupon'[d].used = C!Cardinality(redeemed'[d])
  BY <1>3 DEF C!IInv
<1> QED
  BY <1>6, <1>7, <1>8, <1>9 DEF C!IInv

\* A request that ends releases what it held, and the others go on with what they have.
LEMMA CouponEnd ==
    ASSUME C!IInv, NEW r \in Requests, C!End(r)
    PROVE  /\ couponReq' \in [Requests -> C!RequestState]
           /\ holder' \in [C!Coupon -> Requests \cup {None}]
           /\ \A q \in Requests : couponReq'[q].op \in {"redeem", "grant", "pay"} =>
                 q # r /\ couponReq'[q] = couponReq[q]
           /\ \A q \in Requests : couponReq'[q].op \in {"redeem", "grant"} =>
                 holder[couponReq[q].coupon] = q /\ holder'[couponReq[q].coupon] = q
<1>1. /\ couponReq \in [Requests -> C!RequestState]
      /\ holder \in [C!Coupon -> Requests \cup {None}]
      /\ C!Idle \in C!RequestState /\ C!Idle.op = "idle"
  BY DEF C!IInv, C!TypeOK, C!RequestState, C!Idle
<1>2. /\ couponReq' \in [Requests -> C!RequestState]
      /\ \A q \in Requests : couponReq'[q] = IF q = r THEN C!Idle ELSE couponReq[q]
  BY <1>1 DEF C!End
<1>3. /\ holder' \in [C!Coupon -> Requests \cup {None}]
      /\ \A d \in C!Coupon : holder'[d] = IF holder[d] = r THEN None ELSE holder[d]
  BY <1>1 DEF C!End
<1>4. ASSUME NEW q \in Requests, couponReq'[q].op \in {"redeem", "grant"}
      PROVE  holder[couponReq[q].coupon] = q /\ holder'[couponReq[q].coupon] = q
  <2>1. q # r /\ couponReq[q].op \in {"redeem", "grant"}
    BY <1>1, <1>2, <1>4
  <2>2. couponReq[q].coupon \in C!Coupon
    BY <2>1, CouponRequests DEF C!Coupon
  <2> QED
    BY <1>3, <2>1, <2>2 DEF C!IInv
<1> QED
  BY <1>1, <1>2, <1>3, <1>4

\* Requests that step without touching a coupon, a redemption or a lock.
LEMMA CouponMoves ==
    ASSUME C!CouponsAssumption, C!IInv, NEW r \in Requests,
           C!CheckFree(r) \/ C!Abort(r) \/ \E i \in Invoices : C!PayLoad(r, i)
    PROVE  C!IInv'
<1>0. C!TypeOK
  BY DEF C!IInv
<1>1. CASE C!CheckFree(r)
  <2> DEFINE s == [couponReq[r] EXCEPT !.op = "grant"]
  <2>1. /\ couponReq[r].op = "redeem" /\ couponReq' = [couponReq EXCEPT ![r] = s]
        /\ UNCHANGED <<coupon, redeemed, holder, free, invoice>>
    BY <1>1 DEF C!CheckFree
  <2>2. /\ s \in C!RequestState /\ s.op = "grant" /\ s.user = couponReq[r].user
        /\ s.coupon = couponReq[r].coupon /\ s.used = couponReq[r].used
    BY <2>1, CouponRequests DEF C!RequestState
  <2> HIDE DEF s
  <2>3. /\ couponReq' \in [Requests -> C!RequestState]
        /\ \A q \in Requests : couponReq'[q] = IF q = r THEN s ELSE couponReq[q]
    BY <1>0, <2>1, <2>2 DEF C!TypeOK
  <2>4. C!TypeOK'
    BY <1>0, <2>1, <2>3 DEF C!TypeOK
  <2> QED
    BY <2>1, <2>2, <2>3, <2>4 DEF C!IInv
<1>2. CASE C!Abort(r)
  <2>1. C!End(r) /\ UNCHANGED <<coupon, redeemed, free, invoice>>
    BY <1>2 DEF C!Abort
  <2>2. C!TypeOK'
    BY <1>0, <2>1, CouponEnd DEF C!TypeOK
  <2> QED
    BY <2>1, <2>2, CouponEnd DEF C!IInv
<1>3. ASSUME NEW i \in Invoices, C!PayLoad(r, i) PROVE C!IInv'
  <2> DEFINE first == invoice[i].user \notin redeemed[invoice[i].coupon]
             s == [op |-> "pay", invoice |-> i, used |-> coupon[invoice[i].coupon].used,
                   first |-> first]
  <2>1. /\ invoice[i].status = "pending" /\ couponReq' = [couponReq EXCEPT ![r] = s]
        /\ UNCHANGED <<coupon, redeemed, holder, free, invoice>>
    BY <1>3 DEF C!PayLoad
  <2>2. invoice[i].coupon \in C!Coupon
    BY <1>0, <2>1 DEF C!TypeOK, C!NoInvoice, C!Coupon
  <2>3. coupon[invoice[i].coupon].used \in Nat /\ first \in BOOLEAN
    BY <1>0, <2>2 DEF C!TypeOK
  <2> HIDE DEF first
  <2>4. s \in C!RequestState /\ s.op = "pay" /\ s.invoice = i
    BY <2>3 DEF C!RequestState
  <2> HIDE DEF s
  <2>5. /\ couponReq' \in [Requests -> C!RequestState]
        /\ \A q \in Requests : couponReq'[q] = IF q = r THEN s ELSE couponReq[q]
    BY <1>0, <2>1, <2>4 DEF C!TypeOK
  <2>6. C!TypeOK'
    BY <1>0, <2>1, <2>5 DEF C!TypeOK
  <2> QED
    BY <2>1, <2>4, <2>5, <2>6 DEF C!IInv
<1> QED
  BY <1>1, <1>2, <1>3

\* A code is granted: the request alone holds the row, and counts on from what it loaded.
LEMMA GrantOK ==
    ASSUME C!CouponsAssumption, C!IInv, NEW r \in Requests, C!Grant(r)
    PROVE  /\ C!IInv'
           /\ \A c \in Codes : redeemed'[c] # redeemed[c]
                 => C!Cardinality(redeemed'[c]) <= coupon[c].max
<1> DEFINE c == couponReq[r].coupon
           u == couponReq[r].user
<1>0. C!TypeOK
  BY DEF C!IInv
<1>1. /\ couponReq[r].op = "grant" /\ u \notin redeemed[c] /\ C!End(r)
      /\ c \in Codes /\ c \in C!Coupon /\ u \in Users
      /\ holder[c] = r /\ couponReq[r].used = coupon[c].used /\ coupon[c].used < coupon[c].max
      /\ free' \subseteq Users /\ invoice' = invoice
  BY <1>0, CouponRequests DEF C!Grant, C!IInv, C!TypeOK, C!Coupon
<1>2. /\ redeemed' = [redeemed EXCEPT ![c] = redeemed[c] \cup {u}]
      /\ coupon' = [coupon EXCEPT ![c].used = coupon[c].used + 1]
  BY <1>1 DEF C!Grant, C!Record
<1> HIDE DEF c, u
<1>3. /\ coupon' \in [C!Coupon -> [active : BOOLEAN, max : 1..MaxUses \cup {None}, used : Nat]]
      /\ coupon'[c].used = coupon[c].used + 1 /\ coupon'[c].max = coupon[c].max
      /\ \A d \in C!Coupon : d # c => coupon'[d] = coupon[d]
  BY <1>0, <1>1, <1>2 DEF C!TypeOK
<1>4. /\ redeemed' \in [C!Coupon -> SUBSET Users] /\ redeemed'[c] = redeemed[c] \cup {u}
      /\ \A d \in C!Coupon : d # c => redeemed'[d] = redeemed[d]
  BY <1>0, <1>1, <1>2 DEF C!TypeOK
<1>5. /\ C!Cardinality(redeemed[c]) \in Nat
      /\ C!Cardinality(redeemed'[c]) = C!Cardinality(redeemed[c]) + 1
  BY <1>0, <1>1, <1>4, OneMore DEF C!TypeOK
<1>6. C!TypeOK'
  <2>1. \A d \in Codes : d \in C!Coupon /\ coupon'[d].max = coupon[d].max
    BY <1>3 DEF C!Coupon
  <2> QED
    BY <1>0, <1>1, <1>3, <1>4, <2>1, CouponEnd DEF C!TypeOK
<1>7. \A d \in Codes : coupon'[d].used = C!Cardinality(redeemed'[d])
  BY <1>1, <1>3, <1>4, <1>5 DEF C!IInv, C!Coupon
<1>8. ASSUME NEW q \in Requests, couponReq'[q].op \in {"redeem", "grant"}
      PROVE  LET d == couponReq'[q].coupon IN
             /\ holder'[d] = q
             /\ couponReq'[q].used = coupon'[d].used
             /\ coupon'[d].used < coupon'[d].max
             /\ couponReq'[q].user \notin redeemed'[d]
  <2>1. /\ q # r /\ couponReq'[q] = couponReq[q]
        /\ holder[couponReq[q].coupon] = q /\ holder'[couponReq[q].coupon] = q
    BY <1>1, <1>8, CouponEnd
  <2>2. couponReq[q].coupon \in C!Coupon /\ couponReq[q].coupon # c
    BY <1>1, <1>8, <2>1, CouponRequests DEF C!Coupon
  <2> QED
    BY <1>3, <1>4, <1>8, <2>1, <2>2 DEF C!IInv
<1>9. \A q \in Requests : couponReq'[q].op = "pay" =>
         invoice'[couponReq'[q].invoice].status # "none"
  BY <1>1, CouponEnd DEF C!IInv
<1>10. C!IInv'
  BY <1>6, <1>7, <1>8, <1>9 DEF C!IInv
<1>11. /\ coupon[c].max \in Nat /\ coupon[c].used \in Nat
       /\ coupon[c].used = C!Cardinality(redeemed[c])
  <2>1. coupon[c] \in [active : BOOLEAN, max : 1..MaxUses \cup {None}, used : Nat]
    BY <1>0, <1>1 DEF C!TypeOK
  <2>2. coupon[c].max # None /\ MaxUses \in Nat
    BY <1>0, <1>1 DEF C!TypeOK, C!CouponsAssumption
  <2>3. coupon[c].used = C!Cardinality(redeemed[c])
    BY <1>1 DEF C!IInv
  <2> QED
    BY <2>1, <2>2, <2>3
<1>12. C!Cardinality(redeemed'[c]) <= coupon[c].max
  BY <1>1, <1>5, <1>11
<1>13. ASSUME NEW d \in Codes, redeemed'[d] # redeemed[d]
      PROVE  C!Cardinality(redeemed'[d]) <= coupon[d].max
  <2>1. d = c
    BY <1>4, <1>13 DEF C!Coupon
  <2> QED
    BY <1>12, <2>1
<1> QED
  BY <1>10, <1>13

\* An invoice is paid: its coupon is a discount, whose count nothing is said about here.
LEMMA PayOK ==
    ASSUME C!CouponsAssumption, C!IInv, NEW r \in Requests, C!Pay(r)
    PROVE  C!IInv' /\ \A c \in Codes : redeemed'[c] = redeemed[c]
<1> DEFINE i == couponReq[r].invoice
           c == invoice[i].coupon
           u == invoice[i].user
<1>0. C!TypeOK
  BY DEF C!IInv
<1>1. /\ couponReq[r].op = "pay" /\ i \in Invoices /\ couponReq[r].used \in Nat
      /\ C!End(r)
  BY CouponRequests DEF C!Pay
<1>2. /\ invoice[i] \in [status : {"pending", "paid"}, user : Users, coupon : Discounts]
      /\ c \in C!Coupon /\ c \notin Codes /\ u \in Users
  BY <1>0, <1>1 DEF C!IInv, C!TypeOK, C!NoInvoice, C!CouponsAssumption, C!Coupon
<1>3. /\ \/ /\ redeemed' = [redeemed EXCEPT ![c] = redeemed[c] \cup {u}]
            /\ coupon' = [coupon EXCEPT ![c].used = couponReq[r].used + 1]
         \/ UNCHANGED <<coupon, redeemed>>
      /\ invoice' = [invoice EXCEPT ![i].status = "paid"]
      /\ free' \subseteq free
  BY DEF C!Pay, C!Record
<1> HIDE DEF i, c, u
<1>4. /\ coupon' \in [C!Coupon -> [active : BOOLEAN, max : 1..MaxUses \cup {None}, used : Nat]]
      /\ redeemed' \in [C!Coupon -> SUBSET Users]
      /\ \A d \in C!Coupon : d # c => coupon'[d] = coupon[d] /\ redeemed'[d] = redeemed[d]
  <2>0. /\ coupon \in [C!Coupon -> [active : BOOLEAN, max : 1..MaxUses \cup {None}, used : Nat]]
        /\ redeemed \in [C!Coupon -> SUBSET Users]
    BY <1>0 DEF C!TypeOK
  <2>1. CASE UNCHANGED <<coupon, redeemed>>
    BY <2>0, <2>1
  <2>2. CASE /\ redeemed' = [redeemed EXCEPT ![c] = redeemed[c] \cup {u}]
             /\ coupon' = [coupon EXCEPT ![c].used = couponReq[r].used + 1]
    <3>1. /\ redeemed' \in [C!Coupon -> SUBSET Users]
          /\ \A d \in C!Coupon : d # c => redeemed'[d] = redeemed[d]
      BY <1>2, <2>0, <2>2
    <3>2. /\ couponReq[r].used + 1 \in Nat
          /\ coupon[c] \in [active : BOOLEAN, max : 1..MaxUses \cup {None}, used : Nat]
      BY <1>1, <1>2, <2>0
    <3>3. /\ coupon' \in [C!Coupon -> [active : BOOLEAN, max : 1..MaxUses \cup {None}, used : Nat]]
          /\ \A d \in C!Coupon : d # c => coupon'[d] = coupon[d]
      BY <1>2, <2>0, <2>2, <3>2
    <3> QED
      BY <3>1, <3>3
  <2> QED
    BY <1>3, <2>1, <2>2
<1>5. \A d \in Codes : d \in C!Coupon /\ coupon'[d] = coupon[d] /\ redeemed'[d] = redeemed[d]
  BY <1>2, <1>4 DEF C!Coupon
<1>6. /\ invoice' \in [Invoices -> {C!NoInvoice} \cup
                          [status : {"pending", "paid"}, user : Users, coupon : Discounts]]
      /\ \A j \in Invoices : invoice[j].status # "none" => invoice'[j].status # "none"
  BY <1>0, <1>1, <1>2, <1>3 DEF C!TypeOK
<1>7. C!TypeOK'
  BY <1>0, <1>1, <1>3, <1>4, <1>5, <1>6, CouponEnd DEF C!TypeOK
<1>8. ASSUME NEW q \in Requests, couponReq'[q].op \in {"redeem", "grant"}
      PROVE  LET d == couponReq'[q].coupon IN
             /\ holder'[d] = q
             /\ couponReq'[q].used = coupon'[d].used
             /\ coupon'[d].used < coupon'[d].max
             /\ couponReq'[q].user \notin redeemed'[d]
  <2>1. /\ couponReq'[q] = couponReq[q] /\ holder'[couponReq[q].coupon] = q
        /\ couponReq[q].coupon \in Codes
    BY <1>1, <1>8, CouponEnd, CouponRequests
  <2> QED
    BY <1>5, <1>8, <2>1 DEF C!IInv
<1>9. ASSUME NEW q \in Requests, couponReq'[q].op = "pay"
      PROVE  invoice'[couponReq'[q].invoice].status # "none"
  BY <1>1, <1>6, <1>9, CouponEnd, CouponRequests DEF C!IInv
<1> QED
  BY <1>5, <1>7, <1>8, <1>9 DEF C!IInv

\* What no request does: plans change, a discount is checked out, an administrator edits a row
\* that nobody holds.
LEMMA CouponsAround ==
    ASSUME C!CouponsAssumption, C!IInv,
           \/ \E u \in Users : C!PlanChanges(u)
           \/ \E i \in Invoices, u \in Users, c \in Discounts : C!Checkout(i, u, c)
           \/ \E c \in C!Coupon, max \in 1..MaxUses \cup {None}, active \in BOOLEAN :
                 C!UpdateCoupon(c, max, active)
    PROVE  C!IInv' /\ redeemed' = redeemed
<1>0. C!TypeOK
  BY DEF C!IInv
<1>1. ASSUME NEW u \in Users, C!PlanChanges(u) PROVE C!IInv' /\ redeemed' = redeemed
  <2>1. free' \subseteq Users /\ UNCHANGED <<coupon, redeemed, holder, invoice, couponReq>>
    BY <1>0, <1>1 DEF C!PlanChanges, C!TypeOK
  <2> QED
    BY <2>1 DEF C!IInv, C!TypeOK
<1>2. ASSUME NEW i \in Invoices, NEW u \in Users, NEW c \in Discounts, C!Checkout(i, u, c)
      PROVE  C!IInv' /\ redeemed' = redeemed
  <2> DEFINE s == [status |-> "pending", user |-> u, coupon |-> c]
  <2>1. /\ invoice' = [invoice EXCEPT ![i] = s]
        /\ UNCHANGED <<coupon, redeemed, holder, free, couponReq>>
    BY <1>2 DEF C!Checkout
  <2>2. /\ s \in [status : {"pending", "paid"}, user : Users, coupon : Discounts]
        /\ s.status # "none"
    OBVIOUS
  <2> HIDE DEF s
  <2>3. /\ invoice' \in [Invoices -> {C!NoInvoice} \cup
                            [status : {"pending", "paid"}, user : Users, coupon : Discounts]]
        /\ \A j \in Invoices : invoice[j].status # "none" => invoice'[j].status # "none"
    BY <1>0, <2>1, <2>2 DEF C!TypeOK
  <2>4. C!TypeOK'
    BY <1>0, <2>1, <2>3 DEF C!TypeOK
  <2>5. \A q \in Requests : couponReq'[q].op = "pay" =>
           invoice'[couponReq'[q].invoice].status # "none"
    BY <2>1, <2>3, CouponRequests DEF C!IInv
  <2> QED
    BY <2>1, <2>4, <2>5 DEF C!IInv
<1>3. ASSUME NEW c \in C!Coupon, NEW max \in 1..MaxUses \cup {None}, NEW active \in BOOLEAN,
             C!UpdateCoupon(c, max, active)
      PROVE  C!IInv' /\ redeemed' = redeemed
  <2>1. /\ holder[c] = None /\ (c \in Codes => max # None)
        /\ coupon' = [coupon EXCEPT ![c].max = max, ![c].active = active]
        /\ UNCHANGED <<redeemed, holder, free, invoice, couponReq>>
    BY <1>3 DEF C!UpdateCoupon, C!Limits, C!CouponsAssumption
  <2>2. coupon[c] \in [active : BOOLEAN, max : 1..MaxUses \cup {None}, used : Nat]
    BY <1>0 DEF C!TypeOK
  <2>3. /\ coupon \in [C!Coupon -> [active : BOOLEAN, max : 1..MaxUses \cup {None}, used : Nat]]
        /\ \A d \in C!Coupon : d # c => coupon'[d] = coupon[d]
    BY <1>0, <2>1 DEF C!TypeOK
  <2>4. /\ coupon' \in [C!Coupon -> [active : BOOLEAN, max : 1..MaxUses \cup {None}, used : Nat]]
        /\ coupon'[c].used = coupon[c].used /\ coupon'[c].max = max
        /\ \A d \in C!Coupon : d # c => coupon'[d] = coupon[d]
    <3> DEFINE t == [coupon[c] EXCEPT !.max = max, !.active = active]
    <3>1. coupon' = [coupon EXCEPT ![c] = t]
      BY <2>1
    <3>2. t \in [active : BOOLEAN, max : 1..MaxUses \cup {None}, used : Nat]
      BY <2>2
    <3>3. t.used = coupon[c].used /\ t.max = max
      BY <2>2
    <3> HIDE DEF t
    <3> QED
      BY <2>3, <3>1, <3>2, <3>3
  <2>5. C!TypeOK'
    BY <1>0, <2>1, <2>4 DEF C!TypeOK, C!Coupon
  <2>6. \A d \in Codes : coupon'[d].used = C!Cardinality(redeemed'[d])
    BY <2>1, <2>4 DEF C!IInv, C!Coupon
  <2>7. ASSUME NEW q \in Requests, couponReq[q].op \in {"redeem", "grant"}
        PROVE  coupon'[couponReq[q].coupon] = coupon[couponReq[q].coupon]
    <3>1. holder[couponReq[q].coupon] = q /\ couponReq[q].coupon \in C!Coupon
      BY <2>7, CouponRequests DEF C!IInv, C!Coupon
    <3>2. couponReq[q].coupon # c
      BY <2>1, <3>1 DEF C!CouponsAssumption
    <3> QED
      BY <2>4, <3>1, <3>2
  <2>8. ASSUME NEW q \in Requests, couponReq'[q].op \in {"redeem", "grant"}
        PROVE  /\ holder'[couponReq'[q].coupon] = q
               /\ couponReq'[q].used = coupon'[couponReq'[q].coupon].used
               /\ coupon'[couponReq'[q].coupon].used < coupon'[couponReq'[q].coupon].max
               /\ couponReq'[q].user \notin redeemed'[couponReq'[q].coupon]
    <3>1. couponReq[q].op \in {"redeem", "grant"}
      BY <2>1, <2>8
    <3>2. /\ holder[couponReq[q].coupon] = q
          /\ couponReq[q].used = coupon[couponReq[q].coupon].used
          /\ coupon[couponReq[q].coupon].used < coupon[couponReq[q].coupon].max
          /\ couponReq[q].user \notin redeemed[couponReq[q].coupon]
      BY <3>1 DEF C!IInv
    <3>3. coupon'[couponReq[q].coupon] = coupon[couponReq[q].coupon]
      BY <2>7, <3>1
    <3>4. couponReq'[q] = couponReq[q] /\ holder' = holder /\ redeemed' = redeemed
      BY <2>1
    <3> QED
      BY <3>2, <3>3, <3>4
  <2>9. \A q \in Requests : couponReq'[q].op = "pay" =>
           invoice'[couponReq'[q].invoice].status # "none"
    BY <2>1 DEF C!IInv
  <2>10. C!IInv'
    BY <2>5, <2>6, <2>8, <2>9 DEF C!IInv
  <2> QED
    BY <2>1, <2>10
<1> QED
  BY <1>1, <1>2, <1>3

LEMMA CouponsNext ==
    ASSUME C!CouponsAssumption, C!IInv, [C!Next]_C!vars
    PROVE  /\ C!IInv'
           /\ \A c \in Codes : redeemed'[c] # redeemed[c]
                 => C!Cardinality(redeemed'[c]) <= coupon[c].max
<1> DEFINE Bounded == \A c \in Codes : redeemed'[c] # redeemed[c]
                         => C!Cardinality(redeemed'[c]) <= coupon[c].max
<1>1. CASE UNCHANGED C!vars
  BY <1>1 DEF C!vars, C!IInv, C!TypeOK
<1>2. ASSUME NEW r \in Requests, NEW u \in Users, NEW c \in Codes, C!Redeem(r, u, c)
      PROVE  C!IInv' /\ redeemed' = redeemed
  BY <1>2, RedeemOK DEF C!Redeem
<1>3. ASSUME NEW r \in Requests, C!CheckFree(r) \/ C!Abort(r) \/ \E i \in Invoices : C!PayLoad(r, i)
      PROVE  C!IInv' /\ redeemed' = redeemed
  BY <1>3, CouponMoves DEF C!CheckFree, C!Abort, C!PayLoad
<1>4. ASSUME NEW r \in Requests, C!Grant(r) PROVE C!IInv' /\ Bounded
  BY <1>4, GrantOK
<1>5. ASSUME NEW r \in Requests, C!Pay(r) PROVE C!IInv' /\ Bounded
  BY <1>5, PayOK
<1>6. CASE \/ \E u \in Users : C!PlanChanges(u)
           \/ \E i \in Invoices, u \in Users, c \in Discounts : C!Checkout(i, u, c)
           \/ \E c \in C!Coupon, max \in 1..MaxUses \cup {None}, active \in BOOLEAN :
                 C!UpdateCoupon(c, max, active)
  BY <1>6, CouponsAround
<1> QED
  BY <1>1, <1>2, <1>3, <1>4, <1>5, <1>6 DEF C!Next, C!vars

\* The inductive invariant of coupons: a code's used_count counts its redemptions, and who is
\* about to add one has its row to itself.
THEOREM CouponsInvariant == ASSUME C!CouponsAssumption PROVE C!Spec => []C!IInv
<1>1. C!IInv /\ [C!Next]_C!vars => C!IInv'
  BY CouponsNext
<1> QED
  BY <1>1, CouponsInit, PTL DEF C!Spec

-----------------------------------------------------------------------------
(* Access: what each guard lets through.                                    *)

\* In the admin area, what staff may change is named; outside it, only a worker's reports ask
\* for a claim token, and what is personal asks for the owner.
ForTheOffice(e) ==
    /\ e.guard \in {"anyone", "admin", "admin_write"}
    /\ e.guard = "admin" /\ e.writes => e.name \in R!ForStaff
ForCustomers(e) ==
    /\ e.guard = "claim" => e.name \in {"complete_job", "fail_job"}
    /\ e.guard \in {"user", "impersonator"} => e.name \notin R!Personal

LEMMA AdminGuards == ASSUME NEW e \in R!AdminArea PROVE ForTheOffice(e)
<1>1. CASE e \in R!AdminAnalytics \cup R!AdminAuth
  BY <1>1 DEF ForTheOffice, R!AdminAnalytics, R!AdminAuth, R!Reads, R!Writes, R!ForStaff
<1>2. CASE e \in R!AdminInvoices \cup R!AdminFinance
  BY <1>2 DEF ForTheOffice, R!AdminInvoices, R!AdminFinance, R!Reads, R!Writes, R!ForStaff
<1>3. CASE e \in R!AdminDashboard \cup R!AdminFeedback
  BY <1>3 DEF ForTheOffice, R!AdminDashboard, R!AdminFeedback, R!Reads, R!Writes, R!ForStaff
<1>4. CASE e \in R!AdminModeration \cup R!AdminProjects
  BY <1>4 DEF ForTheOffice, R!AdminModeration, R!AdminProjects, R!Reads, R!Writes, R!ForStaff
<1>5. CASE e \in R!AdminSystem \cup R!AdminPlans
  BY <1>5 DEF ForTheOffice, R!AdminSystem, R!AdminPlans, R!Reads, R!Writes, R!ForStaff
<1>6. CASE e \in R!AdminReports \cup R!AdminStudio
  BY <1>6 DEF ForTheOffice, R!AdminReports, R!AdminStudio, R!Reads, R!Writes, R!ForStaff
<1>7. CASE e \in R!AdminUsers \cup R!ApiCostPages
  BY <1>7 DEF ForTheOffice, R!AdminUsers, R!ApiCostPages, R!Reads, R!Writes, R!ForStaff
<1> QED
  BY <1>1, <1>2, <1>3, <1>4, <1>5, <1>6, <1>7 DEF R!AdminArea

LEMMA CustomerGuards ==
    ASSUME NEW e \in R!Endpoints, e \notin R!AdminArea PROVE ForCustomers(e)
<1>1. CASE e \in R!ApiCostCalls \cup R!SigningUp
  BY <1>1 DEF ForCustomers, R!ApiCostCalls, R!SigningUp, R!Reads, R!Writes, R!Personal
<1>2. CASE e \in R!GoogleSignIn \cup R!SessionsAndPasswords
  BY <1>2 DEF ForCustomers, R!GoogleSignIn, R!SessionsAndPasswords, R!Reads, R!Writes,
     R!Personal
<1>3. CASE e \in R!EditorLaunches \cup R!AccountRestore
  BY <1>3 DEF ForCustomers, R!EditorLaunches, R!AccountRestore, R!Reads, R!Writes, R!Personal
<1>4. CASE e \in R!EditorDesigns \cup R!EditorJobs
  BY <1>4 DEF ForCustomers, R!EditorDesigns, R!EditorJobs, R!Reads, R!Writes, R!Personal
<1>5. CASE e \in R!ExportPages \cup R!FeedbackPages
  BY <1>5 DEF ForCustomers, R!ExportPages, R!FeedbackPages, R!Reads, R!Writes, R!Personal
<1>6. CASE e \in R!InternalQuota \cup R!MobileScans
  BY <1>6 DEF ForCustomers, R!InternalQuota, R!MobileScans, R!Reads, R!Writes, R!Personal
<1>7. CASE e \in R!ModerationPages \cup R!ProjectAssets
  BY <1>7 DEF ForCustomers, R!ModerationPages, R!ProjectAssets, R!Reads, R!Writes, R!Personal
<1>8. CASE e \in R!ProjectPages \cup R!ProjectBakes
  BY <1>8 DEF ForCustomers, R!ProjectPages, R!ProjectBakes, R!Reads, R!Writes, R!Personal
<1>9. CASE e \in R!PublicArtisan \cup R!StudioPages
  BY <1>9 DEF ForCustomers, R!PublicArtisan, R!StudioPages, R!Reads, R!Writes, R!Personal
<1>10. CASE e \in R!PlanPages \cup R!Purchases
  BY <1>10 DEF ForCustomers, R!PlanPages, R!Purchases, R!Reads, R!Writes, R!Personal
<1>11. CASE e \in R!Profile \cup R!SecuritySettings
  BY <1>11 DEF ForCustomers, R!Profile, R!SecuritySettings, R!Reads, R!Writes, R!Personal
<1>12. CASE e \in R!Webhooks
  BY <1>12 DEF ForCustomers, R!Webhooks, R!Reads, R!Writes, R!Personal
<1> QED
  BY <1>1, <1>2, <1>3, <1>4, <1>5, <1>6, <1>7, <1>8, <1>9, <1>10, <1>11, <1>12 DEF R!Endpoints

\* A token carries the role of the account, and only customers are impersonated: then every
\* credential opens what it should, and nothing else.
LEMMA AccessOK == R!IInv => R!AccessJustified
<1> SUFFICES ASSUME R!IInv, token # R!NoToken, NEW e \in R!Endpoints, NEW p \in Projects,
                    e.guard # "anyone", R!Admitted(e, p)
             PROVE  /\ R!Active \/ e.name \in {"complete_job", "fail_job"}
                    /\ e \in R!AdminArea =>
                          /\ person.role # "user"
                          /\ e.writes => person.role = "admin" \/ e.name \in R!ForStaff
                    /\ token.kind = "editor" => p = token.project /\ p \in owned
                    /\ token.kind = "access" /\ token.imp => e.name \notin R!Personal
  BY DEF R!AccessJustified
<1>1. e \in R!AdminArea => ForTheOffice(e)
  BY AdminGuards
<1>2. e \notin R!AdminArea => ForCustomers(e)
  BY CustomerGuards
<1>3. R!Active \/ e.name \in {"complete_job", "fail_job"}
  <2>1. R!Active \/ e.guard = "claim"
    BY DEF R!Admitted, R!User, R!Authenticated, R!EditorSession
  <2> QED
    BY <1>1, <1>2, <2>1 DEF ForTheOffice, ForCustomers
<1>4. ASSUME e \in R!AdminArea
      PROVE  /\ person.role # "user"
             /\ e.writes => person.role = "admin" \/ e.name \in R!ForStaff
  <2>1. e.guard \in {"admin", "admin_write"}
    BY <1>1, <1>4 DEF ForTheOffice
  <2>2. R!Authenticated({"admin", "staff"}) /\ (e.guard = "admin_write" => person.role = "admin")
    BY <2>1 DEF R!Admitted
  <2>3. person.role \in {"admin", "staff"}
    BY <2>2 DEF R!Authenticated, R!IInv
  <2> QED
    BY <1>1, <1>4, <2>1, <2>2, <2>3 DEF ForTheOffice
<1>5. ASSUME token.kind = "editor" PROVE p = token.project /\ p \in owned
  BY <1>5 DEF R!Admitted, R!User, R!Authenticated, R!EditorSession
<1>6. ASSUME token.kind = "access", token.imp PROVE e.name \notin R!Personal
  <2>1. token.role = "user"
    BY <1>6 DEF R!IInv
  <2>2. e.guard \in {"user", "impersonator"}
    BY <1>6, <2>1 DEF R!Admitted, R!User, R!Authenticated, R!EditorSession
  <2> QED
    BY <1>1, <1>2, <2>2 DEF ForTheOffice, ForCustomers
<1> QED
  BY <1>3, <1>4, <1>5, <1>6

\* The credentials by kind.
LEMMA TokenKinds ==
    /\ R!NoToken \in R!Tokens /\ R!NoToken.kind = "none"
    /\ \A role \in R!Roles, imp \in BOOLEAN :
          /\ R!AccessToken(role, imp) \in R!Tokens
          /\ R!AccessToken(role, imp).kind = "access" /\ R!AccessToken(role, imp).role = role
          /\ R!AccessToken(role, imp).imp = imp
    /\ \A p \in Projects : /\ R!EditorToken(p) \in R!Tokens /\ R!EditorToken(p).kind = "editor"
                           /\ R!ClaimToken(p) \in R!Tokens /\ R!ClaimToken(p).kind = "claim"
<1>1. R!NoToken \in R!Tokens /\ R!NoToken.kind = "none"
  BY DEF R!Tokens, R!NoToken
<1>2. ASSUME NEW role \in R!Roles, NEW imp \in BOOLEAN
      PROVE  /\ R!AccessToken(role, imp) \in R!Tokens
             /\ R!AccessToken(role, imp).kind = "access" /\ R!AccessToken(role, imp).role = role
             /\ R!AccessToken(role, imp).imp = imp
  <2>1. R!AccessToken(role, imp) \in R!Tokens
    BY DEF R!Tokens
  <2>2. /\ R!AccessToken(role, imp).kind = "access" /\ R!AccessToken(role, imp).role = role
        /\ R!AccessToken(role, imp).imp = imp
    BY DEF R!AccessToken
  <2> QED
    BY <2>1, <2>2
<1>3. ASSUME NEW p \in Projects
      PROVE  /\ R!EditorToken(p) \in R!Tokens /\ R!EditorToken(p).kind = "editor"
             /\ R!ClaimToken(p) \in R!Tokens /\ R!ClaimToken(p).kind = "claim"
  <2>1. R!EditorToken(p) \in R!Tokens /\ R!ClaimToken(p) \in R!Tokens
    BY DEF R!Tokens
  <2>2. R!EditorToken(p).kind = "editor" /\ R!ClaimToken(p).kind = "claim"
    BY DEF R!EditorToken, R!ClaimToken
  <2> QED
    BY <2>1, <2>2
<1> QED
  BY <1>1, <1>2, <1>3

\* A credential is issued in the account's own role.
LEMMA TokensIssued ==
    ASSUME R!IInv, R!SignIn \/ R!Impersonate \/ R!Exchange \/ R!ClaimJob \/ R!TokenExpires
    PROVE  R!IInv'
<1>0. person \in R!Person /\ person.role \in R!Roles /\ owned \subseteq Projects
      /\ token \in R!Tokens /\ ticket \in Projects \cup {None}
  BY DEF R!IInv, R!TypeOK, R!Person
<1>1. person' = person /\ owned' = owned
  BY DEF R!SignIn, R!Impersonate, R!Exchange, R!ClaimJob, R!TokenExpires
<1>2. ticket' \in Projects \cup {None}
  BY <1>0 DEF R!SignIn, R!Impersonate, R!Exchange, R!ClaimJob, R!TokenExpires
<1>3. \/ token' = token \/ token' = R!NoToken
      \/ token' = R!AccessToken(person.role, FALSE)
      \/ person.role = "user" /\ token' = R!AccessToken("user", TRUE)
      \/ \E p \in Projects : token' = R!EditorToken(p) \/ token' = R!ClaimToken(p)
  <2>1. CASE R!SignIn \/ R!Impersonate \/ R!TokenExpires
    BY <2>1 DEF R!SignIn, R!Impersonate, R!TokenExpires
  <2>2. CASE R!Exchange
    BY <1>0, <2>2 DEF R!Exchange
  <2>3. CASE R!ClaimJob
    BY <1>0, <2>3 DEF R!ClaimJob, R!EditorSession
  <2> QED
    BY <2>1, <2>2, <2>3
<1>4. /\ token' \in R!Tokens
      /\ token'.kind = "access" => token'.role = person.role /\ (token'.imp => token'.role = "user")
  <2>1. CASE token' = token
    BY <1>0, <2>1 DEF R!IInv
  <2>2. CASE token' = R!NoToken
    BY <2>2, TokenKinds
  <2>3. CASE token' = R!AccessToken(person.role, FALSE)
    BY <1>0, <2>3, TokenKinds
  <2>4. CASE person.role = "user" /\ token' = R!AccessToken("user", TRUE)
    BY <2>4, TokenKinds DEF R!Roles
  <2>5. CASE \E p \in Projects : token' = R!EditorToken(p) \/ token' = R!ClaimToken(p)
    BY <2>5, TokenKinds
  <2> QED
    BY <1>3, <2>1, <2>2, <2>3, <2>4, <2>5
<1> QED
  BY <1>0, <1>1, <1>2, <1>4 DEF R!IInv, R!TypeOK

\* What happens to the account and its projects leaves the credential, and the role, as they are.
LEMMA AccountMoves ==
    ASSUME R!IInv,
           \/ R!TicketExpires \/ R!DeleteAccount \/ R!RestoreAccount
           \/ \E suspended \in BOOLEAN : R!SetStatus(suspended)
           \/ \E p \in Projects : R!CreateTicket(p) \/ R!TrashOrRestore(p) \/ R!AdminTrashes(p)
    PROVE  R!IInv'
<1>0. R!TypeOK
  BY DEF R!IInv
<1>1. token' = token
  BY DEF R!TicketExpires, R!DeleteAccount, R!RestoreAccount, R!SetStatus, R!CreateTicket,
     R!TrashOrRestore, R!AdminTrashes
<1>2. ticket' \in Projects \cup {None}
  BY <1>0 DEF R!TypeOK, R!TicketExpires, R!DeleteAccount, R!RestoreAccount, R!SetStatus,
     R!CreateTicket, R!TrashOrRestore, R!AdminTrashes
<1>3. owned' \subseteq Projects
  BY <1>0 DEF R!TypeOK, R!TicketExpires, R!DeleteAccount, R!RestoreAccount, R!SetStatus,
     R!CreateTicket, R!TrashOrRestore, R!AdminTrashes
<1>4. person' \in R!Person /\ person'.role = person.role
  <2>1. ASSUME NEW s \in BOOLEAN, R!SetStatus(s) PROVE <1>4!:
    BY <1>0, <2>1 DEF R!SetStatus, R!TypeOK, R!Person
  <2>2. CASE R!DeleteAccount \/ R!RestoreAccount
    BY <1>0, <2>2 DEF R!DeleteAccount, R!RestoreAccount, R!TypeOK, R!Person
  <2>3. CASE \/ R!TicketExpires
             \/ \E p \in Projects : R!CreateTicket(p) \/ R!TrashOrRestore(p) \/ R!AdminTrashes(p)
    BY <1>0, <2>3 DEF R!TicketExpires, R!CreateTicket, R!TrashOrRestore, R!AdminTrashes, R!TypeOK
  <2> QED
    BY <2>1, <2>2, <2>3
<1> QED
  BY <1>0, <1>1, <1>2, <1>3, <1>4 DEF R!IInv, R!TypeOK

LEMMA AccessNext == ASSUME R!IInv, [R!Next]_R!vars PROVE R!IInv'
<1>1. CASE UNCHANGED R!vars
  BY <1>1 DEF R!vars, R!IInv, R!TypeOK
<1>2. CASE R!Next
  BY <1>2, TokensIssued, AccountMoves DEF R!Next
<1> QED
  BY <1>1, <1>2

LEMMA AccessInit == R!Init => R!IInv
<1> SUFFICES ASSUME R!Init PROVE R!IInv
  OBVIOUS
<1>1. person \in [role : R!Roles, suspended : {FALSE}, deleted : {FALSE}]
  BY DEF R!Init
<1>2. /\ person.role \in R!Roles /\ person.suspended \in BOOLEAN /\ person.deleted \in BOOLEAN
      /\ person = [role |-> person.role, suspended |-> person.suspended,
                   deleted |-> person.deleted]
  BY <1>1, Zenon
<1>3. person \in R!Person
  BY <1>2 DEF R!Person
<1> QED
  BY <1>3, TokenKinds DEF R!Init, R!IInv, R!TypeOK

\* The inductive invariant of access: a token speaks for the account it was issued to.
THEOREM AccessInvariant == R!Spec => []R!IInv
<1>1. R!IInv /\ [R!Next]_R!vars => R!IInv'
  BY AccessNext
<1> QED
  BY <1>1, AccessInit, PTL DEF R!Spec

-----------------------------------------------------------------------------
(* The parts in the behaviours of MCAccounts.                               *)

\* A part makes a step of its own or rests.
LEMMA OnePartMoves ==
    ASSUME [MCNext]_<<moving, vars, signIn, accounts, launch, coupons, access, schema>>
    PROVE  /\ [S!Next]_S!vars /\ [A!Next]_A!vars /\ [L!Next]_L!vars /\ [C!Next]_C!vars
           /\ [R!Next]_R!vars
<1>1. [S!Next]_S!vars
  BY DEF MCNext, signIn, S!vars
<1>2. [A!Next]_A!vars
  BY DEF MCNext, accounts, A!vars
<1>3. [L!Next]_L!vars
  BY DEF MCNext, launch, L!vars
<1>4. [C!Next]_C!vars
  BY DEF MCNext, coupons, C!vars
<1>5. [R!Next]_R!vars
  BY DEF MCNext, access, R!vars
<1> QED
  BY <1>1, <1>2, <1>3, <1>4, <1>5

LEMMA PartsMove ==
    /\ MCSpec => S!Spec
    /\ MCSpec => A!Spec
    /\ MCSpec => L!Spec
    /\ MCSpec => C!Spec
    /\ MCSpec => R!Spec
<1>1. MCInit => S!Init /\ A!Init /\ L!Init /\ C!Init /\ R!Init
  BY DEF MCInit
<1>2. [MCNext]_<<moving, vars, signIn, accounts, launch, coupons, access, schema>>
         => /\ [S!Next]_S!vars /\ [A!Next]_A!vars /\ [L!Next]_L!vars /\ [C!Next]_C!vars
            /\ [R!Next]_R!vars
  BY OnePartMoves
<1> QED
  BY <1>1, <1>2, PTL DEF MCSpec, S!Spec, A!Spec, L!Spec, C!Spec, R!Spec

\* However many requests guess at the same time, fewer wrong passwords, or codes, than the
\* limit and one by each request are compared before the lock (login_guard).
THEOREM GuessesFew == MCSpec => []GuessesBounded
<1>1. S!Spec => []S!IInv
  BY SignInInvariant, PartsAssumption
<1>2. S!IInv => GuessesBounded
  BY GuessesOK, PartsAssumption DEF GuessesBounded
<1> QED
  BY <1>1, <1>2, PartsMove, PTL

\* Whatever enables and disables the second factor at the same time, the recovery codes that
\* are valid are those handed out last, and none when it is disabled.
THEOREM OldCodesVoid == MCSpec => []CodesOfOneEnrolment
<1>1. S!Spec => []S!IInv
  BY SignInInvariant, PartsAssumption
<1>2. S!IInv => CodesOfOneEnrolment
  BY DEF S!IInv, CodesOfOneEnrolment
<1> QED
  BY <1>1, <1>2, PartsMove, PTL

\* Nobody signs in to an anonymized account, and nothing brings it back, unless a restore was
\* on its way when the purge read it.
THEOREM PurgeStays == MCSpec => []PurgeFinal
<1>1. A!Spec => []A!IInv
  BY AccountsInvariant, PartsAssumption
<1>2. A!IInv => PurgeFinal
  BY DEF A!IInv, PurgeFinal
<1> QED
  BY <1>1, <1>2, PartsMove, PTL

\* A launch ticket, an authorization code and an SSO token open one session each, however many
\* requests present them.
THEOREM SecretsOnce == MCSpec => []ConsumedOnce
<1>1. L!Spec => []L!IInv
  BY LaunchInvariant, PartsAssumption
<1>2. L!IInv => ConsumedOnce
  BY DEF L!IInv, ConsumedOnce
<1> QED
  BY <1>1, <1>2, PartsMove, PTL

\* Launch as TLC explores it implements OneTimeSecret.
THEOREM SecretsImplemented == MCSpec => OneTimeSecretSpec
<1>1. L!Spec => []L!IInv
  BY LaunchInvariant, PartsAssumption
<1>2. MCInit => L!Secret!Init
  BY SecretInitial DEF MCInit
<1>3. L!IInv /\ [MCNext]_<<moving, vars, signIn, accounts, launch, coupons, access, schema>>
         => [moving = "launch" => [L!Secret!Next]_(L!Secret!vars)]_launch
  <2> SUFFICES ASSUME L!IInv, moving = "launch", MCNext
               PROVE  [L!Secret!Next]_(L!Secret!vars)
    BY DEF launch
  <2>1. L!Next
    BY DEF MCNext
  <2> QED
    BY <2>1, SecretSteps
<1> QED
  BY <1>1, <1>2, <1>3, PartsMove, PTL DEF MCSpec, OneTimeSecretSpec

\* However many requests redeem a code, no redemption is added beyond its limit.
THEOREM CodesBounded == MCSpec => CodeRedemptionsBounded
<1>1. C!Spec => []C!IInv
  BY CouponsInvariant, PartsAssumption
<1>2. C!IInv /\ [MCNext]_<<moving, vars, signIn, accounts, launch, coupons, access, schema>>
         => [\A c \in Codes : redeemed'[c] # redeemed[c]
                => Cardinality(redeemed'[c]) <= coupon[c].max]_coupons
  <2> SUFFICES ASSUME C!IInv,
                      [MCNext]_<<moving, vars, signIn, accounts, launch, coupons, access, schema>>,
                      NEW c \in Codes, redeemed'[c] # redeemed[c]
               PROVE  Cardinality(redeemed'[c]) <= coupon[c].max
    OBVIOUS
  <2>1. C!Cardinality(redeemed'[c]) <= coupon[c].max
    BY OnePartMoves, CouponsNext, PartsAssumption
  <2> QED
    BY <2>1, SameFiniteSets
<1> QED
  BY <1>1, <1>2, PartsMove, PTL DEF MCSpec, CodeRedemptionsBounded

\* Over all endpoints of the interface and whatever became of the account since its credential
\* was issued: a suspended or deleted account, an editor session, staff and an administrator
\* acting for a customer are admitted where they should be, and nowhere else.
THEOREM GuardsHold == MCSpec => []AccessJustified
<1>1. R!IInv => AccessJustified
  BY AccessOK DEF AccessJustified
<1> QED
  BY <1>1, AccessInvariant, PartsMove, PTL
=============================================================================
