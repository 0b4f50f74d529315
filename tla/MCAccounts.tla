----------------------------- MODULE MCAccounts -----------------------------
(***************************************************************************)
(* The account of a person, for TLC: SignUp, SignIn, Accounts, Launch,       *)
(* Coupons and Access, and the database migrations it lives through.  They    *)
(* share no state: in every behaviour one of them moves and the others rest,  *)
(* so that TLC explores each on its own instead of their product.             *)
(***************************************************************************)
EXTENDS SignUp, FiniteSets, TLC

CONSTANTS
    FailureLimit, MaxEnrolments,                    \* of SignIn
    RestoreDays, AccountMaxAttempts, MaxDay,        \* of Accounts
    Grants, Clients,                                \* of Launch
    Users, Codes, Discounts, Invoices, MaxUses,     \* of Coupons
    Projects                                        \* of Access

VARIABLES
    moving,                                                             \* the part that moves
    fails, expiring, lockout, wrong, challenge, userRow, userHolder, codes, enrolled,
    signInReq,                                                          \* of SignIn
    account, live, recovery, restoredLate, day, accountReq, worker,     \* of Accounts
    kind, record, claimed, allowed, sessions, launchReq,                \* of Launch
    coupon, redeemed, holder, free, invoice, couponReq,                 \* of Coupons
    person, owned, token, ticket,                                       \* of Access
    rev, tables, checks, row                                            \* of Migrations

signIn == <<fails, expiring, lockout, wrong, challenge, userRow, userHolder, codes, enrolled,
            signInReq>>
accounts == <<account, live, recovery, restoredLate, day, accountReq, worker>>
launch == <<kind, record, claimed, allowed, sessions, launchReq>>
coupons == <<coupon, redeemed, holder, free, invoice, couponReq>>
access == <<person, owned, token, ticket>>
schema == <<rev, tables, checks, row>>

S == INSTANCE SignIn WITH locked <- lockout, row <- userRow, holder <- userHolder,
                          req <- signInReq
A == INSTANCE Accounts WITH MaxAttempts <- AccountMaxAttempts, user <- account,
                            req <- accountReq
L == INSTANCE Launch WITH req <- launchReq
C == INSTANCE Coupons WITH req <- couponReq
R == INSTANCE Access
M == INSTANCE Migrations

\* What the constants must be.
ASSUME PartsAssumption ==
    S!SignInAssumption /\ A!AccountsAssumption /\ L!LaunchAssumption /\ C!CouponsAssumption

\* At rest: one initial state of those that have several.
AccountsRest == moving # "accounts" => account.password /\ ~account.google
CouponsRest == moving # "coupons" => \A c \in C!Coupon : coupon[c].max = MaxUses
AccessRest == moving # "access" => person.role = "user"
SchemaRest == moving # "schema" => rev = 0

MCInit ==
    /\ moving \in {"signUp", "signIn", "accounts", "launch", "coupons", "access", "schema"}
    /\ Init /\ S!Init /\ L!Init
    /\ A!Init /\ AccountsRest
    /\ C!Init /\ CouponsRest
    /\ R!Init /\ AccessRest
    /\ M!Init /\ SchemaRest

MCNext ==
    /\ UNCHANGED moving
    /\ \/ /\ moving = "signUp" /\ Next
          /\ UNCHANGED <<signIn, accounts, launch, coupons, access, schema>>
       \/ /\ moving = "signIn" /\ S!Next
          /\ UNCHANGED <<vars, accounts, launch, coupons, access, schema>>
       \/ /\ moving = "accounts" /\ A!Next
          /\ UNCHANGED <<vars, signIn, launch, coupons, access, schema>>
       \/ /\ moving = "launch" /\ L!Next
          /\ UNCHANGED <<vars, signIn, accounts, coupons, access, schema>>
       \/ /\ moving = "coupons" /\ C!Next
          /\ UNCHANGED <<vars, signIn, accounts, launch, access, schema>>
       \/ /\ moving = "access" /\ R!Next
          /\ UNCHANGED <<vars, signIn, accounts, launch, coupons, schema>>
       \/ /\ moving = "schema" /\ M!Next
          /\ UNCHANGED <<vars, signIn, accounts, launch, coupons, access>>

MCSpec == MCInit /\ [][MCNext]_<<moving, vars, signIn, accounts, launch, coupons, access, schema>>

Interchangeable == Permutations(Requests)

-----------------------------------------------------------------------------
(* The properties, each looked at where its part moves.                      *)

\* SignIn: the guard counts every wrong answer; one set of recovery codes is valid.
GuessesBounded == moving = "signIn" => S!GuessesBounded
CodesOfOneEnrolment == moving = "signIn" => S!CodesOfOneEnrolment

\* Accounts: the purge is final, except for a restore that was on its way.
PurgeFinal == moving = "accounts" => A!PurgeFinal

\* Launch: a one-time secret opens one session.
ConsumedOnce == moving = "launch" => L!ConsumedOnce

\* Launch implements OneTimeSecret.
OneTimeSecretSpec ==
    L!Secret!Init /\ [][moving = "launch" => [L!Secret!Next]_(L!Secret!vars)]_launch

\* Coupons: an activation code is not redeemed more often than its limit.
CodeRedemptionsBounded ==
    [][\A c \in Codes : redeemed'[c] # redeemed[c]
          => Cardinality(redeemed'[c]) <= coupon[c].max]_coupons

\* Access: what each credential opens, whatever became of the account since.
AccessJustified == moving = "access" => R!AccessJustified

\* Migrations: the newest revision serves every model.
ModelsServed == moving = "schema" => M!ModelsServed

\* Migrations: no row stops a migration.
NeverBlocked == moving = "schema" => M!NeverBlocked
=============================================================================
