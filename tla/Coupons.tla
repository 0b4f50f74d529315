------------------------------ MODULE Coupons ------------------------------
(***************************************************************************)
(* Activation codes, which grant a plan, and discount coupons, which lower  *)
(* the price of an invoice (BR-26).                                         *)
(*                                                                         *)
(* Redeeming a code holds the coupon's row from SELECT ... FOR UPDATE to     *)
(* the commit.  A paid invoice redeems its coupon without: it loads the row, *)
(* looks for a redemption of the account and writes used_count as loaded     *)
(* plus one; only the unique index of coupon_redemptions stands between two   *)
(* payments.  Tiers, prices and validity dates are left out: a coupon out of *)
(* its dates is one that is not active.                                     *)
(***************************************************************************)
EXTENDS Naturals, FiniteSets

CONSTANTS
    Requests,       \* requests and webhooks served at the same time
    Users,
    Codes,          \* coupons of type grant_plan
    Discounts,      \* coupons of the other types
    Invoices,       \* invoices with a discount coupon
    MaxUses,        \* bound: a coupon's limit is 1..MaxUses
    None            \* no limit, no invoice, no request

\* What the constants must be.
CouponsAssumption ==
    /\ MaxUses \in Nat \ {0}
    /\ IsFiniteSet(Users)
    /\ None \notin Nat \cup Requests
    /\ Codes \cap Discounts = {}

VARIABLES
    coupon,     \* rows of coupons
    redeemed,   \* coupon_redemptions: the accounts of each coupon
    holder,     \* who holds the lock of the row
    free,       \* accounts on the Free plan
    invoice,    \* invoices: who pays with which coupon
    req

vars == <<coupon, redeemed, holder, free, invoice, req>>

------------------------------------------------------------------------------

Coupon == Codes \cup Discounts

\* An activation code has a limit, a discount may have none (_validate_grant_plan).
Limits(c) == 1..MaxUses \cup (IF c \in Codes THEN {} ELSE {None})

NoInvoice == [status |-> "none"]
Idle == [op |-> "idle"]

Init ==
    /\ coupon \in {f \in [Coupon -> [active : {TRUE}, max : 1..MaxUses \cup {None}, used : {0}]] :
                      \A c \in Coupon : f[c].max \in Limits(c)}
    /\ redeemed = [c \in Coupon |-> {}]
    /\ holder = [c \in Coupon |-> None]
    /\ free = Users
    /\ invoice = [i \in Invoices |-> NoInvoice]
    /\ req = [r \in Requests |-> Idle]

\* _check_usable
Usable(c) == coupon[c].active /\ (coupon[c].max # None => coupon[c].used < coupon[c].max)

End(r) ==
    /\ req' = [req EXCEPT ![r] = Idle]
    /\ holder' = [c \in Coupon |-> IF holder[c] = r THEN None ELSE holder[c]]

\* record_redemption: the account is noted, and used_count is what was loaded plus one.
Record(c, u, loaded) ==
    /\ redeemed' = [redeemed EXCEPT ![c] = @ \cup {u}]
    /\ coupon' = [coupon EXCEPT ![c].used = loaded + 1]

------------------------------------------------------------------------------
(* Activation codes.                                                        *)

RedeemUnlocked(r, u, c) ==
    /\ Usable(c)
    /\ u \notin redeemed[c]
    /\ req[r] = Idle
    /\ req' = [req EXCEPT ![r] = [op |-> "redeem", user |-> u, coupon |-> c,
                                  used |-> coupon[c].used]]
    /\ UNCHANGED <<coupon, redeemed, holder, free, invoice>>

\* redeem_plan_code checks the row it has locked.
Redeem(r, u, c) ==
    /\ req[r] = Idle
    /\ holder[c] = None
    /\ Usable(c)
    /\ u \notin redeemed[c]
    /\ holder' = [holder EXCEPT ![c] = r]
    /\ req' = [req EXCEPT ![r] = [op |-> "redeem", user |-> u, coupon |-> c,
                                  used |-> coupon[c].used]]
    /\ UNCHANGED <<coupon, redeemed, free, invoice>>

\* The account's subscription, which is not locked, must be Free.
CheckFree(r) ==
    /\ req[r].op = "redeem"
    /\ req[r].user \in free
    /\ req' = [req EXCEPT ![r].op = "grant"]
    /\ UNCHANGED <<coupon, redeemed, holder, free, invoice>>

\* apply_comp, the redemption, the commit.
Grant(r) ==
    /\ req[r].op = "grant"
    /\ req[r].user \notin redeemed[req[r].coupon]
    /\ Record(req[r].coupon, req[r].user, req[r].used)
    /\ free' = free \ {req[r].user}
    /\ End(r)
    /\ UNCHANGED invoice

\* The granted plan is over, or another one is bought.
PlanChanges(u) ==
    /\ free' = IF u \in free THEN free \ {u} ELSE free \cup {u}
    /\ UNCHANGED <<coupon, redeemed, holder, invoice, req>>

------------------------------------------------------------------------------
(* Discounts.                                                               *)

\* evaluate, and an invoice with the lower price.
Checkout(i, u, c) ==
    /\ invoice[i] = NoInvoice
    /\ Usable(c)
    /\ u \notin redeemed[c]
    /\ invoice' = [invoice EXCEPT ![i] = [status |-> "pending", user |-> u, coupon |-> c]]
    /\ UNCHANGED <<coupon, redeemed, holder, free, req>>

\* activate_invoice holds the invoice's row; redeem then loads the coupon.
PayLoad(r, i) ==
    /\ req[r] = Idle
    /\ invoice[i].status = "pending"
    /\ \A q \in Requests : req[q].op = "pay" => req[q].invoice # i
    /\ req' = [req EXCEPT ![r] =
          [op |-> "pay", invoice |-> i, used |-> coupon[invoice[i].coupon].used,
           first |-> invoice[i].user \notin redeemed[invoice[i].coupon]]]
    /\ UNCHANGED <<coupon, redeemed, holder, free, invoice>>

\* Whoever redeemed the coupon before pays the lower price and redeems nothing.
Pay(r) ==
    /\ req[r].op = "pay"
    /\ LET i == req[r].invoice
           u == invoice[i].user
           c == invoice[i].coupon
       IN  /\ IF req[r].first
                 THEN u \notin redeemed[c] /\ Record(c, u, req[r].used)
                 ELSE UNCHANGED <<coupon, redeemed>>
           /\ invoice' = [invoice EXCEPT ![i].status = "paid"]
           /\ free' = free \ {u}
    /\ End(r)

------------------------------------------------------------------------------

\* update_coupon waits for whoever holds the row.
UpdateCoupon(c, max, active) ==
    /\ holder[c] = None
    /\ max \in Limits(c)
    /\ coupon' = [coupon EXCEPT ![c].max = max, ![c].active = active]
    /\ UNCHANGED <<redeemed, holder, free, invoice, req>>

\* Refused, rolled back by an error, or by the unique index.
Abort(r) ==
    /\ req[r] # Idle
    /\ End(r)
    /\ UNCHANGED <<coupon, redeemed, free, invoice>>

Next ==
    \/ \E r \in Requests :
        \/ \E u \in Users, c \in Codes : Redeem(r, u, c)
        \/ CheckFree(r) \/ Grant(r)
        \/ (\E i \in Invoices : PayLoad(r, i)) \/ Pay(r)
        \/ Abort(r)
    \/ \E u \in Users : PlanChanges(u)
    \/ \E i \in Invoices, u \in Users, c \in Discounts : Checkout(i, u, c)
    \/ \E c \in Coupon, max \in 1..MaxUses \cup {None}, active \in BOOLEAN :
          UpdateCoupon(c, max, active)

Spec == Init /\ [][Next]_vars

------------------------------------------------------------------------------
(* Properties.                                                              *)

RequestState ==
    {Idle} \cup [op : {"redeem", "grant"}, user : Users, coupon : Codes, used : Nat]
           \cup [op : {"pay"}, invoice : Invoices, used : Nat, first : BOOLEAN]

TypeOK ==
    /\ coupon \in [Coupon -> [active : BOOLEAN, max : 1..MaxUses \cup {None}, used : Nat]]
    /\ \A c \in Codes : coupon[c].max # None
    /\ redeemed \in [Coupon -> SUBSET Users]
    /\ holder \in [Coupon -> Requests \cup {None}]
    /\ free \subseteq Users
    /\ invoice \in [Invoices -> {NoInvoice} \cup
                       [status : {"pending", "paid"}, user : Users, coupon : Discounts]]
    /\ req \in [Requests -> RequestState]

\* A code is redeemed only while it has been redeemed fewer times than its limit, "when many
\* users redeem at the same moment" (redeem_plan_code).
CodeRedemptionsBounded ==
    [][\A c \in Codes : redeemed'[c] # redeemed[c]
          => Cardinality(redeemed'[c]) <= coupon[c].max]_vars

------------------------------------------------------------------------------
(* Why it holds.                                                            *)

\* used_count is the number of redemptions of a code, and whoever redeems it holds the row;
\* what is paid is an invoice.
IInv ==
    /\ TypeOK
    /\ \A c \in Codes : coupon[c].used = Cardinality(redeemed[c])
    /\ \A r \in Requests : req[r].op \in {"redeem", "grant"} =>
          LET c == req[r].coupon IN
          /\ holder[c] = r
          /\ req[r].used = coupon[c].used
          /\ coupon[c].used < coupon[c].max
          /\ req[r].user \notin redeemed[c]
    /\ \A r \in Requests : req[r].op = "pay" => invoice[req[r].invoice].status # "none"

=============================================================================
