------------------------------ MODULE MCBilling ------------------------------
(***************************************************************************)
(* Instances of Billing for TLC: a few invoices, one or two requests at a  *)
(* time, a cycle of two ticks and a grace period of one.                   *)
(***************************************************************************)
EXTENDS Billing, TLC

CONSTANTS i1, i2, r1, r2

OneInvoice == {i1}
TwoInvoices == {i1, i2}
OneRequest == {r1}
TwoRequests == {r1, r2}
Interchangeable == Permutations(Requests) \cup Permutations(Invoices)
=============================================================================
