---------------------------- MODULE MCScanQuota -----------------------------
(***************************************************************************)
(* Instances of ScanQuota for TLC: one or two Credit invoices, a mobile    *)
(* scan and a direct reference, two requests at a time.                    *)
(***************************************************************************)
EXTENDS ScanQuota, TLC

CONSTANTS i1, i2, s1, f1, r1, r2

Interchangeable == Permutations(Requests)
=============================================================================
