----------------------------- MODULE MCBakeJobs -----------------------------
(* One project with two job rows, two requests at a time, two claims.       *)
EXTENDS BakeJobs, TLC

CONSTANTS p1, p2, j1, j2, r1, r2

OneProject == [j \in {j1, j2} |-> p1]
OneProjectOneJob == [j \in {j1} |-> p1]
SameRequests == Permutations({r1, r2})
SameRows == Permutations({r1, r2}) \cup Permutations({j1, j2})
=============================================================================
