---------------------------- MODULE MCReviewRuns ----------------------------
(* Instances of ReviewRuns for TLC. *)
EXTENDS ReviewRuns, TLC

CONSTANTS r1, r2, k1, k2, q1, q2, w1, w2
Symmetric == Permutations(Runs) \cup Permutations(Keys) \cup Permutations(Requests)
               \cup Permutations(Workers)
=============================================================================
