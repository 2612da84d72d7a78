-------------------------- MODULE MCPortionSummary --------------------------
(* Instances of PortionSummary for TLC. *)
EXTENDS PortionSummary, TLC

CONSTANTS a, u1, r1, j1, j2, w1, w2
Symmetric == Permutations(Presses) \cup Permutations(Jobs) \cup Permutations(Workers)

\* What no action and no property of portion_summary can tell apart is left out:
\* of the answers paid for, all but how many did not come to nothing; those of
\* pages two executions had at once; the rollups of portions two executions had
\* in hand; and what an empty list, or one known to be outdated, shows.
Seen ==
  <<row, page, paged,
    [k \in Portions |-> IF k \in doubled THEN <<>> ELSE rollup[k]],
    [cache EXCEPT !.old = @ \ outdated], requests, bounds,
    [p \in Pages |-> IF p \in shared THEN 0 ELSE paid[p] - lost[p]],
    shared, doubled, orphaned, IF cache.is = "filled" THEN outdated ELSE {}>>
=============================================================================
