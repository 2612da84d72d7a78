----------------------------- MODULE MCFullScan -----------------------------
(***************************************************************************)
(* Instances of FullScan for TLC.                                          *)
(***************************************************************************)
EXTENDS FullScan, TLC

CONSTANTS w1, w2

Symmetric == Permutations(Workers)

\* Which drawings a run was planned from is read before its first look only.
Read(e) == IF e.pc \in {"taken", "set"} THEN e ELSE [e EXCEPT !.seen = 0]

\* What the actions, StartedOnce and CancelStays can tell apart: without the
\* history, the findings on file, and what has been read for the last time.
ReadAgain == <<[scan EXCEPT !.built = 0], code, tile, queueVars,
               [w \in Workers |-> Read(exec[w])], spent, boundVars>>
=============================================================================
