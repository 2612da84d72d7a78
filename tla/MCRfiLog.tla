------------------------------ MODULE MCRfiLog ------------------------------
(***************************************************************************)
(* Instances of RfiLog for TLC, and their symmetry.                        *)
(***************************************************************************)
EXTENDS RfiLog, TLC

CONSTANTS i1, i2, p1, p2, w1, q1, q2, crack, chat

OneScan  == {1}

\* Nothing tells one row id, one request, one worker or one text from another.
Symmetric == Permutations(Rfis) \cup Permutations(Requests)
               \cup Permutations(Workers) \cup Permutations(Questions)
=============================================================================
