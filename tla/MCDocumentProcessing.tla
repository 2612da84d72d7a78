----------------------- MODULE MCDocumentProcessing -----------------------
(***************************************************************************)
(* Instances of DocumentProcessing for TLC: the bounds on faults and       *)
(* requests, and the symmetry of the slots.                                *)
(***************************************************************************)
EXTENDS DocumentProcessing, TLC

CONSTANTS s1, s2, arch

Limits(error, crash, lapse, unwritten, request) ==
  "error" :> error @@ "crash" :> crash @@ "lapse" :> lapse
    @@ "unwritten" :> unwritten @@ "request" :> request

LateAndRequest == Limits(1, 0, 1, 1, 1)
ErrorAndCrash  == Limits(1, 1, 0, 0, 0)
Settling       == Limits(2, 1, 0, 0, 1)

\* Nothing tells one slot from another.
Symmetric == Permutations(Slots)
=============================================================================
