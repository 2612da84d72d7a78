-------------------------- MODULE MCReviewFindings --------------------------
(***************************************************************************)
(* Two questions, one of the project's own library and one whose claims    *)
(* are measured; two proposals, of which one may be asked about again.     *)
(***************************************************************************)
EXTENDS ReviewFindings

CONSTANTS library, columns

MCQuestions == {library, columns}
MCLibrary == {library}
MCMeasured == {columns}

\* States that differ only in what no later step and no property looks at are
\* one: what a full cap left out; a gap of a question nobody observed, where a decided proposal came from,
\* which proposals were searched for once all are settled; when nothing is left
\* to ask, the call in hand and what the proposals cite; and, when the run is
\* over, why it ended as it did.
RunOver == stage \in {"ready", "partial", "failed"}
NothingToAsk == stage = "save" \/ RunOver
LeftWithRoom ==
  [heard EXCEPT !.past = IF Proposed = Slots THEN {} ELSE @,
                !.cut = IF Slots \cap 1..MaxUnclaimed \subseteq Proposed THEN {} ELSE @]
Heard ==
  IF stage \in {"evidence", "discovery"} THEN heard
  ELSE IF RunOver
    THEN [LeftWithRoom EXCEPT !.seen = @ \ heard.gaps, !.gaps = {}, !.apart = {}]
  ELSE [LeftWithRoom EXCEPT !.gaps = @ \cap heard.seen, !.apart = @ \ heard.seen]
Remembered(p) ==
  [p EXCEPT !.sought = IF stage = "settle" THEN @ ELSE "no",
            !.from = IF p.fate \in {"kept", "aside"} THEN "model" ELSE @,
            !.cites = IF NothingToAsk THEN {} ELSE @]
View ==
  <<stage, supply, IF RunOver THEN <<>> ELSE <<unread, stopped>>, Heard,
    [s \in Slots |-> Remembered(proposal[s])],
    IF NothingToAsk THEN <<>> ELSE <<askVars, nextId, evidence>>, outcome>>

=============================================================================
