--------------------------- MODULE MCRegionScrape ---------------------------
(* Instances of RegionScrape for TLC. *)
EXTENDS RegionScrape, TLC

CONSTANTS a, j1, j2
Sym == Permutations(Jobs)

\* What a job is queued again with, if anything can still fail.
Retry(e) == IF faults < MaxFaults THEN <<e.version, e.scope, e.attempts, e.tries, e.stalled>> ELSE <<>>

\* What is left of an execution: the rest of its record is not read again.
Rest(e) ==
  CASE e.pc \in {"rows", "flag", "finish"} -> <<e.pc, Retry(e)>>
    [] e.pc = "scraping" -> <<e.pc, Retry(e), e.version, e.box, e.todo>>
    [] e.pc = "sort" ->
         <<e.pc, Retry(e), e.todo, e.blank, e.live, [p \in e.live |-> e.kind[p]]>>
    [] OTHER -> <<[e EXCEPT !.before = {}]>>

\* The text of a page matters while it is at the version of the box or may be.
TextSeen(p) ==
  [page[p] EXCEPT !.text = IF @ = 0 \/ redrawn
                                \/ page[p].version < region.version
                           THEN 0 ELSE @]

\* What no property of the run and no other action can see is left out:
\* summaries and what a job compares them with, the status of the region once
\* nobody will ask for a repeated read, when a page was moved once the move has
\* been taken back, and the groups once a job has given up.
Seen == <<[region EXCEPT !.status = requests < MaxRequests /\ @ = "running"],
          [p \in Pages |-> TextSeen(p)], IF gaveUp THEN {} ELSE group,
          [j \in Jobs |-> Rest(job[j])], section, asked, boundVars, redrawn, gaveUp,
          {p \in late : ByHand(p)}>>
=============================================================================
