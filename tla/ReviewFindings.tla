--------------------------- MODULE ReviewFindings ---------------------------
(***************************************************************************)
(* What one targeted RFI review makes of a model's answers                 *)
(* (workers/src/rfi_review.py, _run).  The evidence is packed into calls;  *)
(* discovery observes, reasoning proposes, the code and a second model     *)
(* judge each proposal, a rejection that points at nothing is asked about  *)
(* once more, and one write says how each question ended.  A call fails or *)
(* answers nonsense, and the token ceiling stops the run anywhere.         *)
(*                                                                         *)
(* What a model says is any answer; of its words only what the code tests  *)
(* for is kept.  Cancelling and taking up a run is module ReviewRuns.      *)
(***************************************************************************)
EXTENDS Integers, FiniteSets, SequencesExt

CONSTANTS
  Questions,     \* the questions asked
  Library,       \* those of the project's own library
  Measured,      \* those whose claims measured positions can settle (C03)
  Capacity,      \* tokens of evidence one discovery call takes
  MaxTokens,     \* bounds the tokens of one piece of evidence
  MaxPages,      \* bounds the pages read
  MaxItems,      \* bounds the pieces of evidence of one page
  MaxBatches,    \* discovery calls the depth allows
  MaxCandidates, \* MAX_CANDIDATES
  MaxUnclaimed,  \* MAX_UNCLAIMED
  MaxSearches,   \* MAX_RESOLVING_SEARCHES
  MaxElsewhere,  \* MAX_ELSEWHERE_CHECKS
  MaxHits,       \* evidence one search of the project brings
  MaxCallouts,   \* MAX_CALLOUT_CONTEXT
  MaxPlaced,     \* MAX_CONTEXT_FINDINGS
  MaxTries       \* 1 + len(CALL_RETRY_DELAYS)

ASSUME ReviewAssumption ==
  /\ Questions # {} /\ Library \subseteq Questions /\ Measured \subseteq Questions
  /\ \A n \in {Capacity, MaxTokens, MaxPages, MaxItems, MaxBatches, MaxCandidates,
               MaxTries} : n \in Nat \ {0}
  /\ \A n \in {MaxUnclaimed, MaxSearches, MaxElsewhere, MaxHits, MaxCallouts,
               MaxPlaced} : n \in Nat

VARIABLES
  stage,     \* where _run is
  supply,    \* the evidence to pack: for each page, the tokens of its pieces
  left,      \* discovery calls still to make
  ask,       \* the call in hand: its attempt, and the tries that failed
  ceiling,   \* the token ceiling is reached
  unread,    \* evidence did not fit into the calls
  stopped,   \* the ceiling ended the run
  heard,     \* questions observed, with gaps, and not applicable; and those with
             \* an absence or a proposal that a cap left out
  proposal,  \* the candidates, in order
  nextId,    \* next_id of _run
  evidence,  \* what each evidence id stands for
  outcome    \* checkResults

askVars == <<left, ask, ceiling>>
vars == <<stage, supply, askVars, unread, stopped, heard, proposal, nextId,
          evidence, outcome>>

Slots == 1..MaxCandidates
Ids == 1..(1 + MaxCandidates * (2 * MaxHits + MaxCallouts + 1))
Kinds == {"none", "drawing", "hit", "callout", "plan"}
NoProposal == [fate |-> "none", about |-> CHOOSE q \in Questions : TRUE,
               from |-> "model", sought |-> "no", first |-> "none", again |-> "none",
               rule |-> "none", sure |-> "low", cites |-> {}]
Fresh == [attempt |-> 1, tries |-> 0]

Proposed == {s \in Slots : proposal[s].fate # "none"}
InFate(f) == {s \in Slots : proposal[s].fate = f}
\* The loops over the candidates take them in order.
IsNext(s, f) == s \in InFate(f) /\ \A t \in InFate(f) : s <= t

-----------------------------------------------------------------------------
(* discovery_batches: pages cut into pieces that fit a call, the pieces    *)
(* packed in order, the calls beyond the cap left out.                     *)

Tokens(piece) ==
  LET sum[n \in 0..Len(piece)] == IF n = 0 THEN 0 ELSE sum[n - 1] + piece[n]
  IN sum[Len(piece)]

\* Mutant: only what the call already holds is compared with what it takes.
JoinWhileRoom(calls, part) ==
  IF calls # <<>> /\ Tokens(Last(calls)) < Capacity
  THEN Append(Front(calls), Last(calls) \o part)
  ELSE Append(calls, part)

\* A part joins the call before it unless together they exceed a call.
Join(calls, part) ==
  IF calls # <<>> /\ Tokens(Last(calls)) + Tokens(part) <= Capacity
  THEN Append(Front(calls), Last(calls) \o part)
  ELSE Append(calls, part)

Joined(parts) ==
  LET joined[n \in 0..Len(parts)] ==
        IF n = 0 THEN <<>> ELSE Join(joined[n - 1], parts[n])
  IN joined[Len(parts)]

PiecesOf(page) == Joined([i \in DOMAIN page |-> <<page[i]>>])
Calls(pages) == Joined(FlattenSeq([i \in DOMAIN pages |-> PiecesOf(pages[i])]))

Pages == UNION {[1..n -> 1..MaxTokens] : n \in 1..MaxItems}

Init ==
  /\ stage = "evidence"
  /\ supply \in UNION {[1..n -> Pages] : n \in 0..MaxPages}
  /\ left = 0
  /\ ask = Fresh
  /\ ceiling = FALSE
  /\ unread = FALSE /\ stopped = FALSE
  /\ heard = [seen |-> {}, gaps |-> {}, apart |-> {}, cut |-> {}, past |-> {}]
  /\ proposal = [s \in Slots |-> NoProposal]
  /\ nextId = 2
  /\ evidence = [e \in Ids |-> IF e = 1 THEN "drawing" ELSE "none"]
  /\ outcome = [q \in Questions |-> "none"]

\* Mutant: the calls past the cap are made as well.
PackAll ==
  /\ stage = "evidence"
  /\ left' = Len(Calls(supply))
  /\ unread' = FALSE
  /\ \E planned \in SUBSET Questions : heard' = [heard EXCEPT !.gaps = planned]
  /\ supply' = <<>>
  /\ stage' = IF left' = 0 THEN "reasoning" ELSE "discovery"
  /\ UNCHANGED <<ask, ceiling, stopped, proposal, nextId, evidence, outcome>>

\* The evidence is packed; the plan's own gaps are known before the first call.
\* No evidence is no call, and nothing to complete.
Pack ==
  /\ stage = "evidence"
  /\ LET calls == Calls(supply)
     IN /\ left' = IF Len(calls) <= MaxBatches THEN Len(calls) ELSE MaxBatches
        /\ unread' = (Len(calls) > MaxBatches)
  /\ \E planned \in SUBSET Questions : heard' = [heard EXCEPT !.gaps = planned]
  /\ supply' = <<>>
  /\ stage' = IF left' = 0 THEN "reasoning" ELSE "discovery"
  /\ UNCHANGED <<ask, ceiling, stopped, proposal, nextId, evidence, outcome>>

-----------------------------------------------------------------------------
(* One stage's call: _ask.                                                 *)

Asking == {"discovery", "inventory", "spans", "reasoning", "verification",
           "recheck"}
\* Nothing observed is nothing to reason about: no call is made.
Calling == stage \in Asking /\ (stage = "reasoning" => heard.seen # {})
\* The two follow-up calls keep the inventory they had when their call fails or
\* the ceiling is reached; any other call ends the run.
FollowUp == stage \in {"inventory", "spans"}
AfterFollowUp == IF stage = "inventory" THEN "spans" ELSE "reasoning"

\* Mutant: the ceiling ends the calls, and the run does not remember it.
StopQuietly ==
  /\ Calling /\ ceiling
  /\ ask' = Fresh
  /\ stage' = IF FollowUp THEN AfterFollowUp ELSE "save"
  /\ UNCHANGED <<supply, left, ceiling, unread, stopped, heard, proposal, nextId,
                 evidence, outcome>>

\* The ceiling is looked at before each call: BudgetStop.
Stop ==
  /\ Calling /\ ceiling
  /\ ask' = Fresh
  /\ IF FollowUp
       THEN stage' = AfterFollowUp /\ UNCHANGED stopped
       ELSE stage' = "save" /\ stopped' = TRUE
  /\ UNCHANGED <<supply, left, ceiling, unread, heard, proposal, nextId, evidence,
                 outcome>>

\* StageFailed.
GiveUp ==
  /\ ask' = Fresh
  /\ stage' = IF FollowUp THEN AfterFollowUp ELSE "failed"

\* No reply: asked again after a delay, MaxTries times in all.
CallFails ==
  /\ Calling /\ ~ceiling
  /\ \/ /\ ask.tries + 1 < MaxTries
        /\ ask' = [ask EXCEPT !.tries = @ + 1]
        /\ UNCHANGED stage
     \/ /\ ask.tries + 1 = MaxTries
        /\ GiveUp
  /\ UNCHANGED <<supply, left, ceiling, unread, stopped, heard, proposal, nextId,
                 evidence, outcome>>

\* A reply was paid for: the ceiling may be reached now.
Paid == ceiling' \in BOOLEAN

\* A reply that is cut off or is not the JSON asked for is asked for once more.
Unusable ==
  /\ Calling /\ ~ceiling
  /\ Paid
  /\ \/ /\ ask.attempt = 1
        /\ ask' = [attempt |-> 2, tries |-> 0]
        /\ UNCHANGED stage
     \/ /\ ask.attempt = 2
        /\ GiveUp
  /\ UNCHANGED <<supply, left, unread, stopped, heard, proposal, nextId, evidence,
                 outcome>>

\* A reply that could be read.
Answered(at) ==
  /\ stage = at /\ ~ceiling
  /\ Paid
  /\ ask' = Fresh

-----------------------------------------------------------------------------
(* Discovery and reasoning.                                                *)

\* parse_discovery: observations, gaps and questions the drawings are not about.
Discover ==
  /\ Answered("discovery")
  /\ \E seen, gaps, apart \in SUBSET Questions :
       heard' = [heard EXCEPT !.seen = @ \cup seen, !.gaps = @ \cup gaps,
                              !.apart = @ \cup apart]
  /\ left' = left - 1
  /\ stage' = IF left = 1 THEN "inventory" ELSE "discovery"
  /\ UNCHANGED <<supply, unread, stopped, proposal, nextId, evidence, outcome>>

\* complete_inventory: entries the code cannot compare are asked about again.
CompleteInventory ==
  /\ Answered("inventory") \/ (stage = "inventory" /\ UNCHANGED <<ask, ceiling>>)
  /\ stage' = "spans"
  /\ UNCHANGED <<supply, left, unread, stopped, heard, proposal, nextId, evidence,
                 outcome>>

\* complete_grid_spans: the grid strips are read for every span.
CompleteGridSpans ==
  /\ Answered("spans") \/ (stage = "spans" /\ UNCHANGED <<ask, ceiling>>)
  /\ stage' = "reasoning"
  /\ UNCHANGED <<supply, left, unread, stopped, heard, proposal, nextId, evidence,
                 outcome>>

\* _NothingObserved: what the code found by itself is saved.
NothingObserved ==
  /\ stage = "reasoning" /\ heard.seen = {}
  /\ stage' = "save"
  /\ UNCHANGED <<supply, askVars, unread, stopped, heard, proposal, nextId, evidence,
                 outcome>>

\* parse_candidates: the first n, about questions asked.
Candidates(n) == [1..n -> Questions]

\* unclaimed_absences: then k questions observed that reasoning proposed nothing
\* for, each once.
UnclaimedAbsences(about, n, k) ==
  /\ k <= MaxUnclaimed
  /\ \A s \in (n + 1)..(n + k) :
       /\ about[s] \in heard.seen
       /\ \A t \in 1..(s - 1) : about[t] # about[s]

\* value_conflicts: the rest are values of the inventory the code compared.
ToJudge(about, last, worded) ==
  [s \in Slots |->
     IF s <= last
     THEN [NoProposal EXCEPT !.fate = "proposed", !.about = about[s],
                             !.from = IF s <= worded THEN "model" ELSE "values",
                             !.cites = {<<1, "drawing">>}]
     ELSE NoProposal]

\* What is judged by nobody: absences past MAX_UNCLAIMED or the room the others
\* leave, and proposals and compared values past MAX_CANDIDATES.
LeftOut(about, last, n, k, absences, proposals) ==
  /\ absences \subseteq heard.seen \ {about[s] : s \in 1..(n + k)}
  /\ absences # {} => k = MaxUnclaimed \/ last = MaxCandidates
  /\ proposals # {} => last - k = MaxCandidates

Reason ==
  /\ heard.seen # {}
  /\ Answered("reasoning")
  /\ \E last \in 0..MaxCandidates : \E about \in Candidates(last) :
     \E n \in 0..last : \E k \in 0..(last - n) :
       /\ UnclaimedAbsences(about, n, k)
       /\ proposal' = ToJudge(about, last, n + k)
       /\ \E absences, proposals \in SUBSET Questions :
            /\ LeftOut(about, last, n, k, absences, proposals)
            /\ heard' = [heard EXCEPT !.cut = absences, !.past = proposals]
  /\ stage' = "settle"
  /\ UNCHANGED <<supply, left, unread, stopped, nextId, evidence, outcome>>

-----------------------------------------------------------------------------
(* Evidence found while judging.                                           *)

NewIds(n) == nextId..(nextId + n - 1)
Shown(ids, kind) == [e \in Ids |-> IF e \in ids THEN kind ELSE evidence[e]]
Citing(ids, kind) == {<<e, kind>> : e \in ids}

\* resolving_search brings n hits for proposal s, numbered by _run's counter.
Searched(n) ==
  /\ evidence' = Shown(NewIds(n), "hit")
  /\ nextId' = nextId + n

\* What answers a proposal before a call is paid for: a column schedule one that
\* says a value is missing (answered_by_column_schedule), measured positions one
\* they can settle (occurrence_check).
EarlyRules(p) ==
  {"none"} \cup (IF p.from = "model" THEN {"schedule"} ELSE {})
           \cup (IF p.about \in Measured THEN {"measured"} ELSE {})

\* One proposal: a needs-evidence proposal is searched for while the quota
\* lasts, and may be answered at once.
Settle(s) ==
  /\ stage = "settle" /\ IsNext(s, "proposed")
  /\ \E sought \in {"no", "yes"} : \E n \in 0..MaxHits :
       /\ IF sought = "yes"
            THEN Cardinality({t \in Slots : proposal[t].sought = "yes"}) < MaxSearches
            ELSE n = 0
       /\ Searched(n)
       /\ \E rule \in EarlyRules(proposal[s]) :
            proposal' = [proposal EXCEPT
              ![s].sought = sought, ![s].cites = @ \cup Citing(NewIds(n), "hit"),
              ![s].fate = IF rule = "none" THEN "verify" ELSE "aside",
              ![s].rule = rule]
  /\ UNCHANGED <<stage, supply, askVars, unread, stopped, heard, outcome>>

\* Nothing left to verify is no call.
Settled ==
  /\ stage = "settle" /\ InFate("proposed") = {}
  /\ stage' = IF InFate("verify") = {} THEN "save" ELSE "verification"
  /\ UNCHANGED <<supply, askVars, unread, stopped, heard, proposal, nextId, evidence,
                 outcome>>

-----------------------------------------------------------------------------
(* Verification.                                                           *)

Confidences == {"low", "medium", "high"}

\* What the code reads from a rejection: who designs the element is not its size
\* (delegated); two details a plan cuts at one place (one_place); a value said to
\* be elsewhere, with nothing that shows it (contested); a place never answered
\* (place_unanswered).
Rejections(p) ==
  SUBSET ({"delegated", "contested"}
            \cup IF p.from = "values" THEN {"one_place"} ELSE {"placeless"})

\* What such a rejection becomes.
KeptForCoordination == "low"
KeptAsOnePlace == "medium"
KeptForPlacement == "low"
Overruled == "low"
\* Mutant: the model's own confidence is taken.
AsSure(sure) == sure
Modest(sure) == IF sure = "low" THEN "low" ELSE "medium"

Aside(s, p, why) ==
  proposal' = [proposal EXCEPT ![s] = [p EXCEPT !.fate = "aside", !.rule = why]]

\* guard: no support, one source, no question, wording that is not grounded.
Refused(s, p) ==
  /\ Aside(s, p, "guard")
  /\ UNCHANGED heard

\* occurrence_check: every place named is on the grid, or none could be settled
\* and a person must look.
SettledByMeasure(s, p) ==
  /\ p.about \in Measured
  /\ \/ /\ Aside(s, p, "measured")
        /\ UNCHANGED heard
     \/ /\ Aside(s, p, "unresolved")
        /\ heard' = [heard EXCEPT !.gaps = @ \cup {p.about}]

\* with_callout_context numbers its evidence past the highest id there is.
Placed(known) ==
  {t \in InFate("kept") : \E c \in proposal[t].cites : known[c[1]] = "callout"}
Callouts(known, n) ==
  {e \in Ids : \E i \in 1..n :
     e = i + CHOOSE m \in Ids : known[m] # "none" /\ \A k \in Ids : k > m => known[k] = "none"}

Keep(s, p, known) ==
  /\ \E n \in 0..(IF Cardinality(Placed(known)) < MaxPlaced THEN MaxCallouts ELSE 0) :
     LET ids == Callouts(known, n)
     IN /\ evidence' = [e \in Ids |-> IF e \in ids THEN "callout" ELSE known[e]]
        /\ proposal' = [proposal EXCEPT ![s] =
             [p EXCEPT !.fate = "kept", !.cites = @ \cup Citing(ids, "callout")]]
  /\ UNCHANGED heard

\* A kept verdict still has to pass the code's own rules.
Accept(s, p, known) ==
  \/ Refused(s, p) /\ evidence' = known
  \/ SettledByMeasure(s, p) /\ evidence' = known
  \/ Keep(s, p, known)

Verify ==
  /\ Answered("verification")
  /\ stage' = "judging"
  /\ UNCHANGED <<supply, left, unread, stopped, heard, proposal, nextId, evidence,
                 outcome>>

\* parse_decisions gave no verdict: left out, or given twice.
NoVerdict(s) ==
  /\ Aside(s, [proposal[s] EXCEPT !.first = "silent"], "silent")
  /\ UNCHANGED <<heard, nextId, evidence>>

\* by_others_kept: kept, but only for its size and place.
Kept(s) ==
  /\ \E sure \in Confidences, byOthers \in BOOLEAN :
       Accept(s, [proposal[s] EXCEPT
                    !.first = "keep",
                    !.sure = IF byOthers THEN KeptForCoordination ELSE sure], evidence)
  /\ UNCHANGED nextId

\* The rules in the order the loop tries them.
Rejected(s) ==
  \E no \in Rejections(proposal[s]) :
    LET p == [proposal[s] EXCEPT
                !.first = IF "contested" \in no THEN "contested" ELSE "reject"]
        moved == [p EXCEPT !.rule = "one_place", !.sure = KeptAsOnePlace,
                           !.cites = @ \cup Citing({nextId}, "plan")]
        ruled == no \cap {"delegated", "one_place"} # {}
        again == "contested" \in no /\ Cardinality(InFate("recheck")) < MaxElsewhere
    IN \/ /\ "delegated" \in no
          /\ Accept(s, [p EXCEPT !.sure = KeptForCoordination], evidence)
          /\ UNCHANGED nextId
       \/ /\ "delegated" \notin no /\ "one_place" \in no
          /\ nextId' = nextId + 1
          /\ Accept(s, moved, Shown({nextId}, "plan"))
       \/ /\ ~ruled /\ again
          /\ proposal' = [proposal EXCEPT ![s] = [p EXCEPT !.fate = "recheck"]]
          /\ UNCHANGED <<heard, nextId, evidence>>
       \/ /\ ~ruled /\ ~again /\ "placeless" \in no
          /\ Accept(s, [p EXCEPT !.sure = KeptForPlacement], evidence)
          /\ UNCHANGED nextId
       \/ /\ ~ruled /\ ~again /\ "placeless" \notin no
          /\ Aside(s, p, "model")
          /\ UNCHANGED <<heard, nextId, evidence>>

Judge(s) ==
  /\ stage = "judging" /\ IsNext(s, "verify")
  /\ NoVerdict(s) \/ Kept(s) \/ Rejected(s)
  /\ UNCHANGED <<stage, supply, askVars, unread, stopped, outcome>>

Judged ==
  /\ stage = "judging" /\ InFate("verify") = {}
  /\ stage' = IF InFate("recheck") = {} THEN "save" ELSE "search"
  /\ UNCHANGED <<supply, askVars, unread, stopped, heard, proposal, nextId, evidence,
                 outcome>>

-----------------------------------------------------------------------------
(* "Another drawing gives this" must be shown.                             *)

\* The sheet the rejection names, or what it says to look for, is searched for.
LookElsewhere(s) ==
  /\ stage = "search" /\ IsNext(s, "recheck")
  /\ \E n \in 0..MaxHits :
       /\ Searched(n)
       /\ proposal' = [proposal EXCEPT ![s].fate = "again",
                                       ![s].cites = @ \cup Citing(NewIds(n), "hit")]
  /\ stage' = IF InFate("recheck") = {s} THEN "recheck" ELSE "search"
  /\ UNCHANGED <<supply, askVars, unread, stopped, heard, outcome>>

Recheck ==
  /\ Answered("recheck")
  /\ stage' = "rejudging"
  /\ UNCHANGED <<supply, left, unread, stopped, heard, proposal, nextId, evidence,
                 outcome>>

\* Mutant: a second rejection is taken whatever it shows.
RejudgeOnce(s) ==
  /\ stage = "rejudging" /\ IsNext(s, "again")
  /\ \/ \E sure \in Confidences :
          Accept(s, [proposal[s] EXCEPT !.again = "keep", !.sure = Modest(sure)], evidence)
     \/ \E word \in {"reject", "contested", "silent"} :
          /\ Aside(s, [proposal[s] EXCEPT !.again = word], "rechecked")
          /\ UNCHANGED <<heard, evidence>>
  /\ stage' = IF InFate("again") = {s} THEN "save" ELSE "rejudging"
  /\ UNCHANGED <<supply, askVars, unread, stopped, nextId, outcome>>

\* Kept now: never more than medium.  Rejected and shown: set aside.  Rejected
\* without an answer to where it is, without showing it, or not answered: low.
Rejudge(s) ==
  /\ stage = "rejudging" /\ IsNext(s, "again")
  /\ \/ \E sure \in Confidences :
          Accept(s, [proposal[s] EXCEPT !.again = "keep", !.sure = Modest(sure)], evidence)
     \/ /\ proposal[s].from # "values"
        /\ Accept(s, [proposal[s] EXCEPT !.again = "placeless",
                                         !.sure = KeptForPlacement], evidence)
     \/ /\ Aside(s, [proposal[s] EXCEPT !.again = "reject"], "rechecked")
        /\ UNCHANGED <<heard, evidence>>
     \/ \E word \in {"contested", "silent"} :
          Accept(s, [proposal[s] EXCEPT !.again = word, !.sure = Overruled], evidence)
  /\ stage' = IF InFate("again") = {s} THEN "save" ELSE "rejudging"
  /\ UNCHANGED <<supply, askVars, unread, stopped, nextId, outcome>>

-----------------------------------------------------------------------------
(* Saving.                                                                 *)

\* check_results: one outcome for every question.
CheckResult(q, exact, gaps) ==
  CASE q \in exact \cup {proposal[s].about : s \in InFate("kept")}
         -> "candidate_found"
    [] OTHER -> IF stopped THEN "failed"
                ELSE IF q \in heard.apart \ heard.seen THEN "not_applicable"
                ELSE IF q \in gaps \/ (q \in heard.seen /\ unread) \/ q \notin heard.seen
                       THEN "insufficient_evidence"
                ELSE "complete_no_issue"

\* A library question is the model's word alone: never above medium.
Filed(p) ==
  IF p.fate = "kept" /\ p.about \in Library THEN [p EXCEPT !.sure = Modest(@)] ELSE p

\* What the code found by exact comparison is filed first; places measured off the
\* grid that no finding covers are gaps as well (uncovered_occurrences).
Save ==
  /\ stage = "save"
  /\ \E exact \in SUBSET Questions, uncovered \in SUBSET Measured :
       outcome' = [q \in Questions |-> CheckResult(q, exact, heard.gaps \cup uncovered)]
  /\ proposal' = [s \in Slots |-> Filed(proposal[s])]
  /\ stage' = IF unread \/ stopped THEN "partial" ELSE "ready"
  /\ UNCHANGED <<supply, askVars, unread, stopped, heard, nextId, evidence>>

Over == stage \in {"ready", "partial", "failed"} /\ UNCHANGED vars

Next ==
  \/ Pack \/ Stop \/ CallFails \/ Unusable
  \/ Discover \/ CompleteInventory \/ CompleteGridSpans \/ NothingObserved \/ Reason
  \/ Settled \/ Verify \/ Judged \/ Recheck \/ Save \/ Over
  \/ \E s \in Slots : Settle(s) \/ Judge(s) \/ LookElsewhere(s) \/ Rejudge(s)

Spec == Init /\ [][Next]_vars

-----------------------------------------------------------------------------
(* Properties.                                                             *)

Stages == Asking \cup {"evidence", "settle", "judging", "search", "rejudging", "save",
                       "ready", "partial", "failed"}
Fates == {"none", "proposed", "verify", "recheck", "again", "kept", "aside"}
Proposals ==
  [fate : Fates, about : Questions, from : {"model", "values"}, sought : {"no", "yes"},
   first : {"none", "silent", "keep", "contested", "reject"},
   again : {"none", "keep", "placeless", "reject", "contested", "silent"},
   rule : {"none", "schedule", "measured", "unresolved", "guard", "silent", "model",
           "rechecked", "one_place"},
   sure : Confidences, cites : SUBSET (Nat \X Kinds)]
Outcomes == {"none", "candidate_found", "failed", "not_applicable",
             "insufficient_evidence", "complete_no_issue"}

\* Every variable has its type: no more calls are made than the depth allows.
TypeOK ==
  /\ stage \in Stages
  /\ supply \in Seq(Seq(1..MaxTokens))
  /\ left \in 0..MaxBatches
  /\ ask \in [attempt : {1, 2}, tries : 0..MaxTries]
  /\ ceiling \in BOOLEAN /\ unread \in BOOLEAN /\ stopped \in BOOLEAN
  /\ heard \in [seen : SUBSET Questions, gaps : SUBSET Questions,
                apart : SUBSET Questions, cut : SUBSET Questions,
                past : SUBSET Questions]
  /\ proposal \in [Slots -> Proposals]
  /\ nextId \in Nat
  /\ evidence \in [Ids -> Kinds]
  /\ outcome \in [Questions -> Outcomes]

\* discovery_batches: a call holds no more than it can take, unless it is one
\* piece of evidence; two neighbours could not have shared a call; and the calls
\* are the evidence, whole and in order.
CallsFit ==
  stage = "evidence" =>
    LET calls == Calls(supply)
    IN /\ \A i \in DOMAIN calls : Tokens(calls[i]) <= Capacity \/ Len(calls[i]) = 1
       /\ \A i \in 1..(Len(calls) - 1) :
            Tokens(calls[i]) + Tokens(calls[i + 1]) > Capacity
       /\ FlattenSeq(calls) = FlattenSeq(supply)

\* "No issue" is claimed only of a question that was observed, whose evidence was
\* all read by a run that was not stopped, and whose every proposal taken up for
\* judging was settled against it; and a run is "ready" only with every proposal
\* taken up on file or set aside.  What was raised about the question and not taken
\* up was left out by a cap that was full: a proposal by MAX_CANDIDATES
\* (rfi_review.py:1276, 4007), an absence by that or by MAX_UNCLAIMED (1837, 4008).
\* "Never silently to "no issue"" (1810) is more than the code keeps to.
NoIssueIsEarned ==
  /\ \A q \in Questions : outcome[q] = "complete_no_issue" =>
       /\ stage = "ready" /\ q \in heard.seen \ heard.gaps
       /\ \A s \in Proposed : proposal[s].about = q =>
            proposal[s].fate = "aside" /\ proposal[s].rule # "unresolved"
       /\ q \in heard.past => Proposed = Slots
       /\ q \in heard.cut => Slots \cap 1..MaxUnclaimed \subseteq Proposed
  /\ stage = "ready" => \A s \in Proposed : proposal[s].fate \in {"kept", "aside"}

\* "Another drawing gives this" sets a proposal aside only once the model, asked
\* again, said something that can be checked, or when MAX_ELSEWHERE_CHECKS
\* earlier proposals had already been asked about again.
ElsewhereIsShown ==
  \A s \in InFate("aside") :
    proposal[s].first = "contested" /\ proposal[s].rule \in {"model", "rechecked"} =>
      \/ proposal[s].again = "reject"
      \/ Cardinality({t \in 1..(s - 1) : \/ proposal[t].again # "none"
                                         \/ proposal[t].fate \in {"recheck", "again"}})
           = MaxElsewhere

\* What verification rejected is on file at low confidence, at medium when it was
\* kept on being asked again or a plan draws both details at one place; and a
\* library question is never filed above medium.
PushedBackIsModest ==
  \A s \in InFate("kept") :
    /\ proposal[s].first \in {"reject", "contested"} =>
         \/ proposal[s].sure = "low"
         \/ /\ proposal[s].sure = "medium"
            /\ proposal[s].again = "keep" \/ proposal[s].rule = "one_place"
    /\ stage \in {"ready", "partial"} /\ proposal[s].about \in Library =>
         proposal[s].sure # "high"

\* What a kept proposal cites is what is saved as its evidence.
EvidenceStands ==
  \A s \in InFate("kept") : \A c \in proposal[s].cites : evidence[c[1]] = c[2]

=============================================================================
