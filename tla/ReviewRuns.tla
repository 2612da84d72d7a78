----------------------------- MODULE ReviewRuns -----------------------------
(***************************************************************************)
(* The targeted reviews of one approved scope (routes/rfiReview.ts,        *)
(* rfi_review.run): planned, started by requests that may be repeated or   *)
(* overlap, cancelled by people, run by workers that look at the row       *)
(* between stages, fail, die, and are given the same job again.            *)
(*                                                                         *)
(* A read, a conditional update or an update by id is one action.  What a  *)
(* stage makes of its answers is module ReviewFindings.                    *)
(***************************************************************************)
EXTENDS Integers, FiniteSets

CONSTANTS
  Runs, NoRun, \* reviews planned with one and the same scope
  Keys, NoKey, \* Idempotency-Key headers
  Requests,    \* start requests being served at a time
  Workers,     \* executions of the handler, in any worker process
  NoWorker,
  MaxStalls,   \* how often BullMQ forgives a job that stalls
  MaxChanges,  \* bounds changes of the drawings and of the members
  MaxFaults    \* bounds crashes, lapses and lost jobs

ASSUME ReviewRunsAssumption ==
  /\ NoRun \notin Runs /\ NoKey \notin Keys /\ NoWorker \notin Workers
  /\ MaxStalls \in Nat /\ MaxChanges \in Nat /\ MaxFaults \in Nat

VARIABLES
  row,      \* rfi_review_runs: status, idempotencyKey, and whether the
            \* heartbeat is older than STALE_REVIEW_MS
  job,      \* the job rfi-review-<id>, its holder, how often it stalled
  request,  \* startReview: where it is, for which run, with which key
  exec,     \* rfi_review.run: where it is, for which run
  current,  \* the plan's evidence is still what the project holds
  allowed,  \* who started the reviews may still see the project
  changes, faults,
  starts,   \* history: how often each run was claimed
  stopped,  \* history: runs a person has cancelled
  escaped,  \* history: of these, the ones whose cancel was written over
  excused   \* history: a twin was let through, or came back, unseen

bounds == <<changes, faults>>
world == <<current, allowed>>
history == <<starts, stopped, escaped, excused>>
vars == <<row, job, request, exec, world, bounds, history>>

Statuses == {"planned", "queued", "running", "ready", "partial", "failed",
             "cancelled", "stale"}
NoJob == [state |-> "none", holder |-> NoWorker, stalls |-> 0]
NoRequest == [pc |-> "free", run |-> NoRun, key |-> NoKey]
NoExec == [pc |-> "free", run |-> NoRun]

Init ==
  /\ row = [r \in Runs |-> [status |-> "planned", key |-> NoKey, heart |-> "beats"]]
  /\ job = [r \in Runs |-> NoJob]
  /\ request = [q \in Requests |-> NoRequest]
  /\ exec = [w \in Workers |-> NoExec]
  /\ current = TRUE /\ allowed = TRUE
  /\ changes = 0 /\ faults = 0
  /\ starts = [r \in Runs |-> 0]
  /\ stopped = {} /\ escaped = {} /\ excused = FALSE

InHand(r) == {w \in Workers : exec[w].pc # "free" /\ exec[w].run = r}
SetStatus(r, s) == row' = [row EXCEPT ![r].status = s]

(***************************************************************************)
(* The API.                                                                *)
(***************************************************************************)

\* Mutant: only a running review is active.
ActiveOnceRunning(r) == row[r].status = "running" /\ row[r].heart = "beats"

\* reviewIsActive: a queued review by its job, a running one by its heartbeat.
ReviewIsActive(r) ==
  \/ row[r].status = "queued" /\ job[r].state \in {"waiting", "active"}
  \/ row[r].status = "running" /\ row[r].heart = "beats"

Step(q, pc) == request' = [request EXCEPT ![q].pc = pc]
Answer(q) == request' = [request EXCEPT ![q] = NoRequest]

\* A start request reads the run; a repeat or a run that is not planned ends it.
AskStart(q, r, k) ==
  /\ request[q].pc = "free"
  /\ row[r].status = "planned" /\ \A t \in Runs : row[t].key # k
  /\ request' = [request EXCEPT ![q] = [pc |-> "evidence", run |-> r, key |-> k]]
  /\ UNCHANGED <<row, job, exec, world, bounds, history>>

\* A plan whose evidence has changed is refused, and marked so.
CheckEvidence(q) ==
  LET r == request[q].run
  IN /\ request[q].pc = "evidence"
     /\ IF current
          THEN Step(q, "twins") /\ UNCHANGED row
          ELSE /\ Answer(q)
               /\ IF row[r].status = "planned" THEN SetStatus(r, "stale")
                                               ELSE UNCHANGED row
     /\ UNCHANGED <<job, exec, world, bounds, history>>

\* A request for another run that has passed its own look and not queued its job
\* is not seen, nor is a run whose worker has been silent or whose job was failed.
Unseen(q, t) ==
  \/ \E p \in Requests \ {q} : request[p].run = t /\ request[p].pc \in {"claim", "add"}
  \/ row[t].status = "running" /\ row[t].heart = "silent"
  \/ row[t].status = "queued" /\ job[t].state \in {"none", "done"}

\* "The same approved scope twice at once would pay twice for one answer."
CheckTwins(q) ==
  LET twins == Runs \ {request[q].run}
  IN /\ request[q].pc = "twins"
     /\ IF \E t \in twins : ReviewIsActive(t)
          THEN Answer(q) /\ UNCHANGED excused
          ELSE /\ Step(q, "claim")
               /\ excused' = (excused \/ \E t \in twins : Unseen(q, t))
     /\ UNCHANGED <<row, job, exec, world, bounds, starts, stopped, escaped>>

Claimed(q) ==
  LET r == request[q].run
  IN /\ row' = [row EXCEPT ![r].status = "queued", ![r].key = request[q].key]
     /\ starts' = [starts EXCEPT ![r] = @ + 1]
     /\ Step(q, "add")

\* Mutant: the claim is an update by id.
ClaimById(q) ==
  /\ request[q].pc = "claim"
  /\ Claimed(q)
  /\ UNCHANGED <<job, exec, world, bounds, stopped, escaped, excused>>

\* The claim: a conditional update, of a row without a key, under the unique index
\* on the key.
Claim(q) ==
  LET r == request[q].run
  IN /\ request[q].pc = "claim"
     /\ IF /\ row[r].status = "planned" /\ row[r].key = NoKey
           /\ \A t \in Runs : row[t].key # request[q].key
          THEN Claimed(q)
          ELSE Answer(q) /\ UNCHANGED <<row, starts>>
     /\ UNCHANGED <<job, exec, world, bounds, stopped, escaped, excused>>

\* rfiReviewQueue.add, under an id of the run.
AddJob(q) ==
  LET r == request[q].run
  IN /\ request[q].pc = "add"
     /\ job' = IF job[r].state = "none" THEN [job EXCEPT ![r].state = "waiting"] ELSE job
     /\ Answer(q)
     /\ UNCHANGED <<row, exec, world, bounds, history>>

\* The API dies, or cannot reach the queue, in between.
LoseJob(q) ==
  /\ request[q].pc = "add" /\ faults < MaxFaults
  /\ faults' = faults + 1
  /\ Answer(q)
  /\ UNCHANGED <<row, job, exec, world, changes, history>>

\* "A planned or queued one stops at once; a running one at its next stage
\* boundary."  An execution that has read the row and not written it goes on.
Cancel(r) ==
  /\ row[r].status \in {"planned", "queued", "running"}
  /\ SetStatus(r, "cancelled")
  /\ stopped' = stopped \cup {r}
  /\ escaped' = IF \E w \in InHand(r) : exec[w].pc = "read" THEN escaped \cup {r}
                ELSE escaped
  /\ UNCHANGED <<job, request, exec, world, bounds, starts, excused>>

\* A document is revised or excluded; a member leaves the project.
Change ==
  /\ changes < MaxChanges
  /\ changes' = changes + 1
  /\ \/ current' = FALSE /\ UNCHANGED allowed
     \/ allowed' = FALSE /\ UNCHANGED current
  /\ UNCHANGED <<row, job, request, exec, faults, history>>

(***************************************************************************)
(* The worker.                                                             *)
(***************************************************************************)

Stages == {"discovery", "reasoning", "verification"}
Goto(w, pc) == exec' = [exec EXCEPT ![w].pc = pc]

\* The job ends with the execution that still holds it.
Done(w) ==
  LET r == exec[w].run
  IN /\ exec' = [exec EXCEPT ![w] = NoExec]
     /\ job' = IF job[r].state = "active" /\ job[r].holder = w
               THEN [job EXCEPT ![r].state = "done", ![r].holder = NoWorker] ELSE job

\* load_run: a run that is over is skipped, but for one that failed.
Take(w, r) ==
  /\ exec[w].pc = "free" /\ job[r].state = "waiting"
  /\ IF row[r].status \in {"cancelled", "stale", "ready", "partial"}
       THEN job' = [job EXCEPT ![r].state = "done"] /\ UNCHANGED exec
       ELSE /\ job' = [job EXCEPT ![r].state = "active", ![r].holder = w]
            /\ exec' = [exec EXCEPT ![w] = [pc |-> "read", run |-> r]]
  /\ UNCHANGED <<row, request, world, bounds, history>>

\* "running" is written by id alone; the heartbeat starts.
SetRunning(w) ==
  LET r == exec[w].run
  IN /\ exec[w].pc = "read"
     /\ row' = [row EXCEPT ![r].status = "running", ![r].heart = "beats"]
     /\ excused' = (excused \/ row[r].status \notin {"queued", "running"})
     /\ Goto(w, "head")
     /\ UNCHANGED <<job, request, world, bounds, starts, stopped, escaped>>

\* A write over the row at the end of an execution: over a cancel as well.
Ends(w, s) ==
  LET r == exec[w].run
  IN /\ SetStatus(r, s)
     /\ escaped' = IF row[r].status = "cancelled" /\ s # "cancelled"
                   THEN escaped \cup {r} ELSE escaped
     /\ Done(w)
     /\ UNCHANGED <<request, world, bounds, starts, stopped, excused>>

\* The head of _run: the evidence and the person's access, once more.
Begin(w) ==
  /\ exec[w].pc = "head"
  /\ IF ~current THEN Ends(w, "stale")
     ELSE IF ~allowed THEN Ends(w, "cancelled")
     ELSE Goto(w, "discovery") /\ UNCHANGED <<row, job, request, world, bounds, history>>

Following == [discovery |-> "reasoning", reasoning |-> "verification",
              verification |-> "saving"]

\* Mutant: between stages only the person's access is asked for.
CheckpointForAccess(w) ==
  /\ exec[w].pc \in Stages
  /\ IF ~allowed THEN Ends(w, "cancelled")
     ELSE /\ Goto(w, Following[exec[w].pc])
          /\ UNCHANGED <<row, job, request, world, bounds, history>>

\* _checkpoint, between stages.
Checkpoint(w) ==
  /\ exec[w].pc \in Stages
  /\ IF row[exec[w].run].status = "cancelled" \/ ~allowed THEN Ends(w, "cancelled")
     ELSE /\ Goto(w, Following[exec[w].pc])
          /\ UNCHANGED <<row, job, request, world, bounds, history>>

\* _ask looks at the row as well before it repeats a call that failed.
NoticeCancel(w) ==
  /\ exec[w].pc \in Stages
  /\ row[exec[w].run].status = "cancelled"
  /\ Ends(w, "cancelled")

\* Nothing observed, or the token ceiling: what there is is saved, without a look
\* at the row.
SkipToSaving(w) ==
  /\ exec[w].pc \in Stages
  /\ Goto(w, "saving")
  /\ UNCHANGED <<row, job, request, world, bounds, history>>

\* The findings in one transaction ...
File(w) ==
  /\ exec[w].pc = "saving"
  /\ Goto(w, "filed")
  /\ UNCHANGED <<row, job, request, world, bounds, history>>

\* ... and the outcome in another.
WriteOutcome(w) ==
  /\ exec[w].pc = "filed"
  /\ \E s \in {"ready", "partial"} : Ends(w, s)

\* StageFailed, or any other exception.
Fail(w) ==
  /\ exec[w].pc \in Stages \cup {"head", "saving", "filed"}
  /\ Ends(w, "failed")

(***************************************************************************)
(* Faults and time.                                                        *)
(***************************************************************************)

Crash(w) ==
  /\ exec[w].pc # "free" /\ faults < MaxFaults
  /\ faults' = faults + 1
  /\ exec' = [exec EXCEPT ![w] = NoExec]
  /\ UNCHANGED <<row, job, request, world, changes, history>>

\* A job whose lock is gone is given away again, or failed.
Stalled(r) ==
  job' = [job EXCEPT ![r] =
    [state |-> IF @.stalls < MaxStalls THEN "waiting" ELSE "done",
     holder |-> NoWorker,
     stalls |-> IF @.stalls < MaxStalls THEN @.stalls + 1 ELSE @.stalls]]

StallJob(r) ==
  /\ job[r].state = "active" /\ job[r].holder \notin InHand(r)
  /\ Stalled(r)
  /\ UNCHANGED <<row, request, exec, world, bounds, history>>

\* The worker is alive, and late in renewing its lock.
Lapse(r) ==
  /\ job[r].state = "active" /\ job[r].holder \in InHand(r)
  /\ faults < MaxFaults
  /\ faults' = faults + 1
  /\ Stalled(r)
  /\ UNCHANGED <<row, request, exec, world, changes, history>>

\* STALE_REVIEW_MS pass without a heartbeat.
GoSilent(r) ==
  /\ row[r].status = "running" /\ row[r].heart = "beats" /\ InHand(r) = {}
  /\ row' = [row EXCEPT ![r].heart = "silent"]
  /\ UNCHANGED <<job, request, exec, world, bounds, history>>

-----------------------------------------------------------------------------
Serve(q) == CheckEvidence(q) \/ CheckTwins(q) \/ Claim(q) \/ AddJob(q)

Work(w) ==
  \/ \E r \in Runs : Take(w, r)
  \/ SetRunning(w) \/ Begin(w) \/ Checkpoint(w) \/ NoticeCancel(w)
  \/ SkipToSaving(w) \/ File(w) \/ WriteOutcome(w) \/ Fail(w)

Next ==
  \/ \E q \in Requests : \/ \E r \in Runs, k \in Keys : AskStart(q, r, k)
                         \/ Serve(q) \/ LoseJob(q)
  \/ \E r \in Runs : Cancel(r) \/ StallJob(r) \/ Lapse(r) \/ GoSilent(r)
  \/ Change
  \/ \E w \in Workers : Work(w) \/ Crash(w)

Spec == Init /\ [][Next]_vars

-----------------------------------------------------------------------------
(* Properties.                                                             *)

\* Every variable has its type.
TypeOK ==
  /\ row \in [Runs -> [status : Statuses, key : Keys \cup {NoKey}, heart : {"beats", "silent"}]]
  /\ job \in [Runs -> [state : {"none", "waiting", "active", "done"},
                       holder : Workers \cup {NoWorker}, stalls : 0..MaxStalls]]
  /\ request \in [Requests -> [pc : {"free", "evidence", "twins", "claim", "add"},
                               run : Runs \cup {NoRun}, key : Keys \cup {NoKey}]]
  /\ exec \in [Workers -> [pc : Stages \cup {"free", "read", "head", "saving", "filed"},
                           run : Runs \cup {NoRun}]]
  /\ current \in BOOLEAN /\ allowed \in BOOLEAN
  /\ changes \in 0..MaxChanges /\ faults \in 0..MaxFaults
  /\ starts \in [Runs -> Nat]
  /\ stopped \in SUBSET Runs /\ escaped \in SUBSET Runs /\ excused \in BOOLEAN

\* "A double click, a retried request or two tabs must not pay twice": a run is
\* claimed once, and a key names one run.
StartedOnce ==
  /\ \A r \in Runs : starts[r] <= 1
  /\ \A r, t \in Runs : row[r].key = row[t].key /\ row[r].key # NoKey => r = t

Enters(w, stages) == exec'[w].pc \in stages /\ exec'[w].pc # exec[w].pc

\* Once a person has cancelled a run, no execution of it begins another stage (the
\* first one begins with its evidence, at "head"); once who started it is out of
\* the project, none makes a call; except after a cancel that fell between an
\* execution's reading of the row and its writing of it, or that another execution
\* wrote over when it ended.
CancelHeeded ==
  [][\A w \in Workers :
       /\ Enters(w, {"head", "reasoning", "verification"}) =>
            exec[w].run \notin stopped \ escaped
       /\ Enters(w, Stages) => allowed]_vars

Paying(r) == row[r].status = "running" /\ \E w \in InHand(r) : exec[w].pc \in Stages

\* Two reviews of one scope are paid for at once only when their requests passed
\* the check before either had queued its job, or one had looked dead, or over,
\* and came back.
TwinsAreRefused ==
  \A r, t \in Runs : r # t /\ Paying(r) /\ Paying(t) => excused
=============================================================================
