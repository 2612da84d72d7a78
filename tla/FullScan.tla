------------------------------ MODULE FullScan ------------------------------
(***************************************************************************)
(* One full AI scan of a project's drawings (routes/rfiFullScan.ts,        *)
(* rfiAutoStart.ts, workers/src/fullscan.py, fullscan_run.py): it is       *)
(* planned without a model, priced, started by a person or by itself       *)
(* under a ceiling of tokens, looks at pairs of areas twice, and may be    *)
(* cancelled, run out of budget, fail, die and be resumed.                 *)
(*                                                                         *)
(* A transaction or call is one action.  A call to the model costs one     *)
(* unit, which is what the code reserves for it; an area ("tile") raises   *)
(* at most one possible problem.  What the pages and the model say is any  *)
(* of the outcomes the code tells apart.                                   *)
(***************************************************************************)
EXTENDS Integers, FiniteSets

CONSTANTS
  Tiles,        \* pairs of areas a plan may contain, in the order they are taken
  NoTile,
  Workers,      \* executions of a job at a time, in any worker process
  Limits,       \* ceilings a person may set, in calls
  Concurrency,  \* CALL_CONCURRENCY, or the size of a batch wave
  MaxResumes,   \* bounds how often the scan is resumed
  MaxChanges,   \* bounds how often the drawings change
  MaxFaults     \* bounds crashes, lapsed locks, exceptions and lost requests

ASSUME FullScanAssumption ==
  /\ Tiles \subseteq Nat /\ IsFiniteSet(Tiles) /\ NoTile \notin Tiles
  /\ Limits \subseteq Nat \ {0}
  /\ Concurrency \in Nat \ {0}
  /\ MaxResumes \in Nat /\ MaxChanges \in Nat /\ MaxFaults \in Nat

VARIABLES
  scan,      \* the row of rfi_full_scans
  code,      \* the RFI scan that prepares the plan, if one does
  tile,      \* what each row of rfi_full_scan_tiles says
  found,     \* tiles whose finding is a row of rfi_candidates
  adding,    \* requests that have written the row and not queued the job yet
  jobs,      \* jobs waiting in the queue
  resuming,  \* what a resume request has read, and the limit it sets
  exec,      \* executions of the worker's handlers
  spent,     \* calls in the usage ledger
  drawings,  \* version of the project's set of drawings
  resumes, faults,  \* how much of the bounds is used
  ceiling,   \* history: the highest limit ever set
  repeats,   \* history: calls asked a second time, which nothing reserves
  doubled    \* history: the scan was in two executions' hands at once

rowVars == <<scan, code, tile, found>>
queueVars == <<adding, jobs, resuming>>
boundVars == <<drawings, resumes, faults>>
historyVars == <<ceiling, repeats, doubled>>
vars == <<rowVars, queueVars, exec, spent, boundVars, historyVars>>

Statuses == {"planning", "planned", "queued", "running", "ready", "partial",
             "failed", "cancelled", "stale"}
Modes == {"plan", "checks", "run"}
NoJobs == [m \in Modes |-> 0]
NoResume == [status |-> "none", limit |-> 0]
NoCalls == [t \in Tiles |-> "none"]
NoExec == [mode |-> "plan", pc |-> "idle", late |-> FALSE, limit |-> 0,
           seen |-> 0, copy |-> 0, todo |-> {}, next |-> NoTile,
           call |-> NoCalls, stop |-> "no"]

Init ==
  /\ scan = [status |-> "none", silent |-> FALSE, started |-> FALSE,
             auto |-> "off", limit |-> 0, sourced |-> 0, built |-> 0,
             copy |-> 0]
  /\ code = "none"
  /\ tile = [t \in Tiles |-> "skipped"]
  /\ found = {}
  /\ adding = NoJobs
  /\ jobs = NoJobs
  /\ resuming = NoResume
  /\ exec = [w \in Workers |-> NoExec]
  /\ spent = 0
  /\ drawings = 0
  /\ resumes = 0
  /\ faults = 0
  /\ ceiling = 0
  /\ repeats = 0
  /\ doubled = FALSE

-----------------------------------------------------------------------------
(* What the row says: rfiFullScanRules.ts.                                 *)

Active == {"planning", "queued", "running"}

\* Mutant: a scan is active as long as its row says so.
ScanIsActiveForEver == scan.status \in Active

\* A worker is on it: it was heard of in the last STALE_FULL_SCAN_MS.
ScanIsActive == scan.status \in Active /\ ~scan.silent

ShownStatus ==
  IF scan.status \in Active /\ ~ScanIsActive THEN "failed" ELSE scan.status

CanResume ==
  /\ ShownStatus \in {"partial", "failed"}
  /\ \E t \in Tiles : tile[t] # "skipped"

Live(w) == exec[w].pc # "idle"
Becomes(w, e) == exec' = [exec EXCEPT ![w] = e]

\* No heartbeat for ten minutes: nothing has the scan in hand.
GoSilent ==
  /\ ScanIsActive
  /\ \A w \in Workers : ~Live(w)
  /\ scan' = [scan EXCEPT !.silent = TRUE]
  /\ UNCHANGED <<code, tile, found, queueVars, exec, spent, boundVars,
                 historyVars>>

-----------------------------------------------------------------------------
(* Requests.                                                               *)

\* POST / : the row, and then its job.
AskPlan ==
  /\ scan.status = "none"
  /\ scan' = [scan EXCEPT !.status = "planning"]
  /\ adding' = [adding EXCEPT !["plan"] = @ + 1]
  /\ UNCHANGED <<code, tile, found, jobs, resuming, exec, spent, boundVars,
                 historyVars>>

\* prepareStepTwo: the plan is made by an RFI scan, with the limit under which
\* it may start by itself, if the project has one.
AskChecks(auto) ==
  /\ scan.status = "none"
  /\ scan' = [scan EXCEPT !.status = "planning", !.auto = auto]
  /\ code' = "running"
  /\ adding' = [adding EXCEPT !["checks"] = @ + 1]
  /\ UNCHANGED <<tile, found, jobs, resuming, exec, spent, boundVars,
                 historyVars>>

AddJob(m) ==
  /\ adding[m] > 0
  /\ adding' = [adding EXCEPT ![m] = @ - 1]
  /\ jobs' = [jobs EXCEPT ![m] = @ + 1]
  /\ UNCHANGED <<rowVars, resuming, exec, spent, boundVars, historyVars>>

\* The API dies, or the queue cannot be reached.
LoseJob(m) ==
  /\ adding[m] > 0
  /\ faults < MaxFaults
  /\ faults' = faults + 1
  /\ adding' = [adding EXCEPT ![m] = @ - 1]
  /\ UNCHANGED <<rowVars, jobs, resuming, exec, spent, drawings, resumes,
                 historyVars>>

\* Mutant: nothing asks whether the scan was started before.
ClaimAgain(l, auto) ==
  /\ scan.status = "planned"
  /\ scan' = [scan EXCEPT !.status = "queued", !.started = TRUE,
                          !.limit = l, !.silent = FALSE, !.auto = auto]

\* The conditional update of the start route and of the one-click start: one
\* request of any number gets it.
Claim(l, auto) ==
  /\ scan.status = "planned"
  /\ ~scan.started
  /\ scan' = [scan EXCEPT !.status = "queued", !.started = TRUE,
                          !.limit = l, !.silent = FALSE, !.auto = auto]

Higher(l) == IF l > ceiling THEN l ELSE ceiling

\* Something to look at, the claim, and the job still to be queued.
Begin(l, auto) ==
  /\ \E t \in Tiles : tile[t] # "skipped"
  /\ Claim(l, auto)
  /\ adding' = [adding EXCEPT !["run"] = @ + 1]
  /\ ceiling' = Higher(l)
  /\ UNCHANGED <<code, tile, found, jobs, resuming, exec, spent, boundVars,
                 repeats, doubled>>

\* POST /:scanId/start.
Start(l) == Begin(l, scan.auto)

\* maybeAutoStart, once the RFI scan has saved its findings: over the limit,
\* with no price or key, or with nothing to look at, it is left to a person.
AutoStart(l) ==
  /\ scan.auto = "undecided"
  /\ code \in {"none", "completed"}
  /\ Begin(l, "decided")

AutoWait ==
  /\ scan.auto = "undecided"
  /\ code \in {"none", "completed"}
  /\ scan.status = "planned"
  /\ scan' = [scan EXCEPT !.auto = "decided"]
  /\ UNCHANGED <<code, tile, found, queueVars, exec, spent, boundVars,
                 historyVars>>

\* POST /:scanId/resume up to its write: the status read, and a ceiling above
\* what is spent or the one there is.
ReadForResume(l) ==
  /\ resuming = NoResume
  /\ resumes < MaxResumes
  /\ CanResume
  /\ scan.started
  /\ l = scan.limit \/ l > spent
  /\ resuming' = [status |-> scan.status, limit |-> l]
  /\ resumes' = resumes + 1
  /\ UNCHANGED <<rowVars, adding, jobs, exec, spent, drawings, faults,
                 historyVars>>

\* Mutant: the write carries no condition.
WriteResumeAnyway ==
  /\ resuming # NoResume
  /\ resuming' = NoResume
  /\ scan' = [scan EXCEPT !.status = "queued", !.silent = FALSE,
                          !.limit = resuming.limit]
  /\ adding' = [adding EXCEPT !["run"] = @ + 1]
  /\ ceiling' = Higher(resuming.limit)
  /\ UNCHANGED <<code, tile, found, jobs, exec, spent, boundVars, repeats,
                 doubled>>

\* The write, if the status is still the one read.
WriteResume ==
  /\ resuming # NoResume
  /\ resuming' = NoResume
  /\ IF scan.status = resuming.status
     THEN /\ scan' = [scan EXCEPT !.status = "queued", !.silent = FALSE,
                                  !.limit = resuming.limit]
          /\ adding' = [adding EXCEPT !["run"] = @ + 1]
          /\ ceiling' = Higher(resuming.limit)
     ELSE UNCHANGED <<scan, adding, ceiling>>
  /\ UNCHANGED <<code, tile, found, jobs, exec, spent, boundVars, repeats,
                 doubled>>

\* POST /:scanId/cancel, and what else gives up a plan: a new plan in place of
\* one that was not started, and the RFI scan behind it being stopped.
Cancel ==
  /\ scan.status \in {"planning", "planned", "queued", "running"}
  /\ scan' = [scan EXCEPT !.status = "cancelled"]
  /\ UNCHANGED <<code, tile, found, queueVars, exec, spent, boundVars,
                 historyVars>>

\* POST /scan/stop of the RFI scan; its update of this row is a Cancel.
StopChecks ==
  /\ code = "running"
  /\ code' = "failed"
  /\ UNCHANGED <<scan, tile, found, queueVars, exec, spent, boundVars,
                 historyVars>>

\* A document is added, replaced, removed or excluded.
ChangeDrawings ==
  /\ drawings < MaxChanges
  /\ drawings' = drawings + 1
  /\ UNCHANGED <<rowVars, queueVars, exec, spent, resumes, faults,
                 historyVars>>

-----------------------------------------------------------------------------
(* Taking a job.  A job whose scan has moved on is done at once.           *)

\* Another execution that still writes the row or its tiles.
InHand(w) == \E v \in Workers \ {w} : exec[v].pc \notin {"idle", "rest"}

Take(w, m, wanted, e) ==
  /\ jobs[m] > 0
  /\ ~Live(w)
  /\ jobs' = [jobs EXCEPT ![m] = @ - 1]
  /\ IF wanted THEN Becomes(w, [e EXCEPT !.mode = m]) ELSE UNCHANGED exec
  /\ doubled' = (doubled \/ (wanted /\ e.pc # "rest" /\ InHand(w)))
  /\ UNCHANGED <<code, tile, found, adding, resuming, spent, boundVars,
                 ceiling, repeats>>

\* run_plan; the heartbeat starts.
TakePlan(w) ==
  /\ Take(w, "plan", scan.status = "planning",
          [NoExec EXCEPT !.pc = "planning", !.seen = drawings])
  /\ scan' = [scan EXCEPT !.silent = @ /\ scan.status # "planning"]

\* rfi_scan.run, and whether it has a plan to make.
TakeChecks(w) ==
  LET asked == scan.status = "planning"
  IN  /\ Take(w, "checks", code = "running",
              [NoExec EXCEPT !.pc = IF asked THEN "planning" ELSE "rest",
                             !.seen = drawings])
      /\ scan' = [scan EXCEPT !.silent = @ /\ ~(asked /\ code = "running")]

\* fullscan_run.run loads the row.
TakeRun(w) ==
  /\ Take(w, "run", scan.status \in {"queued", "running"},
          [NoExec EXCEPT !.pc = "taken", !.limit = scan.limit,
                         !.seen = scan.sourced])
  /\ UNCHANGED scan

-----------------------------------------------------------------------------
(* Planning: run_plan, or the part of an RFI scan that plans.              *)

At(w, pc) == exec[w].pc = pc
Goto(w, pc) == Becomes(w, [exec[w] EXCEPT !.pc = pc])
Quit(w) == Becomes(w, NoExec)

\* Where a planning execution goes on when it is done with the plan.
AfterPlan(w) ==
  IF exec[w].mode = "checks" /\ code = "running" THEN Goto(w, "rest") ELSE Quit(w)

\* _check_cancel, now and then.
NoticePlanCancelled(w) ==
  /\ At(w, "planning")
  /\ scan.status = "cancelled"
  /\ AfterPlan(w)
  /\ UNCHANGED <<rowVars, queueVars, spent, boundVars, historyVars>>

\* write_plan, its first transaction: the tiles of an earlier attempt go, and
\* those the code did not settle are pending.
WriteTiles(w) ==
  /\ At(w, "planning")
  /\ \E settled \in SUBSET Tiles :
       tile' = [t \in Tiles |-> IF t \in settled THEN "skipped" ELSE "pending"]
  /\ scan' = [scan EXCEPT !.copy = @ + 1, !.built = exec[w].seen]
  /\ Goto(w, "tiles")
  /\ UNCHANGED <<code, found, queueVars, spent, boundVars, historyVars>>

\* Its second: planned, whatever has become of the scan, from the drawings
\* that are there now.
WritePlanned(w) ==
  /\ At(w, "tiles")
  /\ scan' = [scan EXCEPT !.status = "planned", !.sourced = drawings]
  /\ AfterPlan(w)
  /\ UNCHANGED <<code, tile, found, queueVars, spent, boundVars, historyVars>>

\* An exception while planning.  An RFI scan marks a plan failed only if it
\* still reads planning, and goes on.
PlanFails(w) ==
  /\ exec[w].pc \in {"planning", "tiles"}
  /\ faults < MaxFaults
  /\ faults' = faults + 1
  /\ IF exec[w].mode = "plan" \/ scan.status = "planning"
     THEN Goto(w, "failing")
     ELSE AfterPlan(w)
  /\ UNCHANGED <<rowVars, queueVars, spent, drawings, resumes,
                 historyVars>>

FailPlan(w) ==
  /\ At(w, "failing")
  /\ scan' = [scan EXCEPT !.status = "failed"]
  /\ AfterPlan(w)
  /\ UNCHANGED <<code, tile, found, queueVars, spent, boundVars, historyVars>>

\* The RFI scan sees that it was stopped.
NoticeChecksStopped(w) ==
  /\ exec[w].mode = "checks"
  /\ exec[w].pc \in {"planning", "rest"}
  /\ code # "running"
  /\ IF scan.status = "planning" THEN Goto(w, "failing") ELSE Quit(w)
  /\ UNCHANGED <<rowVars, queueVars, spent, boundVars, historyVars>>

\* The RFI scan fails, before or after the plan is made.
ChecksFail(w) ==
  /\ exec[w].mode = "checks"
  /\ exec[w].pc \in {"planning", "rest"}
  /\ faults < MaxFaults
  /\ faults' = faults + 1
  /\ code' = "failed"
  /\ IF scan.status = "planning" THEN Goto(w, "failing") ELSE Quit(w)
  /\ UNCHANGED <<scan, tile, found, queueVars, spent, drawings, resumes,
                 historyVars>>

\* It saves its findings.
ChecksDone(w) ==
  /\ At(w, "rest")
  /\ code = "running"
  /\ code' = "completed"
  /\ Quit(w)
  /\ UNCHANGED <<scan, tile, found, queueVars, spent, boundVars, historyVars>>

-----------------------------------------------------------------------------
(* A run: fullscan_run.run, first_look, close_look, finish.                *)

\* run writes "running" over what it read, and whatever came since.
SetRunning(w) ==
  /\ At(w, "taken")
  /\ scan' = [scan EXCEPT !.status = "running"]
  /\ Goto(w, "set")
  /\ UNCHANGED <<code, tile, found, queueVars, spent, boundVars, historyVars>>

\* Mutant: every area is looked at again.
PendingTilesAll == {t \in Tiles : tile[t] \in {"pending", "failed", "open"}}

\* _pending_tiles and _open_issues.
PendingTiles == {t \in Tiles : tile[t] \in {"pending", "failed"}}
OpenTiles == {t \in Tiles : tile[t] = "open"}

InFlight(w) == {t \in Tiles : exec[w].call[t] # "none"}

\* Nothing more is asked; what is in flight is drained, and then the row gets
\* the status this stop stands for.
StopFor(w, why) ==
  Becomes(w, [exec[w] EXCEPT !.stop = why, !.todo = {}, !.next = NoTile])

\* The heartbeat starts, and _run asks whether the drawings changed and
\* whether the person who started the scan may still see the project.
BeginFirstLook(w) ==
  /\ At(w, "set")
  /\ exec[w].stop = "no"
  /\ scan' = [scan EXCEPT !.silent = FALSE]
  /\ \/ exec[w].seen # drawings /\ StopFor(w, "stale")
     \/ exec[w].seen = drawings /\ StopFor(w, "cancelled")
     \/ /\ exec[w].seen = drawings
        /\ Becomes(w, [exec[w] EXCEPT !.pc = "first", !.todo = PendingTiles,
                                      !.copy = scan.copy])
  /\ UNCHANGED <<code, tile, found, queueVars, spent, boundVars, historyVars>>

Looking(w) == exec[w].pc \in {"first", "close"} /\ exec[w].stop = "no"

\* guard, between calls: not cancelled, and then the next tile.
Guard(w) ==
  /\ Looking(w)
  /\ exec[w].next = NoTile
  /\ \E t \in exec[w].todo :
       /\ \A u \in exec[w].todo : t <= u
       /\ IF scan.status = "cancelled"
          THEN StopFor(w, "cancelled")
          ELSE Becomes(w, [exec[w] EXCEPT !.next = t, !.todo = @ \ {t}])
  /\ UNCHANGED <<rowVars, queueVars, spent, boundVars, historyVars>>

\* guard, once a minute: the person may not see the project any more.
NoticeAccessLost(w) ==
  /\ Looking(w)
  /\ exec[w].next = NoTile
  /\ exec[w].todo # {}
  /\ StopFor(w, "cancelled")
  /\ UNCHANGED <<rowVars, queueVars, spent, boundVars, historyVars>>

\* Mutant: calls in flight are not counted.
RoomWithoutFlight(w) == exec[w].limit - spent

\* Run.room.
Room(w) == exec[w].limit - spent - Cardinality(InFlight(w))

\* The next tile has room: it is asked about.
Send(w) ==
  /\ exec[w].next # NoTile
  /\ Cardinality(InFlight(w)) < Concurrency
  /\ Room(w) >= 1
  /\ Becomes(w, [exec[w] EXCEPT !.call[exec[w].next] = "sent", !.next = NoTile])
  /\ UNCHANGED <<rowVars, queueVars, spent, boundVars, historyVars>>

BudgetStop(w) ==
  /\ exec[w].next # NoTile
  /\ Cardinality(InFlight(w)) < Concurrency
  /\ Room(w) < 1
  /\ StopFor(w, "budget")
  /\ UNCHANGED <<rowVars, queueVars, spent, boundVars, historyVars>>

\* The rows an execution has read are still there: planning again deletes them.
There(w) == exec[w].copy = scan.copy

\* It has room but cannot be opened, or the code rejects it before it is paid
\* for, which needs its row.
SkipNext(w) ==
  LET t == exec[w].next
  IN  /\ t # NoTile
      /\ Cardinality(InFlight(w)) < Concurrency
      /\ Room(w) >= 1
      /\ tile' = IF ~There(w) THEN tile
                 ELSE [tile EXCEPT ![t] = IF At(w, "first") THEN "failed"
                                          ELSE "clear"]
      /\ IF At(w, "close") /\ ~There(w) THEN StopFor(w, "failed")
         ELSE Becomes(w, [exec[w] EXCEPT !.next = NoTile])
      /\ UNCHANGED <<scan, code, found, queueVars, spent, boundVars,
                     historyVars>>

SetCall(w, t, c) == Becomes(w, [exec[w] EXCEPT !.call[t] = c])

\* ask returns a reply that can be used, and the ledger has its tokens.
Reply(w, t) ==
  /\ exec[w].call[t] \in {"sent", "again", "repair"}
  /\ spent' = spent + 1
  /\ SetCall(w, t, "good")
  /\ UNCHANGED <<rowVars, queueVars, boundVars, historyVars>>

\* It cannot be used: asked once more.
UnusableReply(w, t) ==
  /\ exec[w].call[t] \in {"sent", "again"}
  /\ spent' = spent + 1
  /\ IF exec[w].call[t] = "sent"
     THEN SetCall(w, t, "again") /\ repeats' = repeats + 1
     ELSE SetCall(w, t, "bad") /\ UNCHANGED repeats
  /\ UNCHANGED <<rowVars, queueVars, boundVars, ceiling, doubled>>

\* repair_boxes: its box cannot be placed; asked once more if the ledger
\* leaves room for it.
MisplacedReply(w, t) ==
  /\ At(w, "first")
  /\ exec[w].call[t] \in {"sent", "again"}
  /\ exec[w].limit - (spent + 1) >= 1
  /\ spent' = spent + 1
  /\ SetCall(w, t, "repair")
  /\ repeats' = repeats + 1
  /\ UNCHANGED <<rowVars, queueVars, boundVars, ceiling, doubled>>

\* ask failed twice; a repair leaves the first answer.
NoReply(w, t) ==
  /\ exec[w].call[t] \in {"sent", "again", "repair"}
  /\ SetCall(w, t, IF exec[w].call[t] = "repair" THEN "good" ELSE "bad")
  /\ UNCHANGED <<rowVars, queueVars, spent, boundVars, historyVars>>

\* _save_tile, by the tile's id.
SaveLook(w, t) ==
  /\ At(w, "first")
  /\ exec[w].call[t] \in {"good", "bad"}
  /\ SetCall(w, t, "none")
  /\ IF ~There(w) THEN UNCHANGED tile
     ELSE \E says \in IF exec[w].call[t] = "bad" THEN {"failed"}
                      ELSE {"open", "clear"} :
            tile' = [tile EXCEPT ![t] = says]
  /\ UNCHANGED <<scan, code, found, queueVars, spent, boundVars, historyVars>>

\* first_look is over: every problem without a verdict is listed.
BeginCloseLook(w) ==
  /\ At(w, "first")
  /\ Looking(w)
  /\ exec[w].todo = {} /\ exec[w].next = NoTile /\ InFlight(w) = {}
  /\ Becomes(w, [exec[w] EXCEPT !.pc = "close", !.todo = OpenTiles,
                                !.copy = scan.copy])
  /\ UNCHANGED <<rowVars, queueVars, spent, boundVars, historyVars>>

\* settle: a verdict that rejects, one that does not pass the rules, and no
\* usable verdict at all.
SettleReject(w, t) ==
  /\ At(w, "close")
  /\ exec[w].call[t] \in {"good", "bad"}
  /\ There(w)
  /\ SetCall(w, t, "none")
  /\ tile' = [tile EXCEPT ![t] = "clear"]
  /\ UNCHANGED <<scan, code, found, queueVars, spent, boundVars, historyVars>>

\* settle: the finding is written, unless one with its fingerprint is on file
\* and decided.
SaveFinding(w, t) ==
  /\ At(w, "close")
  /\ exec[w].call[t] = "good"
  /\ found' = found \cup {t}
  /\ SetCall(w, t, "saved")
  /\ UNCHANGED <<scan, code, tile, queueVars, spent, boundVars, historyVars>>

\* Mutant: the verdict is recorded before the finding is written.
RecordVerdictFirst(w, t) ==
  /\ At(w, "close")
  /\ exec[w].call[t] \in {"good", "saved"}
  /\ There(w)
  /\ tile' = [tile EXCEPT ![t] = "kept"]
  /\ SetCall(w, t, "none")
  /\ UNCHANGED <<scan, code, found, queueVars, spent, boundVars, historyVars>>

\* And then its verdict.
RecordVerdict(w, t) ==
  /\ At(w, "close")
  /\ exec[w].call[t] = "saved"
  /\ There(w)
  /\ tile' = [tile EXCEPT ![t] = "kept"]
  /\ SetCall(w, t, "none")
  /\ UNCHANGED <<scan, code, found, queueVars, spent, boundVars, historyVars>>

\* A verdict has no row to go to.
VerdictHasNoRow(w, t) ==
  /\ At(w, "close")
  /\ exec[w].call[t] \in {"good", "bad", "saved"}
  /\ ~There(w)
  /\ Becomes(w, [exec[w] EXCEPT !.call[t] = "none", !.stop = "failed",
                                !.todo = {}, !.next = NoTile])
  /\ UNCHANGED <<rowVars, queueVars, spent, boundVars, historyVars>>

\* Mutant: tiles whose look failed are not counted.
UnfinishedNotFailed == {t \in Tiles : tile[t] = "pending"} \cup OpenTiles

Unfinished == PendingTiles \cup OpenTiles

\* finish, whatever has become of the scan.
Finish(w) ==
  /\ exec[w].todo = {} /\ exec[w].next = NoTile /\ InFlight(w) = {}
  /\ \/ At(w, "close") /\ exec[w].stop = "no"
     \/ exec[w].stop = "budget"
  /\ scan' = [scan EXCEPT !.status =
                IF exec[w].stop = "budget" \/ Unfinished # {}
                THEN "partial" ELSE "ready"]
  /\ Quit(w)
  /\ UNCHANGED <<code, tile, found, queueVars, spent, boundVars, historyVars>>

\* run's except clauses, and the stale stop.
EndStopped(w) ==
  /\ exec[w].stop \in {"cancelled", "failed", "stale"}
  /\ InFlight(w) = {}
  /\ scan' = [scan EXCEPT !.status = exec[w].stop]
  /\ Quit(w)
  /\ UNCHANGED <<code, tile, found, queueVars, spent, boundVars, historyVars>>

-----------------------------------------------------------------------------
(* What goes wrong.                                                        *)

Fault == faults < MaxFaults /\ faults' = faults + 1
FaultFrame == <<drawings, resumes>>

\* Any exception in a run, a missing key included.
Raise(w) ==
  /\ exec[w].pc \in {"set", "first", "close"}
  /\ exec[w].stop \in {"no", "budget"}
  /\ Fault
  /\ StopFor(w, "failed")
  /\ UNCHANGED <<rowVars, queueVars, spent, FaultFrame, historyVars>>

\* An answer cannot be written.
SaveFails(w, t) ==
  /\ exec[w].call[t] \in {"good", "bad", "saved"}
  /\ Fault
  /\ Becomes(w, [exec[w] EXCEPT !.call[t] = "none", !.stop = "failed",
                                !.todo = {}, !.next = NoTile])
  /\ UNCHANGED <<rowVars, queueVars, spent, FaultFrame, historyVars>>

\* A batch does not come back in time.
BatchTimeout(w) ==
  /\ At(w, "first")
  /\ exec[w].stop = "no"
  /\ InFlight(w) # {}
  /\ \A t \in InFlight(w) : exec[w].call[t] = "sent"
  /\ Fault
  /\ Becomes(w, [exec[w] EXCEPT !.call = NoCalls, !.stop = "failed",
                                !.todo = {}, !.next = NoTile])
  /\ UNCHANGED <<rowVars, queueVars, spent, FaultFrame, historyVars>>

\* The worker dies.  Its job is delivered again, or has stalled too often.
Crash(w) ==
  /\ Live(w)
  /\ Fault
  /\ Quit(w)
  /\ \/ UNCHANGED jobs
     \/ ~exec[w].late /\ jobs' = [jobs EXCEPT ![exec[w].mode] = @ + 1]
  /\ UNCHANGED <<rowVars, adding, resuming, spent, FaultFrame, historyVars>>

\* Its lock lapses: the job is delivered again while it goes on.
Lapse(w) ==
  /\ Live(w)
  /\ ~exec[w].late
  /\ Fault
  /\ Becomes(w, [exec[w] EXCEPT !.late = TRUE])
  /\ jobs' = [jobs EXCEPT ![exec[w].mode] = @ + 1]
  /\ UNCHANGED <<rowVars, adding, resuming, spent, FaultFrame, historyVars>>

-----------------------------------------------------------------------------
RequestStep ==
  \/ AskPlan \/ AutoWait \/ WriteResume \/ Cancel \/ StopChecks
  \/ ChangeDrawings
  \/ \E auto \in {"off", "undecided"} : AskChecks(auto)
  \/ \E m \in Modes : AddJob(m) \/ LoseJob(m)
  \/ \E l \in Limits : Start(l) \/ AutoStart(l)
  \/ \E l \in Limits \cup {scan.limit} : ReadForResume(l)

TakeStep(w) == TakePlan(w) \/ TakeChecks(w) \/ TakeRun(w)

PlanStep(w) ==
  \/ NoticePlanCancelled(w) \/ WriteTiles(w) \/ WritePlanned(w) \/ FailPlan(w)
  \/ NoticeChecksStopped(w) \/ ChecksDone(w)

RunStep(w) ==
  \/ SetRunning(w) \/ BeginFirstLook(w) \/ Guard(w) \/ NoticeAccessLost(w)
  \/ Send(w) \/ BudgetStop(w) \/ SkipNext(w) \/ BeginCloseLook(w)
  \/ Finish(w) \/ EndStopped(w)
  \/ \E t \in Tiles :
       \/ Reply(w, t) \/ UnusableReply(w, t)
       \/ MisplacedReply(w, t) \/ NoReply(w, t) \/ SaveLook(w, t)
       \/ SettleReject(w, t) \/ SaveFinding(w, t) \/ RecordVerdict(w, t)
       \/ VerdictHasNoRow(w, t)

FaultStep(w) ==
  \/ PlanFails(w) \/ ChecksFail(w) \/ Raise(w) \/ BatchTimeout(w) \/ Crash(w)
  \/ Lapse(w) \/ \E t \in Tiles : SaveFails(w, t)

WorkStep(w) == PlanStep(w) \/ RunStep(w)

Next ==
  \/ RequestStep
  \/ GoSilent
  \/ \E w \in Workers : TakeStep(w) \/ WorkStep(w) \/ FaultStep(w)

Spec == Init /\ [][Next]_vars

\* A live execution goes on, a job in the queue is taken, and time passes.
Fairness ==
  /\ \A w \in Workers : WF_vars(WorkStep(w))
  /\ WF_vars(\E w \in Workers : TakeStep(w))
  /\ WF_vars(GoSilent)

FairSpec == Spec /\ Fairness

-----------------------------------------------------------------------------
Row ==
  [status : Statuses \cup {"none"}, silent : BOOLEAN, started : BOOLEAN,
   auto : {"off", "undecided", "decided"}, limit : Nat, sourced : Nat,
   built : Nat, copy : Nat]
Exec ==
  [mode : Modes,
   pc : {"idle", "planning", "tiles", "failing", "rest",
         "taken", "set", "first", "close"},
   late : BOOLEAN, limit : Nat, seen : Nat, copy : Nat,
   todo : SUBSET Tiles, next : Tiles \cup {NoTile},
   call : [Tiles -> {"none", "sent", "again", "repair", "good", "bad", "saved"}],
   stop : {"no", "budget", "cancelled", "failed", "stale"}]

TypeOK ==
  /\ scan \in Row
  /\ code \in {"none", "running", "completed", "failed"}
  /\ tile \in [Tiles -> {"skipped", "pending", "failed", "open", "clear", "kept"}]
  /\ found \subseteq Tiles
  /\ adding \in [Modes -> Nat] /\ jobs \in [Modes -> Nat]
  /\ resuming \in [status : Statuses \cup {"none"}, limit : Nat]
  /\ exec \in [Workers -> Exec]
  /\ spent \in Nat /\ drawings \in Nat
  /\ resumes \in Nat /\ faults \in Nat
  /\ ceiling \in Nat /\ repeats \in Nat /\ doubled \in BOOLEAN

\* A plan is started once: by one request of the start route and the one-click
\* start, even if a late planner has set the running scan back to planned.
StartedOnce ==
  [][~(scan.started /\ scan.status = "planned" /\ scan'.status = "queued")]_vars

\* What the scan says it kept is on file as a finding.
KeptIsSaved == \A t \in Tiles : tile[t] = "kept" => t \in found

\* A scan that is ready has looked at everything it planned to look at, and
\* has a verdict on everything it saw.
ReadyIsComplete ==
  scan.status = "ready" /\ ~doubled =>
    \A t \in Tiles : tile[t] \in {"skipped", "clear", "kept"}

\* What an execution is about to pay for, or is paying for.
Asks(w) == exec[w].todo \cup InFlight(w) \cup ({exec[w].next} \ {NoTile})

\* That still waits for it: a resumed scan never asks the same question twice.
BoughtOnce ==
  \A w \in Workers :
    ~doubled =>
      \A t \in Asks(w) :
        /\ At(w, "first") => tile[t] \in {"pending", "failed"}
        /\ At(w, "close") => tile[t] = "open"

\* What the ledger says is spent stays under the highest ceiling a person set,
\* over crashes and resumes, but for calls that had to be asked a second time.
WithinCeiling ==
  ~doubled => spent <= ceiling + repeats

\* An execution that writes over a cancel: one that takes a queued job writes
\* "running", with its whole run ahead, one that plans writes what came of the
\* plan, and a run that has stopped or has every answer ends with this write.
WritesOverCancel(w) ==
  \/ At(w, "taken") /\ scan'.status = "running"
  \/ At(w, "tiles") /\ scan'.status = "planned"
  \/ At(w, "failing") /\ scan'.status = "failed"
  \/ /\ At(w, "close") \/ exec[w].stop # "no"
     /\ Asks(w) = {}
     /\ ~Live(w)'

\* No other writer takes back a cancel: no request, no scan that has calls left
\* to ask for, and no execution that is not at the write that sets its outcome
\* (rfiFullScan.ts's conditional updates, guard, and the unconditional writes
\* of run, write_plan and finish).  "A queued or planning one stops at once"
\* (rfiFullScan.ts:274) is more than that.
CancelStays ==
  [][scan.status = "cancelled" /\ scan'.status # "cancelled" =>
       \E w \in Workers : WritesOverCancel(w)]_vars

\* What a person sees does not say for ever that the scan is being worked on.
NeverHangs == ScanIsActive ~> ~ScanIsActive

=============================================================================
