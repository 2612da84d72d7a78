# Verification of the drawing platform

TLA+ models of the Construction Drawing AI Platform: the parts of it that are
concurrent, that fail half-way, or that are told things in an order nobody
chose. Paths below are relative to the repository root.

| file | what it is |
|---|---|
| `DocumentProcessing.tla` | the process-document pipeline: API, queue, worker, database rows, vector index |
| `DocumentLifecycle.tla` | what that pipeline promises, without queue, workers or faults |
| `MCDocumentProcessing.tla`, `document_*.cfg` | its instances for TLC |
| `DocumentProcessingProofs.tla` | theorems about it for every number of documents, pages, slots and faults: types, lock, marks, revisions, refinement, retries |
| `DocumentIndexProofs.tla` | theorems about it, continued: index, full pass, combined numbers |
| `RfiLog.tla` | the RFI log, the findings drafted by scans, and the scans that find them |
| `RfiLifecycle.tla` | what the log promises, without requests in flight, workers or stopped scans |
| `MCRfiLog.tla`, `rfi_*.cfg` | its instances for TLC |
| `RfiLogProofs.tla` | theorems about it for every number of RFIs, findings, requests, scans and workers |
| `FullScan.tla` | one full AI scan of the drawings: plan, start, both looks, ceiling, cancel, resume |
| `MCFullScan.tla`, `full_scan*.cfg` | its instances for TLC |
| `FullScanProofs.tla` | theorems about it for every number of areas, workers, calls in flight, resumes and faults |
| `RegionScrape.tla` | the title-block read: the box, the jobs that read it, hand moves, portions |
| `MCRegionScrape.tla`, `region_scrape.cfg` | its instance for TLC |
| `RegionScrapeProofs.tla` | theorems about it for every number of pages, jobs, boxes and faults |
| `PortionSummary.tla` | a portion's summary from the button to the screen: rows, queue, runs, rollups, cache |
| `MCPortionSummary.tla`, `portion_*.cfg` | its instances for TLC |
| `PortionSummaryProofs.tla` | theorems about it for every number of portions, pages, requests, readers and workers |
| `ReviewRuns.tla` | targeted RFI reviews: claimed, run, cancelled, redelivered beside one another |
| `MCReviewRuns.tla`, `review_runs.cfg` | its instance for TLC |
| `ReviewRunsProofs.tla` | theorems about it for every number of reviews, requests, workers and faults |
| `ReviewFindings.tla` | what one review makes of evidence, calls and answers |
| `MCReviewFindings.tla`, `review_findings.cfg`, `review_evidence.cfg` | its instances for TLC |
| `ReviewFindingsProofs.tla` | theorems about it for every set of questions and every limit |
| `PROJECT.json` | components, runs, mutants, source map, findings, hazards, theorems |

## The system

A project holds PDFs. The Express API (`apps/api`) keeps rows in Postgres and
objects in a bucket, and puts jobs into BullMQ queues. Python workers
(`workers`) take the jobs: they render and read pages, write pages and chunks
rows, put vectors into Qdrant, sort pages into disciplines by their title
block, summarise disciplines, and look for questions (RFIs) to ask the
architect. People press buttons while all of that runs.

| component | state | operations | talks to | what makes it correct |
|---|---|---|---|---|
| process-document pipeline (`processing.py`, `db.py`, `worker.py`) | documents, pages, chunks rows; advisory lock; page pool | six stages of a job, retry, redelivery | queue, Qdrant, bucket, title-block queue | one execution per document; nothing marked done before it is; resumes; the combined numbering is the manifest's |
| document routes (`routes/documents.ts`) | documents rows | create, complete, reprocess, reindex, delete | queue, bucket, Qdrant | a revision chain without forks; every row that waits has a job |
| discipline-first choice (`disciplineProcessing.ts`) | `projects.processDisciplines` | choose, queue what is due, listen | queue | a chosen page gets its full pass |
| page manifest (`manifest.ts`) | none, computed | order, number | pages rows | equals the worker's numbering |
| title-block read (`scrape.py`, `routes/region.ts`, `routes/pages.ts`) | region version, page discipline and its source, portions | read, preview, set by hand | queue, project lock | a page's version tells its box; a person's choice stands; portions are those of the pages |
| portion summaries (`summarize.py`, `routes/portions.ts`) | portion status, heartbeat, summaries, cache | request, run, take over, read | queue, cache | a request is served; one summary stands; pages are paid for once; readers see the new summary |
| RFI log (`routes/rfis.ts`, `rfiStatus.ts`, `rfiStore.ts`) | rfis rows, events, counter | create, edit, answer, change status | drafts, packages | terminal is terminal; numbers are unique; an answer answers its question |
| RFI drafts (`routes/rfiGenerated.ts`) | candidates | accept, return, dismiss, restore | RFI log | a candidate stands behind one live RFI at most |
| full AI scan (`routes/rfiFullScan.ts`, `fullscan*.py`) | run rows, tiles, heartbeat | plan, start, cancel, resume, run | queue, drafts | cancelled stays cancelled; one worker per run |
| targeted review and packages (`rfi_review.py`, `rfi_package.py`) | run rows | plan, start, run, cancel | queue, drafts | paid for once; twins refused; a cancel heeded; "no issue" only after a full look |
| chat and retrieval (`answer.ts`, `retrieval.ts`) | messages | ask | Qdrant, models | (not a protocol) |
| accounts (`auth.ts`, `passwordReset` in `routes/auth.ts`) | users, tokens | log in, reset | mail | (single rows) |
| extraction and detection algorithms | none | pure functions of a PDF | | (geometry and text heuristics) |

What is hard here:

* BullMQ delivers a job again when its lock lapses, while the first execution
  goes on; and the API queues a second job of a document while one runs.
* A job runs for minutes over many small transactions, in a pool of threads,
  and can fail or die between any two of them. A retry starts over and has to
  find what is done.
* Postgres, the queue, the bucket and Qdrant share no transaction.
* Several documents of a project renumber each other; a revision retires a
  document that may itself still be in the queue; a person may delete any of
  them at any moment.
* Routes read a row, decide, and write without a condition.

`PROJECT.json` lists each hazard at its line.

## DocumentProcessing

One project. A document is a number in creation order and has `NumPages` pages;
a page has one chunk, and a chunk one Qdrant point with the chunk's id, so
`chunks`, `embedded` and `points` are sets of pages. `pictured` and `full` are
what the pages rows say: the picture is there, the full pass is done.

*API.* `InitiateUpload`, `CompleteUpload`, `Reprocess`, `Reindex` followed by
`ReindexOne` for each document it read, `ChooseDisciplines`, and `DeleteRow`
followed by `CleanUpDeleted` (the row goes before queue, bucket and index do).
Deleting a row cascades to pages and chunks and clears `previousVersionId` of a
revision. `QueueDue` is `queueDueProcessing` with its deduplication id.

*Queue.* A document has up to `MaxJobs` jobs at a time, each waiting or active
with a holder. `StallJob` takes a job from a dead slot, or, spending the
`lapse` bound, from one that is only late: the late execution goes on and finds
at its end that it no longer owns the job (`Owns`). Delayed and waiting are one
state: a backoff may take any time.

*Worker.* A slot is one execution of the handler, in any worker process. Its
`pc` names the stage: `TryLock` (`document_lock`), `Start`, `OpenPdf`,
`PlanRound` (`_page_modes`, at most three rounds), the page pool with
`QuickPage`, `ReplaceChunks` and `MarkFull` interleaved over pages,
`PageRaises` and `PoolDrained` (the first exception is raised after the pool
drained), `Supersede`, `Renumber`, the four calls of the embedding stage
(`ReadChunks`, `UpsertPoints`, `DeleteOldPoints`, `MarkEmbedded`), `Finalize`,
`Unlock`, then `Notify` (queue a title-block read) and `CompleteJob`. `Raise`
is an exception in any other call; `HandleFailure` is the handler's `except`,
with and without a permanent error, and with its own write failing. `Crash`
kills the execution and frees its advisory lock.

*Title block.* `ReadTitleBlocks` is external here: pages that have a picture
and no discipline get one, of any kind. `ListenForSortedPages` is the listener.

Each action is a transaction or call of the code; the actions of a slot follow
its `pc`, everything else interleaves.

Left out: progress, logs, metrics, caches, usage rows, the RFI-form check
(`rfi_sources`), the page-summary rows and the payload refresh of other
documents. Embeddings are enabled and a provider is there. The two statements
of `reprocess` (row, then job) are one step, as are those of each document of a
reindex, and the read and write of the choice. The upload's abort route is not
modelled. The upsert of all points of a document is one step.

Deadlock is not checked: a project in which nothing is queued simply rests.

### Properties

| property | what it says | where it could go wrong |
|---|---|---|
| `OneExecutionPerDocument` | no two executions between lock and unlock on one document | redelivery, two jobs, crash |
| `FullPagesHaveChunks` | a page that will never be read again has its chunks | crash between two writes, deletion under a running pool |
| `CompletedIsViewable` | completed means every page has its picture | a page failed while others went on |
| `RetiredOnlyWhenReplaced` | a document leaves the set only for a revision that can be looked at | same, across two documents |
| `CompletedSetIsNumbered` | with every document that has pages completed, retired ones too, the stored numbers are the manifest's | stale offset, two documents at once, retirement |
| `CompletedIsSearchable` | what a completed document has read is embedded, with its point | error or crash inside the embedding stage |
| `RetryIsQueued` | a document that promises a retry has a job | attempts miscounted, job lost |
| `EverythingIsRead` | in a project that processes everything, every page of a completed document has been read | rounds, retries, late executions, a page that raises |
| `UploadsSettle` | what is queued comes to an end | lock or job leaked by a fault |
| `KeepsPromises` | the pipeline implements `DocumentLifecycle` | any of the above, over time |

`DocumentLifecycle` has seven actions and no queue: documents are created,
shown page by page, read page by page, completed only when whole, retired only
in favour of a whole revision, deleted. Nothing shown or read is taken back
while the document exists. The refinement mapping only renames: "gone" and
"deleted" are one state.

### Runs

| run | instance | shows |
|---|---|---|
| `document_requests` | 1 document of 2 pages, 2 slots, 2 jobs, discipline-first, one request of any kind, one error, one lapse, one failure that cannot be written | lock, marks and promises hold under requests and late executions |
| `document_revisions` | 2 documents of 2 pages, 2 slots, one error, one crash | revisions, numbering and index |
| `document_settles` | 1 document of 2 pages, 2 slots, 1 job, title-block box, 3 attempts, two errors, one crash, one reprocess, reindex or deletion, weak fairness | termination, retry, every page read |

Bounds. Two pages make one fail while the other commits; two documents are
what numbering, retirement and reuse relate; two slots and two jobs are what
the lock keeps apart. Every race found needs one fault or two requests, so one
of each kind is allowed. `MaxAttempts` is 2 instead of the queue's 5: a first
attempt that is retried and a last one that is not; `document_settles` has a
third, and two errors, so that a retry may itself be retried. `MaxStalls` 1 is BullMQ's
default. The slots are symmetric; symmetry is not used where liveness is
checked.

Fairness (`FairSpec`). A live execution goes on, a waiting job is taken by some
slot, an orphaned job is found stalled (BullMQ's stalled check runs on a
timer), the title-block read and its listener run, and a route that has begun
its loop or clean-up goes on with it. Nothing obliges anybody to press a
button, and no fault is fair.

What the runs leave out on purpose. With a late execution, a second job of a
document, more crashes than `MaxStalls`, or a failure that cannot be written
(`worker.py:137-138`), `RetryIsQueued` fails, and after such a run the row stays
"processing" until a person presses reprocess; `document_settles` has none of
these, and `RetryHolds` names them as its hypotheses. With deletions the
stored numbers of later documents are stale until the next job of the project
renumbers, so `CompletedSetIsNumbered` is checked and proved without them. A
reembed throws vectors away under the hands of a running embedding stage, so
`CompletedIsSearchable` is checked and proved without it.

### Known disagreements

These were seen with this model while it was explored; no run is spent on
them.

* A discipline chosen, or a reindex pressed (`documents.ts:278`), after a job's
  last look at the pages (`processing.py:581`) and before it lets go of the lock:
  the job queued for it finds the document locked and is discarded
  (`processing.py:491-498`), and the chosen pages stay unread until the next
  press. `disciplineProcessing.ts:51-53` says "one already running re-checks its
  pages before it finishes". One document with one page and two disciplines
  shows it. So nothing is claimed of a discipline chosen while a job runs;
  `EverythingIsRead` is about projects in which nothing is chosen.
* The quick pass of a revision deletes the old points
  (`processing.py:679-680`) before the full pass, which could have copied their
  vectors (`processing.py:676-678`, `embeddings.py:350-353`), has read them.
* A document replaced while its own job still waited is indexed when that job
  runs (`embeddings.py:387`), after its points were deleted for good
  (`processing.py:626`, `680`). A document deleted while it is being embedded
  leaves points behind in the same way.
* Three documents in a chain of revisions, 1, 2 and 3, processed at once:
  document 3 is completed, and has retired 2, while 2 still runs its own job.
  That job retires 1 (`processing.py:626`), and until it renumbers
  (`processing.py:644`) the stored numbers of 3, which is completed and alone in
  the set, are stale; if it fails in between, they stay so until some job of
  the project renumbers. `CompletedSetIsNumbered` therefore asks that retired
  documents be completed as well.
* A reembed clears the marks of every chunk (`documents.ts:265`) and then queues
  the completed and failed documents only (`documents.ts:271`). One that is in
  its embedding stage (`processing.py:660-682`) is completed with what was
  cleared left without a mark, and nothing is queued for it.
* An execution whose job was given to another worker fails and writes
  "retrying", computed from its own attempt (`worker.py:112`, `135`),
  though no retry of it will come.

The first and the last have one cause: a delivery that finds the document
locked is discarded as if the work were being done, although the execution
that holds the lock may be past the point where it looks for work, or about to
fail.

### Proofs

`DocumentProcessingProofs` proves, for every value of the constants that
satisfies their assumptions (any number of documents, pages, slots, jobs and
faults, every request allowed):

| theorem | property |
|---|---|
| `TypesHold` | `TypeOK` |
| `OneExecutionHolds` | `OneExecutionPerDocument` |
| `FullPagesHold` | `FullPagesHaveChunks` |
| `CompletedHolds` | `CompletedIsViewable` |
| `RetiredHolds` | `RetiredOnlyWhenReplaced` |
| `PromisesHold` | `KeepsPromises` (refinement of `DocumentLifecycle`) |
| `RetryHolds` | `RetryIsQueued`, under the four hypotheses below |

The properties are not inductive. `IInv` adds what they rest on: `Known` (jobs
and executions are about documents that were created), `Locked` (an execution
past the lock holds it, so the lock's value tells two executions apart),
`Tidy` (a half-done page is one in hand, and only the pool has pages in hand),
`Rowed` (rows go with their document; a half-done page has its chunks, or its
document is gone), `Progressed` (how much of the document is shown at each
`pc`: at the pool every page is shown or still in hand, after it all are),
`Viewable` and `Revised` (chains do not fork, and the reviser of a retired
document is shown). `NothingTaken` is the action lemma behind several of them:
only `DeleteRow` takes a page, chunk or count back. TLC checked `IInv` as an
invariant on the first two instances before it was proved. Each conjunct is
kept by every action given the others; `InvariantHolds` puts them together, and
`LifecycleStep` maps each action to a step of the abstract specification.

`DocumentIndexProofs` goes on from there. Its three properties have it in
common that a promise about completed documents is kept by a stage before
completion, and only by the execution that holds the lock:

| theorem | property | under |
|---|---|---|
| `HeldHolds` | (what the others rest on) | nothing |
| `SearchableHolds` | `CompletedIsSearchable` | no reembed (`"reembed" \notin Requests`) |
| `EverythingReadHolds` | `EverythingIsRead` | nothing |
| `NumberedHolds` | `CompletedSetIsNumbered` | no deletion (`"delete" \notin Requests`) |

`Held` is `Unfinished` (a document being worked on is not completed, so that
"completed" says that nobody is between the stages), `Written`, `Replaced` (what
an execution has retired does not come back into the set), `Pointed` (what is
marked embedded has its chunk and, in a live document, its point; so has what
an execution is about to mark) and `FullIsPictured`. `Searchable` says at each
`pc` of the embedding stage how much of what was read is embedded or in hand;
`HalfShown` and `CompletedIsRead` the same for the full pass; and
`NumberedOrPending` that either every stored number is the manifest's, or some
document that is not completed has its `Renumber` still to come. The last is
why the numbering comes out right in whatever order documents overtake one
another: whoever makes it wrong is such a document, and it cannot be completed
before it renumbers all of them. TLC checked these invariants before they were
proved, with two documents under faults, requests and lapses and with three
without faults.

Neither hypothesis can be dropped; the disagreements above are what happens
without them. `EverythingIsRead` speaks of projects with `ProcessAll` by what it
says: where disciplines are chosen, the first disagreement above is possible.

`RetryHolds` closes `DocumentProcessingProofs`: "this will be tried again"
(`worker.py:112`, `133-136`) is true under four hypotheses about what happens
around a document, and TLC finds a behaviour that breaks it without each of
them:

| hypothesis | without it |
|---|---|
| one job of a document in the queue at a time, or one slot | a delivery that met the lock fails at its notification and promises a retry; the retry meets the lock again, is discarded, and its job completes |
| no job outlives its lock (`Bound["lapse"] = 0`) | a late execution writes the promise for a job it no longer owns |
| every failure is written (`Bound["unwritten"] = 0`) | a permanent or last failure leaves no word, and the promise of the attempt before it stands |
| no more crashes than BullMQ lets a job stall (`Bound["crash"] <= MaxStalls`) | the job fails for stalling, and nobody tells the row |

Errors, attempts, documents, pages and every request, deletion among them, are
not bounded. The invariant: `Employed` (who is executing owns a job, so that
with `OneAtATime` two executions of one document are one, `OneExecution`),
`LockHeld` (a lock's holder is inside it, about that document: so a delivery
that meets the lock would be a second execution), `StallsCounted` (a job has
not stalled more often than workers have died, the stall to come of an orphaned
job included) and `PromisesStand` (a promise is of a document that exists, and
is gone when its execution is past the lock). `JobMoves`, `SlotMoves` and
`PromiseMoves` say once what any step can do to a job, an execution and a
promise, so that each invariant needs a handful of cases instead of
thirty-five actions. TLC checked the invariants on `document_settles` first.

Only model-checked: `UploadsSettle`, which is liveness under fairness and out of
the proof system's reach.

## RfiLog

One project: its RFIs, the findings (candidates) scans and people put forward,
and the RFI scans that produce them.

*State.* `rfi` is the row of an RFI: its status, its question, and the question
its answer was written under; `number`, `source` and `counter` are the columns
that go with it. `candidate` holds a finding by its fingerprint; `copy` tells a
row from the one deleted before it. `request` is what an API request that reads
first and writes later has read. `scan` and `exec` are `rfi_scans` and the
worker's run of one.

*What is one step.* A transaction, or a conditional update, is one action:
`Accept` claims the finding, takes the number and links the RFI; `Dismiss`,
`Restore`, `Delete` carry their condition; `Save` is the transaction that
writes findings and end of a scan together, after asking whether it still
runs. A route that reads and then writes by id is two: `ReadForChange` and
`WriteStatus` (change of status, and answer), `ReadForEdit` and
`WriteQuestion`, `ReadForReturn` and `Return`, `AskScan` and `CreateScan`. So
is the worker: `PickUp` reads the status, `SetRunning` writes over it;
`Compare` decides what to reopen, the wording call follows, `Save` does it.
`NoticeStop` is the progress write, `FailScan` the `except`, `CrashWorker` a
death after which the job comes back.

*History.* `overtaken` collects RFIs written over by a request that had read
another row, `trampled` the findings a rescan reopened over a live RFI. They
name the two races that do happen, so that the properties can be stated for
everything else.

Left out: pins, assignment and due date, attachments, the event list, packages;
the candidates of an accept-all are accepted one at a time (each is a
transaction of its own); which findings the checks produce is any set.

| property | what it says | where it could go wrong |
|---|---|---|
| `NumbersAreUnique` | no number is given twice, also not that of a voided RFI | two creations at once, numbers counted from rows |
| `AnswersMatch` | answered or closed means an answer, to the question that stands unless overtaken | an edit beside an answer, a status route that skips the answer |
| `OneLiveRfiUnlessOvertaken` | no two standing RFIs come from one finding, but for the two named races | accept without claim, return, restore, delete, re-propose |
| `LinksAgree` | a finding is accepted exactly while it points at the RFI that points back | half-done accept or return, stale finding id |
| `TerminalStays` | closed and voided are final, but for an overtaken row | status asked of the wrong row |
| `DecisionsStand` | what a person decided is undone by a person, by voiding its RFI, or by a full rescan | a scan's upsert writing over decisions |
| `FollowsLifecycle` | the log implements `RfiLifecycle` | any of the above, over time |

`RfiLifecycle` has no requests in flight, workers or scan rows. An RFI is issued
with the next number; a person decides on a change of its status while that
change is allowed, and the decision is carried out once, at some later moment;
a finding is accepted in the step that issues its RFI, and taken back in the
step that voids it, while nobody has answered it; a rescan may reopen a finding
only after it has looked and seen it dismissed, or its RFI voided. It promises
less than one would like exactly where the code does: a decision may be carried
out on a row that has moved on, and a look be followed by a save that no longer
fits. The refinement mapping forgets texts and what a request has read beyond
its decision: `decided` is what the requests between `ReadForChange` and
`WriteStatus` hold, `reviewable` what the workers between `Compare` and `Save`
do.

| run | instance | shows |
|---|---|---|
| `rfi_log` | 2 RFIs, 2 findings (one a code check finds, one from chat), 2 requests that read and write, 1 scan, 1 worker, 2 texts, one deletion | all of the above |

Two RFIs and two findings are what uniqueness and links relate. Two requests
are enough for every race of a read and a write, since any further one could
run before or after; each runs once, which bounds the behaviours, and is why
deadlock is not checked. One scan is taken, since two multiply the states by
what each has read: two scans of a project at once are listed as a hazard. RFIs,
requests and texts are interchangeable, and only safety is checked, so symmetry
is sound. No fairness is needed.

Without the exemption the property fails: an answer decided from a row read
before the RFI was given back revives it (`rfis.ts:352-368` beside
`rfiGenerated.ts:349-353`), and the finding is accepted a second time; a full
rescan reopens, after its wording call, a finding accepted meanwhile
(`rfi_scan.py:611-612`).

`RfiLogProofs` proves every property of `rfi_log`, and `TypeOK`
(`TypesHold`), for all values of the constants. `IInv` adds to the properties what they rest on: `RowsSound` (no
number is above the counter, and an RFI made from a finding is never a draft),
`RequestsSound` (a request about to write has read a row that allowed it, and an
answer it saw is still there), `StandsBehind` (a finding points at the RFI made
from it while nobody has worked on that RFI, and while it stands if its row was
never written over: this is what makes one live RFI per finding inductive), and
`ExecsSound` (only a full rescan, at its wording, has findings to reopen).
`OneLiveRfiHolds` follows from `StandsBehind`; `TerminalHolds` and
`DecisionsHold` are action properties proved from `IInv`. `LifecycleHolds` is the
refinement: `LifecycleStep` puts together one lemma per kind of step
(`CreateFollows`, `DecideFollows`, `CarryOutFollows`, `TakeBackFollows`,
`RequestFollows`, `JudgeFollows`, `ReadFollows`, `RescanFollows`), each in terms
of what `RfiLifecycle` sees (`States`, `Answered`, `Decided`, `Judged`, `RfiOf`,
`Reviewable`). It says more than the run can show: an RFI answered, opened again
and then taken back needs three requests, and the instance has two.

## FullScan

One scan of the drawings by a language model, from its plan to its end: money
is spent here, and the documentation promises a ceiling that is not crossed, a
resume that never asks the same question twice, and a cancel that stops. The
first two are properties below; of the third, what the code keeps.

*State.* `scan` is the row of `rfi_full_scans`: status, whether its heartbeat
is older than ten minutes (`silent`), whether it was started (its idempotency
key), the one-click decision, the ceiling, the version of the drawings it says
it was planned from (`sourced`), and two history values: the version its pages
were read from (`built`) and how often its tiles were rewritten (`copy`, the
identity of tile rows). `tile` is what the row of an area says: settled by the
code (`skipped`), `pending`, `failed`, a problem without a verdict (`open`), and
`clear` or `kept`. `found` are areas with a finding in `rfi_candidates`,
`spent` the ledger, `jobs` the queue, `adding` requests that have written the
row and not queued the job, `exec` the executions with what each has read and
the state of each call in flight.

*Requests.* `AskPlan`; `AskChecks` (the RFI scan prepares the plan); `Start`
and `AutoStart` around the conditional `Claim`; `AutoWait`; `ReadForResume` and
the conditional `WriteResume`; `Cancel`; `StopChecks`; each followed by
`AddJob`, or by `LoseJob` when the API dies in between. `ChangeDrawings` is
anything that changes the set of pages.

*Worker.* `TakePlan`, `TakeChecks`, `TakeRun` read the row and drop the job if
the scan has moved on. Planning: `WriteTiles` and `WritePlanned` (two
transactions), `NoticePlanCancelled`, `PlanFails`, `FailPlan`. A run:
`SetRunning`, `BeginFirstLook` (drawings and access), then per area `Guard`,
`Send`, `BudgetStop` or `SkipNext`, and per call `Reply`, `UnusableReply`
(asked once more), `MisplacedReply` (the repair call), `NoReply`; `SaveLook`
for the first look; `SettleReject`, or `SaveFinding` and then `RecordVerdict`,
for the close look. A stop of any kind empties what is left to ask, lets the
calls in flight drain, and ends in `Finish` or `EndStopped`. Batch and direct
mode are one: a batch is calls sent together that may end in `BatchTimeout`.

*Faults.* `Crash`, `Lapse` (the job is delivered again while its execution
goes on), `Raise`, `SaveFails`, `BatchTimeout`, `PlanFails`, `ChecksFail`,
`LoseJob`, all counted by `MaxFaults`. `GoSilent` is time passing with no
execution alive.

*Abstraction.* Tokens are calls: a call reserves one unit and costs at most
that, which is what `per_call` and `per_verify` are for. An area raises at most
one problem. The model's answers, the rules over them and losing access are any
outcome at each point the code asks. `ceiling`, `repeats` and `doubled` are
history: the highest limit set, calls asked a second time, and whether two
executions ever had the scan in hand.

Left out: which pairs and windows are cut, prices and budgets in money, prompts
and parsing, the image store, agreement with code findings (a confirmed code
finding counts as found), notes, progress, diagnostics; scans beside each other.

| property | what it says | where it could go wrong |
|---|---|---|
| `KeptIsSaved` | a verdict "kept" has its finding on file | crash or error between the two writes |
| `ReadyIsComplete` | ready means no area pending or failed, no problem without a verdict | stop beside drain, failed looks, resume |
| `BoughtOnce` | no execution asks, or is about to ask, what has an answer | what was read before a crash, resume, tiles rewritten |
| `WithinCeiling` | spent is at most the highest ceiling and the repeated calls | calls in flight, a resume with a new ceiling |
| `StartedOnce` | planned becomes queued once | start button, one click, a late planner setting it back |
| `CancelStays` | a cancel is written over only by the named unconditional writes of `run`, `write_plan` and `finish`: by no request, and by no scan on its way with calls left | a resume or a late planner beside a cancel, two executions |
| `NeverHangs` | what a person sees does not stay "active" for ever | lost job, dead worker, lapsed lock |

| run | instance | shows |
|---|---|---|
| `full_scan` | 2 areas, 1 worker, 2 calls in flight, ceiling 2, one resume, one fault, fairness | the first four and `NeverHangs` |
| `full_scan_twice` | 1 area, 2 workers, one resume, one change, one fault | `StartedOnce`, `CancelStays` with two executions of one scan |

Two areas and two calls make one answer land while the other is in flight and
the ceiling come between them; a ceiling of two for up to four first calls and
close looks makes the budget stop happen. One resume and one fault reach every
re-entry of a run. Two executions at a time are what redelivery and an early
resume make. Workers are symmetric where only safety is checked. In
`full_scan_twice` states are told apart by the view `ReadAgain`: it leaves out
the history variables, the findings on file, and a version an execution has
read for the last time, none of which a later action or the two properties of
that run can see.

`ReadyIsComplete`, `BoughtOnce` and `WithinCeiling` are stated for scans that
were never in two hands, because with two they do not hold: a scan whose job
waits longer than ten minutes reads as failed, can be resumed, and is then run
by two executions, each with its own list and its own view of the room.
`WithinCeiling` counts repeats because a second call for an unusable reply is
not reserved; `docs/rfi-full-scan.md` says the ceiling is never crossed.

`CancelStays` does not say that a cancelled scan stops, because it need not.
`run` reads the status (`fullscan_run.py:605-609`) and writes "running" by id
(610): a cancel in between is lost, and the scan runs with its whole plan
ahead, where `rfiFullScan.ts:274-275` says "A queued or planning one stops at
once; a running one between calls". `write_plan` (`fullscan.py:309`) loses a
cancel of the planning in the same way, and `finish` (`fullscan_run.py:1942`) one
that comes after the last call. `WritesOverCancel` names these writes one by
one, and the property shows that there are no others. A plan
stores the version of the drawings read when it is finished
(`fullscan.py:318`), not the one its pages were read from, so that areas of
pages that have changed meanwhile can be bought as current ones, against
`docs/rfi-full-scan.md:113-115`; that is why `scan` keeps `built` beside
`sourced`. These are listed as hazards at their lines.

Fairness (`FairSpec`): a live execution goes on (threads run, calls time out),
a queued job is taken by some worker, and time passes. Nobody has to press
anything and no fault has to happen. A finished scan rests, so deadlock is not
checked.

### Proofs

`FullScanProofs` proves, for every set of areas, workers, limits, calls in
flight and bounds on resumes, changes and faults:

| theorem | property |
|---|---|
| `TypesHold` | `TypeOK` |
| `KeptHolds` | `KeptIsSaved` |
| `ReadyHolds` | `ReadyIsComplete` |
| `BoughtHolds` | `BoughtOnce` |
| `CeilingHolds` | `WithinCeiling` |
| `StartedHolds` | `StartedOnce` |
| `CancelHolds` | `CancelStays` |

The argument has three layers. `IInv` says what an execution holds at each
place (`ExecsSound`: calls only while it looks, nothing to ask once it stops),
that a call marked saved has its finding (`SavedIsFound`), and that a resume
never read a planned or cancelled scan (`ReadIsResumable`, what `StartedOnce`
and `CancelStays` rest on). `HandInv` adds `OneInHand` (unless doubled, one
execution at most still writes the row or the tiles) and `HasRow`. On top of
it, `ReadyRests` (a ready scan is complete and in nobody's hand) gives
`ReadyIsComplete`; `BoughtOnce` is inductive with `HandInv`; and `Reserved` (the
ledger and the calls not yet paid for fit under the ceiling and the repeats)
with `LimitsBelow` gives `WithinCeiling`. `Moves` sorts the steps of an
execution by what they do to its calls (ends, begins, stays, rests, answers),
so that the two proofs about money need five cases instead of thirty actions.
TLC checked each strengthening before it was proved.

Only model-checked: `NeverHangs`, which is liveness under fairness and out of
the proof system's reach.

## RegionScrape

The title-block read of one project, which `DocumentProcessing` has as the
external `ReadTitleBlocks`: a person draws one box, jobs read it on every page,
pages get a discipline (a *kind*), and each kind has a portion (a *group*).

*State.* `region` is the row of `sheet_regions` (version 0: no row), `page` the
rows of pages (which box the text was read in and which version it says, the
kind and who set it), `group` and `summary` the rows of portions. `job` is the
scrape-region queue together with the execution of each job, `section` the job
that holds the project's advisory lock, `asked` the requests that have written
their row and not queued the job.

*Requests.* `DrawBox` (upsert, version one up), `Rescrape`, `ClearBox`,
`MovePage`, `AddPage`, each followed by `QueueBox`, `QueueMove` or `QueuePage`:
the row is written before the job is added, and other things happen between.
`Summarize` is a summary made meanwhile.

*A job.* `Take` compares the version once, `Discard` ends a job of an older
box; `Plan` lists the pages of another version; `ScrapePage` and `SkipPage`;
`EnterSection` takes the lock; `ReadRows` or `ReadNoRows`; `WriteSheet` page by
page and `WriteInherited` for pages that got nothing from their title block;
`Group` rebuilds the portions, `Flag` marks those stale whose pages changed,
`Finish`. `Raise` is an exception, with another attempt or the last; `Crash` the
death of the worker, after which BullMQ hands the job over.

What a box holds on a page, and what a reader makes of it, is any kind or none.
Left out: how a sheet number becomes a discipline, sheet types, the preview
(which writes nothing), and the version of the classification rules.

| property | what it says | where it could go wrong |
|---|---|---|
| `VersionTellsBox` | a page at the box's version was read in that box | two reads of two boxes side by side, a late one finishing last |
| `PagesAreGrouped` | when all is quiet, every page with a kind is counted in its group | two sections over each other, a move between a job's reading and its grouping, retry after a half-done section |
| `MovesStand` | a hand move is not undone by a read | a read that lists its rows before the move and writes after it |

Three things are exempted by name. `redrawn`: a region deleted and drawn again
starts its versions at 1, so that pages of the old region pass for pages of the
new one (`region.ts:201-205`). `gaveUp`: a job that failed for the last time
leaves its work undone until somebody asks again, and so does one that failed
half-way, or was handed over, and is discarded because a newer box has come
(`scrape.py:254-262`). Jobs queued by process-document have one attempt
(`worker.py:92-99`), the others as many as `attempts` says. `late`: a page moved after a
job had its rows, and before it had written them, can be taken back
(`scrape.py:117`, `db.py:734`); the run shows that this is the only way.
Two more races are in the model and have no property: a hand move does not mark
the portions it leaves stale when the job compares after another one rebuilt
them (`pages.ts:175`), and a rescrape is refused while the row says "running",
also when the job that wrote it has died for good (`region.ts:114`).

| run | instance | shows |
|---|---|---|
| `region_scrape` | 2 pages, 1 kind beside unclassified and none, 2 jobs, 2 slots, 2 attempts, 2 boxes, 1 request, 1 fault | the three properties |

Two jobs and two boxes are what overtaking needs; two pages let one inherit
from the other and one be written while the other waits. One kind, unclassified
and none are the three answers the code tells apart. The jobs are symmetric,
and only safety is checked. The view `Seen` leaves out what no later action or
property of the run looks at: summaries, the status of the region when no
rescrape can come, the text of pages at older versions, what a job has read
and will not look at again, and the groups once a job has given up, which
`PagesAreGrouped` exempts. A project at rest has nothing to do, so deadlock is
not checked.

`RegionScrapeProofs` proves `TypeOK` and the three properties for any
number of pages, kinds, jobs, boxes, requests and faults. `VersionTellsBox` is
not inductive: a job must not hold a version the row has not reached, or a new
box could meet pages that already claim its version. `VersionsInOrder` says
that nothing in the system, neither page nor job nor request, has a version
above the row's, and that whatever has the row's version has its box; it is
kept by every action, and `DrawBox` finds nothing at the next version.
`MovesStand` rests on `LateKnown`: a job past its reading of the rows has among
those it will write no page that was moved, but late ones. `PagesAreGrouped`
is about a system at rest, and says nothing of the steps that lead there;
`GroupInv` does. `LockHeld`: one job at a time is between reading the rows and
finishing the portions. `NewPagesUnread`, `SortsLive`: a page has a kind only
once it is there, and a section writes only pages that are. `Tended`: unless a
read is still due, because a request or a job for this box is under way, each
page with a kind is in its group; and while a section writes its sheets, what it
holds beside what it has yet to write is what the groups will be made of. So a
move, a new page or an error may leave pages and portions apart, but only
together with somebody who will read them again.

## PortionSummary

One press of "summarise" to the text on the screen. *State.* `row` is the
status of a portion and whether its heartbeat is old (`silent`), `page` the
pages with their discipline and the version of their chunks, `paged` the rows
of page summaries, `rollup` those of sections and of the portion, each with the
pages it is of; `cache` the cached list with the portions whose rows changed
since it was read; `job`, `press`, `reader` and `exec` are the queue, the
requests and the executions.

*Requests.* `ReadForPress` (the row, and whether a run may start: not in flight,
or silent), then `AddJob`, `WriteQueued`, `DropForPress`: the job goes before
the row. `LosePress` is the API dying in between. `ReadRows` and `Fill` are the
two halves of reading through the cache; `Expire` its time to live.

*A run.* `Take` (drop what nobody asks for), `SetRunning`, `ReadPages` (which
pages lack a summary of their chunks), per page `AnswerPage`, `ClearPage`,
`SavePage`; `Cover`; `DeleteRollups`; `WriteSection` or `NoSection` for each
section when there are enough pages; `WriteRollup` or `NoRollup`;
`WriteReady`; and in any case `Invalidate`, whose delete may fail, as may that of
`DropForPress`. An answer may cite nothing (`Uncited`); its page still needs a
summary. `Raise` is an exception in the `try`, `RaiseEarly` one before it, and
the write that says a run failed may fail itself. `Beat` the heartbeat, `Crash`, `StallJob`, `Lapse` the queue's view of a
dead or late worker (one attempt; a stalled job is handed over once, then
failed), `GoSilent` ten minutes without a beat. `Reprocess` and `MovePage` are
the rest of the system.

Left out: the summary of the project over its portions, the rebuild that runs
everything, batch calls, text and progress; the checks of the configuration
(`_preflight`), which fail a run before it begins; and the refusal of a press
while pages of the portion wait for their full pass.

| property | what it says | where it could go wrong |
|---|---|---|
| `OneSummary` | ready or stale means one rollup, and sections that share no page | an error or crash between delete and write, and the run after it |
| `PagesBoughtOnce` | a page is paid for once for each version of its chunks, and once for each answer lost, unusable or citing nothing; and has one summary | run after run over half-done pages |
| `RequestsAreServed` | queued or running means a job, or an execution that will end it | job before row, dead workers, stalls |
| `ReadyIsShown` | with no run on, the screen shows what is on file | a list read before the end of a run, cached after it |
| `ReadyIsCurrent` | a ready summary is of pages the portion has: **violated** | a page moved during the run |

Exempted by name: `doubled` and `shared` (two executions had the portion, or
the page, at once, which a silent heartbeat that was only late allows,
`summarize.py:782`); `orphaned` (the job was taken and ended before the row said
queued, `portions.ts:182`; it was failed for stalling, or lost with a late
execution that died; its run raised before its `try`, `summarize.py:801-826`,
with one attempt and a handler that only logs, `worker.py:196-200`; or the write
that it failed, 904, failed); `outdated` (a list read before the run ended and
cached after, `summaries.ts:44`; a worker that died before it dropped the list;
or a delete that failed and was ignored, `cache.py:36`, `portions.ts:200`). The
run shows that each is the only way to break its property.

Two more disagreements were seen with this model. An answer with an overview and
no item is accepted (`summarize.py:276-278`) and saved without sources;
`needs_summary` finds none of them among the chunks (545), and every run buys
the page again, where 562-566 says that "the next run's `needs_summary` skips
them for free". `PagesBoughtOnce` counts such an answer as one that bought
nothing. And a row that a raise before the `try` has left queued says so until
ten minutes without a heartbeat let somebody press again.

| run | instance | shows |
|---|---|---|
| `portion_summary` | 1 portion beside others, 2 pages, sections of 1 page, one press at a time and two in all, 1 reader, 2 jobs, 2 workers, 1 stall, 1 change, 1 fault | the first four |
| `portion_stale` | the same | **violated**: `ReadyIsCurrent` |

Two pages with sections of one make the section tier happen; two jobs and two
workers make takeover and redelivery happen. Presses, jobs and workers are
symmetric. The view `Seen` leaves out what no later action or property looks
at: payments of a page two executions had in hand, how much was paid and lost
beyond the difference, and which portions are outdated while no list is cached.

`PortionSummaryProofs` proves all four for every value of the constants.
`IInv` has, beside types: `HandsAgree` (an execution that still holds its job
is about that job's portion), `RowsServed` (behind a row in flight is an
execution that will say how it ended, or a job that is not about to end without
a word) and `PressesServed` (a press about to write "queued" has its job
waiting), `OneInHand` (unless doubled, one execution has the portion), `Rolled`
(a portion in hand is in flight, and what of its rollups is there at each place
of a run: sections of disjoint pages, then one rollup as well), `OneBuys` (a
page is in one hand) and `Bought` (what was paid for it is on file, in hand or
lost, version by version), `Shown` (a portion changed since the list was read is
outdated, or has an execution that will drop the list). Each action keeps each conjunct
given the others.

## ReviewRuns

Reviews planned with one scope, which the code calls twins when they would pay
for the same evidence. *State.* `row` (status, idempotency key, heartbeat),
`job` with its holder and stalls, `request` (where a start request is), `exec`
(where an execution is); `current` and `allowed` say whether the evidence is as
planned and whether who started it may see the project.

*Requests.* `AskStart`, `CheckEvidence`, `CheckTwins` (the rows, and the jobs
waiting in the queue), the conditional `Claim`, then `AddJob` or `LoseJob`.
`Cancel`; `Change` of drawings or members.

*A run.* `Take` reads the row and `SetRunning` writes it by id; `Begin` asks
whether the plan is stale; a `Checkpoint` before each stage; `NoticeCancel` inside one;
`SkipToSaving` when nothing was observed or the ceiling was met; `File` writes
findings and `WriteOutcome` the end, by id. `Fail`, `Crash`, `StallJob`,
`Lapse`, `GoSilent` as above.

| property | what it says | where it could go wrong |
|---|---|---|
| `StartedOnce` | a review is claimed once, and a key names one review | double click, retry, two tabs |
| `TwinsAreRefused` | two twins are paid for at once only in a named race | check beside claim, lost job, a run that looked dead |
| `CancelHeeded` | a cancelled review enters no further stage, and nobody's review goes on after he lost access | load beside cancel, an outcome written over it |

`excused`: both requests passed the check before either had queued its job
(`rfiReview.ts:258-280`), or a run that looked dead or over came back.
`escaped`: a cancel between an execution's reading of the row and its writing
"running" (`rfi_review.py:3744-3755`), or one another execution wrote over at
its end.

| run | instance | shows |
|---|---|---|
| `review_runs` | 2 reviews of one scope, 2 keys, 2 requests, 2 workers, 1 stall, 1 change, 1 fault | all three |

Two of each are what these properties relate, and all are symmetric.
`ReviewRunsProofs` proves all three. `IInv` is `TypeOK`, `HasRun` (who is past
its first step has a review), `Claims` (a review is claimed once, and one that
was has a key of its own), `Heeds` (a cancel that was not written over stands,
and nobody is about to write "running" over it), and `Alone` (unless excused, one
review at most has been let through and is not over: it is queued, running, or
its request has passed the check). `CancelHeeded` is an action property proved from it.

## ReviewFindings

`_run` of `rfi_review.py`, one review from its evidence to its outcome.
*State.* `stage` follows the function; `supply` is the evidence as pages of
pieces of so many tokens; `left` the discovery calls to make; `ask` the attempt
and try of the call in hand; `ceiling`, `unread`, `stopped` whether the token
ceiling is met, a call was given up, the run was stopped; `heard` what discovery
said of each question; `proposal` the candidates with what was said of each in
both rounds and which rule decided; `nextId` and `evidence` the numbering and
registry of what proposals cite; `outcome` the result of each question.

*Actions.* `Pack` cuts and packs the evidence into calls (`Join`, `Joined`,
`PiecesOf` and `Calls` are `discovery_batches`). `Discover`, `CompleteInventory`,
`CompleteGridSpans`, `Reason` are the calls; `CallFails` and `Unusable` what
can go wrong with any of them, `Stop` the `BudgetStop` that can come before any
of them. `Settle` is what the code does with a proposal before it is judged
(searched for; answered by measured positions, or, when it says a value is
missing, by the column schedule; sent to verification). Without evidence there
is no discovery call, and with nothing observed none to reason.
`Judge` gives it a verdict, `LookElsewhere` and `Rejudge` ask again about one
rejected because another drawing gives it; `Rejections`, `Kept`, `Rejected`,
`Accept` are the rules. `Save` is the one write at the end, with `CheckResult`
for each question. `Over` is a finished review.

The caps leave things out: `parse_candidates` takes the first proposals
(`rfi_review.py:1276`), `unclaimed_absences` the first `MAX_UNCLAIMED` questions
(1837), and `_run` of both only what `MAX_CANDIDATES` has room for (4007-4008).
`heard.past` and `heard.cut` keep the questions of what was left out. Nobody
judges it, and its question may end "no issue", although 1808-1810 says of a
recorded absence that it goes to verification "never silently to "no issue"".
`NoIssueIsEarned` is therefore about what was taken up, and says of the rest
that only a full cap left it out.

A model's answer is any answer; of the evidence only size and identity are kept.
A ceiling met in a follow-up call (`rfi_review.py:3978-3988`) does not make a
question "insufficient", in the code as in the model. The list of proposals set
aside is cut at `MAX_SET_ASIDE` per question (4351); the model keeps them all.

| property | what it says | where it could go wrong |
|---|---|---|
| `CallsFit` | a call fits, or is one piece; neighbours could not have shared a call; nothing is lost or reordered | a page over the limit, an empty page, a piece at the limit |
| `NoIssueIsEarned` | "no issue" only with everything read, the question seen and every proposal of it that was taken up settled; what was not taken up was left out by a full cap | failed call, ceiling, missing verdict, caps |
| `ElsewhereIsShown` | "another drawing gives this" sets a proposal aside only after a second look, or beyond the limit of second looks | six rules, two rounds |
| `PushedBackIsModest` | what verification pushed back is kept at low confidence, at medium only when confirmed or drawn at one place | the same |
| `EvidenceStands` | what a kept proposal cites is what is filed under that id: **violated** | two places that number evidence |

| run | instance | shows |
|---|---|---|
| `review_findings` | 2 questions (one of the library, one measured), up to 3 pages of 2 pieces of at most 2 tokens, calls of 3, 2 batches, 2 candidates, 1 unclaimed, 1 search, 1 second look, 1 callout, 2 tries | the first four, types |
| `review_evidence` | the same with one hit per search | **violated**: `EvidenceStands` |

Two proposals make one use up the limit the other then meets. Pages of up to
two pieces against calls of three tokens make pieces over, at and under the
limit. Hits of a search change only the numbering of evidence, so the first run
has none. This program is sequential and ends; deadlock is checked. The view
leaves out what is not looked at again after a stage: what a full cap left out,
who sought a hit once proposals are settled, what a settled proposal cites and the numbering of
evidence once nothing will be asked, whether anything was left unread once the
outcomes are written.

`ReviewFindingsProofs` proves all four, and `TypeOK`, for every set of questions and every value of the limits.
`IInv` is `Records` (what a proposal's fate, verdicts, rule and confidence may
be together, stated by `Right` for one proposal, so that an action that touches
one needs one case), `ByStage` (which fates there are at each stage), `GapsKnown`
(a proposal set aside as unresolved leaves a gap for its question), `CapsFull`
(while anything was left out, the cap that did it is full: proposals are judged,
never withdrawn), `Quota` (how many were asked a second time) and `Endings` (what each outcome says).

`CallsFit` is about what the packing returns for every list of pages. Sums,
calls and flattened sequences are functions of a length, defined by recursion;
that they exist (`Recursion`) and induction over their lengths (`UpTo`) are
stated for sets and functions, and proved from the least element of a set of
numbers (`LeastNat`). `Packed` says of a list of calls that each fits or is one
piece and that neighbours would not fit together; `JoinPacks` that a part joined
to it leaves it so and its contents in order; `JoinedPacks` and `CallsPack` that
so does the whole. `Course` (`Supplied`, `Remaining`, `Trying`, `Flags`,
`Registry`) is the invariant behind `TypeOK`; its case for `Pack` rests on
`CallsPack`.

## Findings

* `review_evidence`. `with_callout_context` (`rfi_review.py:1748`) numbers the
  places it adds from the greatest id in the whole registry, and does not tell `_run`,
  whose own counter (4023) then gives the same id to something else. The kept
  proposal cites, and the manifest shows, what it was never given, where
  `docs/rfi-targeted-review.md:105` says every id is written with where it
  points.
* `portion_stale`. `docs/region-based-classification.md:473` says of a region
  edited during a summary: "let the summary finish, then mark it stale if its
  page set changed." `mark_portions_stale` (`db.py:768`) touches portions that
  are ready, and the run that ends writes ready without a look at its pages.

The disagreements described under each module (a choice lost, a cancel written
over, a page bought again, an absence left out, and the others), and the races exempted by name above, are in the models too; a run is not spent
on each.

## What is proved and what is only checked

Every safety property of a passing run, both refinements among them, is a
theorem. Liveness (`UploadsSettle`, `NeverHangs`) is out of the proof system's
reach.

Theorems assume nothing but the named assumptions on constants, save three whose
hypotheses are stated with them, each shown to be needed by a run of TLC: two
of `DocumentIndexProofs` (on requests), and `RetryHolds` (on faults and jobs).

## Plan

Done: the document pipeline and the RFI log with their abstract specifications,
the full scan, the title-block read, portion summaries, and the targeted review in
its two modules, with their proofs. What could follow:

1. `ConnectionPool`: document lock, project lock and page pool drawing on one
   pool; deadlock freedom as a function of the three sizes.
2. Two RFI scans of a project beside each other (`AskScan`, `CreateScan`), and
   the choice of disciplines as a read and a write (`disciplineProcessing.ts:46`).
3. The project summary and the rebuild over all portions, on top of
   `PortionSummary`; RFI packages on top of `ReviewRuns`.
4. Abstract specifications of the full scan (what is bought, and when it is
   over) and of portion summaries, as there are of documents and RFIs.

## Not modelled

Chat and retrieval, accounts, the RFI library, usage accounting, mail and
storage clients and the web interface keep no shared protocol state; extraction
and detection are functions of PDF content over real numbers, and their rules
of thumb have no specification but themselves. `PROJECT.json` gives the reason
for each.
