------------------------- MODULE DocumentProcessing -------------------------
(***************************************************************************)
(* The process-document pipeline of one project: uploads and revisions     *)
(* (apps/api/src/routes/documents.ts), the BullMQ queue between the API    *)
(* and the Python workers, the job handler (workers/src/worker.py), and    *)
(* the six stages of workers/src/processing.py with the rows they write.   *)
(*                                                                         *)
(* A document is a number, and a smaller number was created earlier        *)
(* (createdAt order).  Every document has NumPages pages.  A page has one  *)
(* chunk, and the Qdrant point of a chunk is identified with its page,     *)
(* because a point's id is its chunk's id.  The text of page p is the same *)
(* in every revision, so every chunk of a revision could reuse the vector  *)
(* of the revision before.                                                 *)
(***************************************************************************)
EXTENDS Naturals, FiniteSets

CONSTANTS
  NumDocs,      \* documents that may be created
  NumPages,     \* pages of a document
  Slots,        \* concurrent executions, over all worker processes
  NoSlot,       \* "nobody"
  Disciplines,  \* what a title block can say a page is
  Unsorted,     \* the discipline of a page whose title block is unread
  ProcessAll,   \* projects.processAll
  HasRegion,    \* the project has a title-block box
  MaxAttempts,  \* attempts of a process-document job
  MaxStalls,    \* BullMQ's maxStalledCount
  MaxJobs,      \* bound: jobs of one document in the queue at a time
  Requests,     \* the API requests that are made
  Bound         \* bound: how often each kind of fault and request happens

ASSUME SizesAssumption ==
  /\ NumDocs \in Nat \ {0} /\ NumPages \in Nat \ {0}
  /\ MaxJobs \in Nat \ {0} /\ MaxAttempts \in Nat \ {0} /\ MaxStalls \in Nat
ASSUME SlotAssumption == NoSlot \notin Slots
ASSUME KindAssumption == Unsorted \notin Disciplines
ASSUME FlagAssumption == ProcessAll \in BOOLEAN /\ HasRegion \in BOOLEAN

\* A step raises, a worker dies, an execution outlives its hold on its job, a
\* failure cannot be written to its document, a request is made.
Budgets == {"error", "crash", "lapse", "unwritten", "request"}
ASSUME BoundAssumption == Bound \in [Budgets -> Nat]

Docs    == 1 .. NumDocs
NoDoc   == 0
PageNos == 1 .. NumPages
Pages   == Docs \X PageNos
Kinds   == Disciplines \cup {Unsorted}
JobIds  == Docs \X (1 .. MaxJobs)

VARIABLES
  \* --- documents rows (schema.prisma, model Document)
  status,      \* "absent" before the row, "deleted" and "gone" after it
  prev,        \* previousVersionId
  superseded,  \* documents with supersededAt set
  stored,      \* documents whose original PDF is in the bucket
  counted,     \* documents whose page count is known (pages > 0)
  retrying,    \* documents whose problem says a retry is coming
  \* --- pages rows: those with a picture, and what is known of each
  pictured, full, kind, combined,
  \* --- chunks rows, the ones with an embeddingId, and the Qdrant points
  chunks, embedded, points,
  chosen,      \* projects.processDisciplines
  toReindex,   \* documents a reindex request has read and not yet queued
  \* --- BullMQ jobs and the Postgres advisory lock of each document
  jobs, lock,
  \* --- the executions
  pc, job, attempt, round, offset, quickTodo, fullTodo, halfDone, replaces,
  toEmbed,
  \* --- the scrape-region queue, and its "completed" event
  scrapePending, sortedEvent,
  used         \* how much of each bound is used up

docVars   == <<status, prev, superseded, stored, counted, retrying>>
pageVars  == <<pictured, full, kind, combined>>
indexVars == <<chunks, embedded, points>>
taskVars  == <<round, offset, quickTodo, fullTodo, halfDone, replaces,
               toEmbed>>
slotVars  == <<pc, job, attempt, taskVars>>
sortVars  == <<scrapePending, sortedEvent>>
apiVars   == <<chosen, toReindex>>
vars == <<docVars, pageVars, indexVars, apiVars, jobs, lock, slotVars,
          sortVars, used>>

-----------------------------------------------------------------------------
Exists(d) == status[d] \notin {"absent", "deleted", "gone"}
Live      == {d \in Docs : Exists(d) /\ d \notin superseded}
PagesOf(D) == {pg \in Pages : pg[1] \in D}

\* Pages of live documents ordered before d: the manifest's offset.
OffsetOf(d, live) == NumPages * Cardinality({e \in live \cap counted : e < d})
Manifest(pg, live) == OffsetOf(pg[1], live) + pg[2]

\* db.is_due: does this page still need the full pass under this choice?
IsDue(pg, done, k, choice) ==
  pg \notin done /\ (ProcessAll \/ k[pg] \in choice)

FreeJob == [state |-> "none", holder |-> NoSlot, attempts |-> 0,
            stalls |-> 0, dedup |-> FALSE]
\* Mutant: a job put where no worker looks.
NewJobMislaid(dedup) == [FreeJob EXCEPT !.state = "lost", !.dedup = dedup]
NewJob(dedup) == [FreeJob EXCEPT !.state = "waiting", !.dedup = dedup]
NextFree(id) ==
  /\ jobs[id].state = "none"
  /\ \A m \in 1 .. (id[2] - 1) : jobs[<<id[1], m>>].state # "none"
Room(D) == \A d \in D : \E n \in 1 .. MaxJobs : jobs[<<d, n>>].state = "none"
Enqueue(D, dedup) ==
  /\ Room(D)
  /\ jobs' = [id \in JobIds |->
                IF id[1] \in D /\ NextFree(id) THEN NewJob(dedup)
                ELSE jobs[id]]

\* queueDueProcessing: every live document with a chosen page still to be
\* processed; the deduplication id drops it while such a job is in the queue.
QueueDue(choice, k) ==
  LET due == {d \in Live : \E pg \in pictured :
                             pg[1] = d /\ IsDue(pg, full, k, choice)}
      queued == {d \in Docs : \E n \in 1 .. MaxJobs :
                                LET j == jobs[<<d, n>>]
                                IN  j.state # "none" /\ j.dedup}
  IN  Enqueue(due \ queued, TRUE)

Spend(b) == used[b] < Bound[b] /\ used' = [used EXCEPT ![b] = @ + 1]
Request(r) == r \in Requests /\ Spend("request")

-----------------------------------------------------------------------------
Init ==
  /\ status = [d \in Docs |-> "absent"] /\ prev = [d \in Docs |-> NoDoc]
  /\ superseded = {} /\ stored = {} /\ counted = {} /\ retrying = {}
  /\ pictured = {} /\ full = {}
  /\ kind = [pg \in Pages |-> Unsorted] /\ combined = [pg \in Pages |-> 0]
  /\ chunks = {} /\ embedded = {} /\ points = {}
  /\ chosen = {} /\ toReindex = {}
  /\ jobs = [id \in JobIds |-> FreeJob]
  /\ lock = [d \in Docs |-> NoSlot]
  /\ pc = [s \in Slots |-> "idle"] /\ job = [s \in Slots |-> <<1, 1>>]
  /\ attempt = [s \in Slots |-> 0]
  /\ round = [s \in Slots |-> 0] /\ offset = [s \in Slots |-> 0]
  /\ quickTodo = [s \in Slots |-> {}] /\ fullTodo = [s \in Slots |-> {}]
  /\ halfDone = [s \in Slots |-> {}]
  /\ replaces = [s \in Slots |-> NoDoc] /\ toEmbed = [s \in Slots |-> {}]
  /\ scrapePending = FALSE /\ sortedEvent = FALSE
  /\ used = [b \in Budgets |-> 0]

-----------------------------------------------------------------------------
(* The API.                                                                *)

\* POST /documents: create the row, as a revision of a document that has no
\* newer one.  The previous revision need not have been processed.
InitiateUpload(d, p) ==
  /\ status[d] = "absent" /\ \A e \in 1 .. (d - 1) : status[e] # "absent"
  /\ p # NoDoc => p \in Live /\ \A e \in Docs : prev[e] # p
  /\ status' = [status EXCEPT ![d] = "uploaded"]
  /\ prev' = [prev EXCEPT ![d] = p]
  /\ UNCHANGED <<superseded, stored, counted, retrying, pageVars, indexVars,
                 apiVars, jobs, lock, slotVars, sortVars, used>>

\* POST .../complete: the upload is whole; queue it, or reject the file.
CompleteUpload(d) ==
  /\ status[d] = "uploaded" /\ d \notin stored
  /\ \/ stored' = stored \cup {d} /\ Enqueue({d}, FALSE) /\ UNCHANGED status
     \/ /\ status' = [status EXCEPT ![d] = "failed"] /\ UNCHANGED jobs
        /\ stored' \in {stored, stored \cup {d}}  \* kept: scan unavailable
  /\ UNCHANGED <<prev, superseded, counted, retrying, pageVars, indexVars,
                 apiVars, lock, slotVars, sortVars, used>>

\* POST .../reprocess.
Reprocess(d) ==
  /\ Request("reprocess")
  /\ d \in Live \cap stored /\ status[d] # "completed"
  /\ status' = [status EXCEPT ![d] = "uploaded"]
  /\ retrying' = retrying \ {d}
  /\ Enqueue({d}, FALSE)
  /\ UNCHANGED <<prev, superseded, stored, counted, pageVars, indexVars,
                 apiVars, lock, slotVars, sortVars>>

\* POST /documents/reindex, with or without {"reembed": true}: the embedding
\* ids are cleared and the documents read ...
Reindex(reembed) ==
  /\ Request(IF reembed THEN "reembed" ELSE "reindex")
  /\ toReindex = {}
  /\ embedded' = IF reembed THEN {} ELSE embedded
  /\ toReindex' = {d \in Live : status[d] \in {"completed", "failed"}}
  /\ UNCHANGED <<docVars, pageVars, chunks, points, chosen, jobs, lock,
                 slotVars, sortVars>>

\* ... and queued one after the other.
ReindexOne(d) ==
  /\ d \in toReindex
  /\ toReindex' = toReindex \ {d}
  /\ IF d \in stored /\ Exists(d)
     THEN /\ status' = [status EXCEPT ![d] = "uploaded"]
          /\ retrying' = retrying \ {d}
          /\ Enqueue({d}, FALSE)
     ELSE UNCHANGED <<status, retrying, jobs>>
  /\ UNCHANGED <<prev, superseded, stored, counted, pageVars, indexVars,
                 chosen, lock, slotVars, sortVars, used>>

\* chooseDisciplines: a discipline is added to the choice, never removed.
ChooseDisciplines(k) ==
  /\ Request("choose")
  /\ k \notin chosen
  /\ chosen' = chosen \cup {k}
  /\ QueueDue(chosen', kind)
  /\ UNCHANGED <<docVars, pageVars, indexVars, toReindex, lock, slotVars,
                 sortVars>>

\* DELETE /documents/:id: the row goes first and its pages and chunks with it;
\* a revision of it loses its previousVersionId.
DeleteRow(d) ==
  /\ Request("delete")
  /\ Exists(d)
  /\ status' = [status EXCEPT ![d] = "deleted"]
  /\ prev' = [e \in Docs |-> IF prev[e] = d \/ e = d THEN NoDoc ELSE prev[e]]
  /\ superseded' = superseded \ {d} /\ counted' = counted \ {d}
  /\ retrying' = retrying \ {d}
  /\ pictured' = pictured \ PagesOf({d}) /\ full' = full \ PagesOf({d})
  /\ chunks' = chunks \ PagesOf({d}) /\ embedded' = embedded \ PagesOf({d})
  /\ UNCHANGED <<stored, kind, combined, points, apiVars, jobs, lock,
                 slotVars, sortVars>>

\* ... then the jobs no worker holds, the bucket and the Qdrant points.
CleanUpDeleted(d) ==
  /\ status[d] = "deleted"
  /\ status' = [status EXCEPT ![d] = "gone"]
  /\ stored' = stored \ {d}
  /\ points' = points \ PagesOf({d})
  /\ jobs' = [id \in JobIds |-> IF id[1] = d /\ jobs[id].state = "waiting"
                                THEN FreeJob ELSE jobs[id]]
  /\ UNCHANGED <<prev, superseded, counted, retrying, pageVars, chunks,
                 embedded, apiVars, lock, slotVars, sortVars, used>>

-----------------------------------------------------------------------------
(* The title-block read, which this module knows by its effect: it sorts   *)
(* the pages that have a picture, and its completion queues due documents. *)

ReadTitleBlocks ==
  /\ scrapePending
  /\ \E sorted \in [Pages -> Disciplines] :
       kind' = [pg \in Pages |->
                  IF pg \in pictured /\ kind[pg] = Unsorted /\ pg[1] \in Live
                  THEN sorted[pg] ELSE kind[pg]]
  /\ scrapePending' = FALSE /\ sortedEvent' = TRUE
  /\ UNCHANGED <<docVars, pictured, full, combined, indexVars, apiVars, jobs,
                 lock, slotVars, used>>

\* listenForSortedPages.
ListenForSortedPages ==
  /\ sortedEvent
  /\ sortedEvent' = FALSE
  /\ QueueDue(chosen, kind)
  /\ UNCHANGED <<docVars, pageVars, indexVars, apiVars, lock, slotVars,
                 scrapePending, used>>

-----------------------------------------------------------------------------
(* BullMQ.                                                                 *)

Doc(s)  == job[s][1]
Owns(s) == jobs[job[s]].state = "active" /\ jobs[job[s]].holder = s

\* A worker slot takes a waiting job.
TakeJob(s, id) ==
  /\ pc[s] = "idle" /\ jobs[id].state = "waiting"
  /\ jobs' = [jobs EXCEPT ![id] = [@ EXCEPT !.state = "active",
                                            !.holder = s]]
  /\ pc' = [pc EXCEPT ![s] = "claimed"]
  /\ job' = [job EXCEPT ![s] = id]
  /\ attempt' = [attempt EXCEPT ![s] = jobs[id].attempts + 1]
  /\ UNCHANGED <<docVars, pageVars, indexVars, apiVars, lock, taskVars,
                 sortVars, used>>

Stalled(j) ==
  IF j.stalls < MaxStalls
  THEN [j EXCEPT !.state = "waiting", !.holder = NoSlot,
                 !.stalls = j.stalls + 1]
  ELSE FreeJob

\* A job whose lock lapsed goes back to the queue, and fails when it has
\* stalled too often.  The slot that had it may be dead, or only late.
StallJob(id) ==
  /\ jobs[id].state = "active"
  /\ \/ jobs[id].holder = NoSlot /\ UNCHANGED used
     \/ jobs[id].holder # NoSlot /\ Spend("lapse")
  /\ jobs' = [jobs EXCEPT ![id] = Stalled(@)]
  /\ UNCHANGED <<docVars, pageVars, indexVars, apiVars, lock, slotVars,
                 sortVars>>

\* Mutant: the advisory lock outlives the execution.
UnlockedNever(s) == lock
\* Leaving processing.process_document: the advisory lock is released.
Unlocked(s) == [d \in Docs |-> IF lock[d] = s THEN NoSlot ELSE lock[d]]
ClearTask(s) ==
  /\ round' = [round EXCEPT ![s] = 0] /\ offset' = [offset EXCEPT ![s] = 0]
  /\ quickTodo' = [quickTodo EXCEPT ![s] = {}]
  /\ fullTodo' = [fullTodo EXCEPT ![s] = {}]
  /\ halfDone' = [halfDone EXCEPT ![s] = {}]
  /\ replaces' = [replaces EXCEPT ![s] = NoDoc]
  /\ toEmbed' = [toEmbed EXCEPT ![s] = {}]

\* The worker dies.  Postgres frees its lock; its job stays active until it
\* stalls.
Crash(s) ==
  /\ pc[s] # "idle" /\ Spend("crash")
  /\ pc' = [pc EXCEPT ![s] = "idle"]
  /\ job' = [job EXCEPT ![s] = <<1, 1>>]
  /\ attempt' = [attempt EXCEPT ![s] = 0]
  /\ lock' = Unlocked(s)
  /\ ClearTask(s)
  /\ jobs' = [id \in JobIds |-> IF jobs[id].holder = s
                                THEN [jobs[id] EXCEPT !.holder = NoSlot]
                                ELSE jobs[id]]
  /\ UNCHANGED <<docVars, pageVars, indexVars, apiVars, sortVars>>

-----------------------------------------------------------------------------
(* processing.py.                                                          *)

Goto(s, label) == pc' = [pc EXCEPT ![s] = label]

\* Mutant: the answer of pg_try_advisory_lock is not looked at.
TryLockUnchecked(s) ==
  /\ pc[s] = "claimed"
  /\ lock' = [lock EXCEPT ![Doc(s)] = s] /\ Goto(s, "start")
  /\ UNCHANGED <<docVars, pageVars, indexVars, apiVars, jobs, job, attempt,
                 taskVars, sortVars, used>>

\* document_lock: a delivery of a document that is being processed is
\* discarded, and its job completes.
TryLock(s) ==
  /\ pc[s] = "claimed"
  /\ IF lock[Doc(s)] = NoSlot
     THEN lock' = [lock EXCEPT ![Doc(s)] = s] /\ Goto(s, "start")
     ELSE Goto(s, "notify") /\ UNCHANGED lock
  /\ UNCHANGED <<docVars, pageVars, indexVars, apiVars, jobs, job, attempt,
                 taskVars, sortVars, used>>

\* _page_modes: pages without a picture, and pages due for the full pass.  A
\* page without a row has no discipline yet.
QuickModes(d) == {p \in PageNos : <<d, p>> \notin pictured}
FullModes(d) ==
  {p \in PageNos : LET pg == <<d, p>>
                   IN  IF pg \in pictured THEN IsDue(pg, full, kind, chosen)
                       ELSE ProcessAll \/ Unsorted \in chosen}
\* Mutant: pages with a picture are taken for done.
NoModesQuick(d) == QuickModes(d) = {}
NoModes(d) == QuickModes(d) = {} /\ FullModes(d) = {}

\* A document deleted while it was queued is dropped; one with every page in
\* hand is not downloaded.
Start(s) ==
  /\ pc[s] = "start"
  /\ IF ~Exists(Doc(s))
     THEN /\ lock' = Unlocked(s) /\ Goto(s, "notify") /\ UNCHANGED status
     ELSE /\ status' = [status EXCEPT ![Doc(s)] = "processing"]
          /\ Goto(s, IF Doc(s) \in counted /\ NoModes(Doc(s))
                     THEN "supersede" ELSE "open")
          /\ UNCHANGED lock
  /\ UNCHANGED <<prev, superseded, stored, counted, retrying, pageVars,
                 indexVars, apiVars, jobs, job, attempt, taskVars, sortVars,
                 used>>

\* Mutant: a retry reads the whole document again from scratch.
OpenPdfAfresh(s) ==
  /\ pc[s] = "open"
  /\ counted' = IF Exists(Doc(s)) THEN counted \cup {Doc(s)} ELSE counted
  /\ offset' = [offset EXCEPT ![s] = OffsetOf(Doc(s), Live)]
  /\ pictured' = pictured \ PagesOf({Doc(s)})
  /\ Goto(s, "modes")
  /\ UNCHANGED <<status, prev, superseded, stored, retrying, full, kind,
                 combined, indexVars, apiVars, jobs, lock, job, attempt,
                 round, quickTodo, fullTodo, halfDone, replaces, toEmbed,
                 sortVars, used>>

\* The PDF is open: its page count is stored and its offset read, once.
OpenPdf(s) ==
  /\ pc[s] = "open"
  /\ counted' = IF Exists(Doc(s)) THEN counted \cup {Doc(s)} ELSE counted
  /\ offset' = [offset EXCEPT ![s] = OffsetOf(Doc(s), Live)]
  /\ Goto(s, "modes")
  /\ UNCHANGED <<status, prev, superseded, stored, retrying, pageVars,
                 indexVars, apiVars, jobs, lock, job, attempt, round,
                 quickTodo, fullTodo, halfDone, replaces, toEmbed, sortVars,
                 used>>

\* At most three rounds; a later one picks up what was chosen meanwhile.
PlanRound(s) ==
  /\ pc[s] = "modes"
  /\ IF NoModes(Doc(s)) \/ round[s] = 3
     THEN Goto(s, "supersede") /\ UNCHANGED <<round, quickTodo, fullTodo>>
     ELSE /\ Goto(s, "extract")
          /\ round' = [round EXCEPT ![s] = @ + 1]
          /\ quickTodo' = [quickTodo EXCEPT ![s] = QuickModes(Doc(s))]
          /\ fullTodo' = [fullTodo EXCEPT ![s] = FullModes(Doc(s))]
  /\ UNCHANGED <<docVars, pageVars, indexVars, apiVars, jobs, lock, job,
                 attempt, offset, halfDone, replaces, toEmbed, sortVars,
                 used>>

\* The pool's threads, a page each.  The quick pass writes the pages row.
QuickPage(s, p) ==
  LET pg == <<Doc(s), p>>
  IN  /\ pc[s] \in {"extract", "draining"} /\ p \in quickTodo[s]
      /\ Exists(Doc(s))
      /\ quickTodo' = [quickTodo EXCEPT ![s] = @ \ {p}]
      /\ pictured' = pictured \cup {pg}
      /\ combined' = [combined EXCEPT ![pg] = offset[s] + p]
      /\ UNCHANGED <<docVars, full, kind, indexVars, apiVars, jobs, lock, pc,
                     job, attempt, round, offset, fullTodo, halfDone,
                     replaces, toEmbed, sortVars, used>>

\* The full pass replaces the page's chunks in one transaction ...
ReplaceChunks(s, p) ==
  LET pg == <<Doc(s), p>>
  IN  /\ pc[s] \in {"extract", "draining"}
      /\ p \in fullTodo[s] \ (quickTodo[s] \cup halfDone[s])
      /\ pg \in pictured
      /\ chunks' = chunks \cup {pg} /\ embedded' = embedded \ {pg}
      /\ halfDone' = [halfDone EXCEPT ![s] = @ \cup {p}]
      /\ UNCHANGED <<docVars, pageVars, points, apiVars, jobs, lock, pc,
                     job, attempt, round, offset, quickTodo, fullTodo,
                     replaces, toEmbed, sortVars, used>>

\* Mutant: the page is marked before its chunks are written.
MarkFullFirst(s, p) ==
  LET pg == <<Doc(s), p>>
  IN  /\ pc[s] \in {"extract", "draining"}
      /\ p \in fullTodo[s] \ quickTodo[s] /\ pg \in pictured
      /\ full' = full \cup {pg}
      /\ halfDone' = [halfDone EXCEPT ![s] = @ \ {p}]
      /\ fullTodo' = [fullTodo EXCEPT ![s] = @ \ {p}]
      /\ UNCHANGED <<docVars, pictured, kind, combined, indexVars, apiVars,
                     jobs, lock, pc, job, attempt, round, offset, quickTodo,
                     replaces, toEmbed, sortVars, used>>

\* ... and then marks it fully processed.
MarkFull(s, p) ==
  LET pg == <<Doc(s), p>>
  IN  /\ pc[s] \in {"extract", "draining"} /\ p \in halfDone[s]
      /\ full' = IF pg \in pictured THEN full \cup {pg} ELSE full
      /\ halfDone' = [halfDone EXCEPT ![s] = @ \ {p}]
      /\ fullTodo' = [fullTodo EXCEPT ![s] = @ \ {p}]
      /\ UNCHANGED <<docVars, pictured, kind, combined, indexVars, apiVars,
                     jobs, lock, pc, job, attempt, round, offset, quickTodo,
                     replaces, toEmbed, sortVars, used>>

\* A page raises, between its chunks and its mark too, or finds its rows gone.
\* Pages not begun may be cancelled; those under way finish and commit.
PageRaises(s, p) ==
  LET open == quickTodo[s] \cup fullTodo[s]
  IN  /\ pc[s] \in {"extract", "draining"} /\ p \in open
      /\ IF Exists(Doc(s)) \/ p \in halfDone[s] THEN Spend("error")
         ELSE UNCHANGED used
      /\ \E cancelled \in SUBSET (open \ halfDone[s]) :
           LET out == cancelled \cup {p}
           IN  /\ quickTodo' = [quickTodo EXCEPT ![s] = @ \ out]
               /\ fullTodo' = [fullTodo EXCEPT ![s] = @ \ out]
      /\ halfDone' = [halfDone EXCEPT ![s] = @ \ {p}]
      /\ Goto(s, "draining")
      /\ UNCHANGED <<docVars, pageVars, indexVars, apiVars, jobs, lock, job,
                     attempt, round, offset, replaces, toEmbed, sortVars>>

\* Mutant: the pool's exception is swallowed.
PoolDrainedSwallows(s) ==
  /\ pc[s] \in {"extract", "draining"}
  /\ quickTodo[s] = {} /\ fullTodo[s] = {}
  /\ Goto(s, IF pc[s] = "extract" THEN "modes" ELSE "supersede")
  /\ UNCHANGED <<docVars, pageVars, indexVars, apiVars, jobs, lock, job,
                 attempt, taskVars, sortVars, used>>

\* The pool has drained: another round, or the first exception is raised.
PoolDrained(s) ==
  /\ pc[s] \in {"extract", "draining"}
  /\ quickTodo[s] = {} /\ fullTodo[s] = {}
  /\ IF pc[s] = "extract"
     THEN /\ Goto(s, "modes")
          /\ UNCHANGED <<lock, taskVars>>
     ELSE /\ Goto(s, "failed")
          /\ lock' = Unlocked(s) /\ ClearTask(s)
  /\ UNCHANGED <<docVars, pageVars, indexVars, apiVars, jobs, job, attempt,
                 sortVars, used>>

\* Stage 3: every page of this revision is committed, so the one it replaces
\* is retired.
Supersede(s) ==
  LET d == Doc(s)
  IN  /\ pc[s] = "supersede"
      /\ IF ~Exists(d)
         THEN /\ Goto(s, "failed") /\ lock' = Unlocked(s) /\ ClearTask(s)
              /\ UNCHANGED superseded
         ELSE /\ replaces' = [replaces EXCEPT ![s] = prev[d]]
              /\ superseded' = superseded \cup ({prev[d]} \ {NoDoc})
              /\ Goto(s, "renumber")
              /\ UNCHANGED <<lock, round, offset, quickTodo, fullTodo,
                             halfDone, toEmbed>>
      /\ UNCHANGED <<status, prev, stored, counted, retrying, pageVars,
                     indexVars, apiVars, jobs, job, attempt, sortVars, used>>

\* Mutant: only the pages of this document are renumbered.
RenumberOwn(s) ==
  /\ pc[s] = "renumber"
  /\ combined' = [pg \in Pages |->
                    IF pg \in pictured /\ pg[1] = Doc(s)
                    THEN Manifest(pg, Live) ELSE combined[pg]]
  /\ Goto(s, "embed")
  /\ UNCHANGED <<docVars, pictured, full, kind, indexVars, apiVars, jobs,
                 lock, job, attempt, taskVars, sortVars, used>>

\* Stage 4: one statement, under the project lock, renumbers every page of
\* every live document.
Renumber(s) ==
  /\ pc[s] = "renumber"
  /\ combined' = [pg \in Pages |->
                    IF pg \in pictured /\ pg[1] \in Live
                    THEN Manifest(pg, Live) ELSE combined[pg]]
  /\ Goto(s, "embed")
  /\ UNCHANGED <<docVars, pictured, full, kind, indexVars, apiVars, jobs,
                 lock, job, attempt, taskVars, sortVars, used>>

\* Mutant: chunks are marked embedded before their points are written.
ReadChunksMarking(s) ==
  LET d == Doc(s)
  IN  /\ pc[s] = "embed"
      /\ IF ~Exists(d)
         THEN /\ Goto(s, "notify") /\ lock' = Unlocked(s) /\ ClearTask(s)
              /\ UNCHANGED embedded
         ELSE /\ toEmbed' = [toEmbed EXCEPT ![s] =
                   {p \in PageNos : <<d, p>> \in chunks \ embedded}]
              /\ embedded' = embedded \cup (chunks \cap PagesOf({d}))
              /\ Goto(s, "upsert")
              /\ UNCHANGED <<lock, round, offset, quickTodo, fullTodo,
                             halfDone, replaces>>
      /\ UNCHANGED <<docVars, pageVars, chunks, points, apiVars, jobs,
                     job, attempt, sortVars, used>>

\* Stage 5, a call at a time.  Chunks without an embeddingId are read ...
ReadChunks(s) ==
  LET d == Doc(s)
  IN  /\ pc[s] = "embed"
      /\ IF ~Exists(d)
         THEN Goto(s, "notify") /\ lock' = Unlocked(s) /\ ClearTask(s)
         ELSE /\ toEmbed' = [toEmbed EXCEPT ![s] =
                   {p \in PageNos : <<d, p>> \in chunks \ embedded}]
              /\ Goto(s, "upsert")
              /\ UNCHANGED <<lock, round, offset, quickTodo, fullTodo,
                             halfDone, replaces>>
      /\ UNCHANGED <<docVars, pageVars, indexVars, apiVars, jobs, job,
                     attempt, sortVars, used>>

\* ... their vectors are copied from the previous revision's points, or bought
\* from the provider, and put into Qdrant ...
UpsertPoints(s) ==
  /\ pc[s] = "upsert"
  /\ points' = points \cup {<<Doc(s), p>> : p \in toEmbed[s]}
  /\ Goto(s, "retire")
  /\ UNCHANGED <<docVars, pageVars, chunks, embedded, apiVars, jobs, lock, job,
                 attempt, taskVars, sortVars, used>>

\* ... the previous revision's points are deleted ...
DeleteOldPoints(s) ==
  /\ pc[s] = "retire"
  /\ points' = points \ PagesOf({replaces[s]})
  /\ Goto(s, "mark")
  /\ UNCHANGED <<docVars, pageVars, chunks, embedded, apiVars, jobs,
                 lock, job, attempt, taskVars, sortVars, used>>

\* ... and the chunks are marked embedded.
MarkEmbedded(s) ==
  /\ pc[s] = "mark"
  /\ embedded' = embedded \cup {pg \in chunks : pg[1] = Doc(s)
                                                /\ pg[2] \in toEmbed[s]}
  /\ Goto(s, "finalize")
  /\ UNCHANGED <<docVars, pageVars, chunks, points, apiVars, jobs, lock,
                 job, attempt, taskVars, sortVars, used>>

\* Stage 6: completed, and no problem any more.
Finalize(s) ==
  /\ pc[s] = "finalize"
  /\ status' = IF Exists(Doc(s)) THEN [status EXCEPT ![Doc(s)] = "completed"]
               ELSE status
  /\ retrying' = retrying \ {Doc(s)}
  /\ Goto(s, "unlock")
  /\ UNCHANGED <<prev, superseded, stored, counted, pageVars, indexVars,
                 apiVars, jobs, lock, job, attempt, taskVars, sortVars, used>>

Unlock(s) ==
  /\ pc[s] = "unlock"
  /\ lock' = Unlocked(s) /\ ClearTask(s)
  /\ Goto(s, "notify")
  /\ UNCHANGED <<docVars, pageVars, indexVars, apiVars, jobs, job, attempt,
                 sortVars, used>>

-----------------------------------------------------------------------------
(* worker.py: what surrounds the pipeline.                                 *)

\* A success, even a discarded one, queues a title-block read.
Notify(s) ==
  /\ pc[s] = "notify"
  /\ scrapePending' = (scrapePending \/ HasRegion)
  /\ Goto(s, "complete")
  /\ UNCHANGED <<docVars, pageVars, indexVars, apiVars, jobs, lock, job,
                 attempt, taskVars, sortedEvent, used>>

\* BullMQ completes the job, if this slot still has it.
CompleteJob(s) ==
  /\ pc[s] = "complete"
  /\ jobs' = IF Owns(s) THEN [jobs EXCEPT ![job[s]] = FreeJob] ELSE jobs
  /\ Goto(s, "idle")
  /\ job' = [job EXCEPT ![s] = <<1, 1>>]
  /\ attempt' = [attempt EXCEPT ![s] = 0]
  /\ UNCHANGED <<docVars, pageVars, indexVars, apiVars, lock, taskVars,
                 sortVars, used>>

\* Any other call of the handler raises, that for the lock too.
Raise(s) ==
  /\ pc[s] \in {"claimed", "start", "open", "modes", "supersede", "renumber", "embed",
                "upsert", "retire", "mark", "finalize", "notify"}
  /\ Spend("error")
  /\ Goto(s, "failed") /\ lock' = Unlocked(s) /\ ClearTask(s)
  /\ UNCHANGED <<docVars, pageVars, indexVars, apiVars, jobs, job, attempt,
                 sortVars>>

\* Mutant: the row promises a retry of an error that is permanent too.
HandleFailurePermanent(s) ==
  LET d == Doc(s)
      id == job[s]
      promised == attempt[s] < MaxAttempts
  IN  /\ pc[s] = "failed"
      /\ IF Exists(d)
         THEN /\ status' = [status EXCEPT ![d] =
                              IF promised THEN "processing" ELSE "failed"]
              /\ retrying' = IF promised THEN retrying \cup {d}
                             ELSE retrying \ {d}
         ELSE UNCHANGED <<status, retrying>>
      /\ \E permanent \in BOOLEAN :
           jobs' = IF ~Owns(s) THEN jobs
                   ELSE [jobs EXCEPT ![id] =
                           IF promised /\ ~permanent
                           THEN [@ EXCEPT !.state = "waiting",
                                          !.holder = NoSlot,
                                          !.attempts = attempt[s]]
                           ELSE FreeJob]
      /\ Goto(s, "idle")
      /\ job' = [job EXCEPT ![s] = <<1, 1>>]
      /\ attempt' = [attempt EXCEPT ![s] = 0]
      /\ UNCHANGED <<prev, superseded, stored, counted, pageVars, indexVars,
                     apiVars, lock, taskVars, sortVars, used>>

\* The except clause: the document says whether a retry is coming (a failed
\* write is only logged), then the job fails in BullMQ, if this slot still has
\* it.  Some kinds of error are permanent.
HandleFailure(s) ==
  LET d == Doc(s)
      id == job[s]
  IN  /\ pc[s] = "failed"
      /\ \E permanent \in BOOLEAN :
           LET retry == attempt[s] < MaxAttempts /\ ~permanent
           IN  /\ \/ /\ Exists(d)
                     /\ status' = [status EXCEPT ![d] =
                                     IF retry THEN "processing" ELSE "failed"]
                     /\ retrying' = IF retry THEN retrying \cup {d}
                                    ELSE retrying \ {d}
                     /\ UNCHANGED used
                  \/ ~Exists(d) /\ UNCHANGED <<status, retrying, used>>
                  \/ /\ Exists(d) /\ Spend("unwritten")
                     /\ UNCHANGED <<status, retrying>>
               /\ jobs' = IF ~Owns(s) THEN jobs
                          ELSE [jobs EXCEPT ![id] =
                            IF retry THEN [@ EXCEPT !.state = "waiting",
                                             !.holder = NoSlot,
                                             !.attempts = attempt[s]]
                            ELSE FreeJob]
      /\ Goto(s, "idle")
      /\ job' = [job EXCEPT ![s] = <<1, 1>>]
      /\ attempt' = [attempt EXCEPT ![s] = 0]
      /\ UNCHANGED <<prev, superseded, stored, counted, pageVars, indexVars,
                     apiVars, lock, taskVars, sortVars>>

-----------------------------------------------------------------------------
ApiStep ==
  \/ \E d \in Docs : \/ \E p \in Docs \cup {NoDoc} : InitiateUpload(d, p)
                     \/ CompleteUpload(d) \/ Reprocess(d)
                     \/ DeleteRow(d) \/ CleanUpDeleted(d) \/ ReindexOne(d)
  \/ \E reembed \in BOOLEAN : Reindex(reembed)
  \/ \E k \in Kinds : ChooseDisciplines(k)

PageStep(s) == \E p \in PageNos : \/ QuickPage(s, p) \/ ReplaceChunks(s, p)
                                  \/ MarkFull(s, p)

\* What a live execution goes on to do by itself.
WorkStep(s) ==
  \/ TryLock(s) \/ Start(s) \/ OpenPdf(s) \/ PlanRound(s) \/ PageStep(s)
  \/ (~Exists(Doc(s)) /\ \E p \in PageNos : PageRaises(s, p))
  \/ PoolDrained(s) \/ Supersede(s) \/ Renumber(s) \/ ReadChunks(s)
  \/ UpsertPoints(s) \/ DeleteOldPoints(s) \/ MarkEmbedded(s) \/ Finalize(s)
  \/ Unlock(s) \/ Notify(s) \/ CompleteJob(s) \/ HandleFailure(s)

FaultStep(s) == \/ Crash(s) \/ Raise(s) \/ \E p \in PageNos : PageRaises(s, p)

Next ==
  \/ ApiStep \/ ReadTitleBlocks \/ ListenForSortedPages
  \/ \E id \in JobIds : StallJob(id) \/ \E s \in Slots : TakeJob(s, id)
  \/ \E s \in Slots : WorkStep(s) \/ FaultStep(s)

\* Executions run on, waiting jobs are taken, an orphaned job is found
\* stalled, and the title-block read and its listener run.  Nobody is obliged
\* to press a button.
Fairness ==
  /\ \A s \in Slots : WF_vars(WorkStep(s))
  /\ \A id \in JobIds : /\ WF_vars(\E s \in Slots : TakeJob(s, id))
                        /\ WF_vars(jobs[id].holder = NoSlot /\ StallJob(id))
  /\ \A d \in Docs : WF_vars(ReindexOne(d)) /\ WF_vars(CleanUpDeleted(d))
  /\ WF_vars(ReadTitleBlocks) /\ WF_vars(ListenForSortedPages)

Spec     == Init /\ [][Next]_vars
FairSpec == Spec /\ Fairness

-----------------------------------------------------------------------------
(* What must hold.                                                         *)

Labels == {"idle", "claimed", "start", "open", "modes", "extract", "draining",
           "supersede", "renumber", "embed", "upsert", "retire", "mark",
           "finalize", "unlock", "notify", "complete", "failed"}
\* Between taking the document's lock and releasing it.
Holding == {"start", "open", "modes", "extract", "draining", "supersede",
            "renumber", "embed", "upsert", "retire", "mark", "finalize",
            "unlock"}
Statuses == {"absent", "uploaded", "processing", "completed", "failed",
             "deleted", "gone"}
Job == [state : {"none", "waiting", "active"}, holder : Slots \cup {NoSlot},
        attempts : Nat, stalls : Nat, dedup : BOOLEAN]

\* Every variable has its type.
TypeOK ==
  /\ status \in [Docs -> Statuses] /\ prev \in [Docs -> Docs \cup {NoDoc}]
  /\ superseded \subseteq Docs /\ stored \subseteq Docs
  /\ counted \subseteq Docs /\ retrying \subseteq Docs
  /\ pictured \subseteq Pages /\ full \subseteq Pages
  /\ kind \in [Pages -> Kinds] /\ combined \in [Pages -> Nat]
  /\ chunks \subseteq Pages /\ embedded \subseteq Pages
  /\ points \subseteq Pages
  /\ chosen \subseteq Kinds /\ toReindex \subseteq Docs
  /\ jobs \in [JobIds -> Job] /\ lock \in [Docs -> Slots \cup {NoSlot}]
  /\ pc \in [Slots -> Labels] /\ job \in [Slots -> JobIds]
  /\ attempt \in [Slots -> Nat] /\ round \in [Slots -> Nat]
  /\ offset \in [Slots -> Nat]
  /\ quickTodo \in [Slots -> SUBSET PageNos]
  /\ fullTodo \in [Slots -> SUBSET PageNos]
  /\ halfDone \in [Slots -> SUBSET PageNos]
  /\ replaces \in [Slots -> Docs \cup {NoDoc}]
  /\ toEmbed \in [Slots -> SUBSET PageNos]
  /\ scrapePending \in BOOLEAN /\ sortedEvent \in BOOLEAN
  /\ used \in [Budgets -> Nat]

\* document_lock: one document is never processed by two executions at once,
\* although BullMQ delivers a job again while its first execution goes on.
OneExecutionPerDocument ==
  \A s, t \in Slots :
    pc[s] \in Holding /\ pc[t] \in Holding /\ Doc(s) = Doc(t) => s = t

\* A page marked fully processed is never read again, so whatever fails,
\* crashes or overlaps, it must have its chunks by then.
FullPagesHaveChunks == full \subseteq chunks

\* A revision leaves the combined set only when the one that replaces it can
\* be looked at, page for page.
RetiredOnlyWhenReplaced ==
  \A d \in superseded, e \in Docs :
    Exists(d) /\ prev[e] = d => PagesOf({e}) \subseteq pictured

\* A completed document can be looked at, page for page.
CompletedIsViewable ==
  \A d \in Docs : status[d] = "completed" =>
    d \in counted /\ PagesOf({d}) \subseteq pictured

\* Chat finds what the full pass has read: when a live document is completed,
\* every page it has processed is embedded and its point is there.
CompletedIsSearchable ==
  \A d \in Live : status[d] = "completed" =>
    full \cap PagesOf({d}) \subseteq embedded \cap points

\* With every document that has pages completed, the worker's page numbers
\* are the manifest's (apps/api/src/lib/manifest.ts).
CompletedSetIsNumbered ==
  (\A d \in counted : status[d] = "completed") =>
    \A pg \in pictured : pg[1] \in Live => combined[pg] = Manifest(pg, Live)

\* A document that says it will be tried again by itself has a job that will.
RetryIsQueued ==
  \A d \in retrying : \E n \in 1 .. MaxJobs : jobs[<<d, n>>].state # "none"

\* In a project that processes everything, a completed document has been read
\* page for page, however many rounds, attempts and executions that took: chat
\* will not look for what is missing.
EverythingIsRead ==
  ProcessAll => \A d \in Docs : status[d] = "completed" => PagesOf({d}) \subseteq full

\* What is queued comes to an end.
UploadsSettle ==
  \A d \in Docs : d \in stored /\ status[d] \in {"uploaded", "processing"}
                    ~> status[d] \notin {"uploaded", "processing"}

\* The pipeline keeps what DocumentLifecycle promises.
Lifecycle == INSTANCE DocumentLifecycle WITH
  state <- [d \in Docs |-> IF status[d] = "gone" THEN "deleted" ELSE status[d]],
  revises <- prev, retired <- superseded, viewable <- pictured, read <- full
KeepsPromises == Lifecycle!Spec
=============================================================================
