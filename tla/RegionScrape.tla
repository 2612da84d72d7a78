---------------------------- MODULE RegionScrape ----------------------------
(***************************************************************************)
(* The title-block read of one project (routes/region.ts, routes/pages.ts, *)
(* workers/src/scrape.py, classify.py and the rows of db.py they write):   *)
(* a person draws one box, jobs read it on every page, sort the pages into *)
(* kinds (disciplines) and rebuild one group (portion) per kind, while     *)
(* people redraw the box, move pages by hand, upload pages, and summaries  *)
(* are made of the groups.                                                 *)
(*                                                                         *)
(* A transaction is one action.  What a box holds and what a reader makes  *)
(* of it is any kind, or none.                                             *)
(***************************************************************************)
EXTENDS Integers, FiniteSets, FiniteSetsExt

CONSTANTS
  NumPages,     \* pages of the project, in combined order
  Kinds,        \* disciplines a page can be read as or moved to
  NoKind, Unclassified,
  Jobs,         \* jobs the queue holds at a time
  NoJob,
  Slots,        \* SCRAPE_CONCURRENCY, over all worker processes
  MaxAttempts,  \* attempts of a job the API queues (queues.ts)
  MaxBoxes,     \* bounds how often a box is drawn
  MaxRequests,  \* bounds moves by hand, uploads and repeated reads
  MaxFaults     \* bounds exceptions, crashes and pages a file lacks

ASSUME RegionScrapeAssumption ==
  /\ NumPages \in Nat \ {0} /\ Slots \in Nat \ {0} /\ MaxAttempts \in Nat \ {0}
  /\ NoKind \notin Kinds \cup {Unclassified} /\ Unclassified \notin Kinds
  /\ IsFiniteSet(Jobs) /\ NoJob \notin Jobs
  /\ MaxBoxes \in Nat /\ MaxRequests \in Nat /\ MaxFaults \in Nat

VARIABLES
  region,    \* the row of sheet_regions; version 0 is no row
  page,      \* the rows of pages
  group,     \* the rows of portions: the pages each one counts
  summary,   \* summaryStatus of each group, and the pages the summary is of
  job,       \* the scrape-region queue and the executions of its handler
  section,   \* the job that holds the project lock
  asked,     \* requests that have written their row and not queued the job
  drawn, requests, faults,  \* how much of the bounds is used
  redrawn,   \* history: a box was drawn where one had been cleared
  gaveUp,    \* history: a job failed for good, or failed and was then superseded
  late       \* history: the pages moved by hand after a job had read its rows

rowVars == <<region, page, group, summary>>
boundVars == <<drawn, requests, faults>>
historyVars == <<redrawn, gaveUp, late>>
vars == <<rowVars, job, section, asked, boundVars, historyVars>>

Pages == 1..NumPages
AllKinds == Kinds \cup {Unclassified}
Boxes == 0..MaxBoxes
NoRegion == [version |-> 0, status |-> "none", box |-> 0]
NoPage == [there |-> FALSE, text |-> 0, version |-> 0, kind |-> NoKind,
           source |-> "none"]
NoSummary == [state |-> "none", of |-> {}]
FreeJob == [pc |-> "free", version |-> 0, scope |-> {},
            attempts |-> 0, tries |-> 0, stalled |-> FALSE, box |-> 0,
            before |-> [k \in AllKinds |-> {}], todo |-> {}, live |-> {}, blank |-> {},
            kind |-> [p \in Pages |-> NoKind]]
NothingAsked == [box |-> {}, move |-> {}, page |-> {}]

Init ==
  /\ region = NoRegion
  /\ \E n \in 0..NumPages :
       page = [p \in Pages |-> [NoPage EXCEPT !.there = p <= n]]
  /\ group = [k \in AllKinds |-> {}]
  /\ summary = [k \in AllKinds |-> NoSummary]
  /\ job = [j \in Jobs |-> FreeJob]
  /\ section = NoJob
  /\ asked = NothingAsked
  /\ drawn = 0 /\ requests = 0 /\ faults = 0
  /\ redrawn = FALSE /\ gaveUp = FALSE /\ late = {}

-----------------------------------------------------------------------------
Live == {p \in Pages : page[p].there}
Boxed == region.version # 0
Waiting(j) == job[j].pc = "waiting"
Active(j) == job[j].pc \notin {"free", "waiting"}
Becomes(j, e) == job' = [job EXCEPT ![j] = e]

\* The pages that carry each group's kind: db.portion_page_ids.
PortionPages ==
  [k \in AllKinds |->
     IF group[k] = {} THEN {} ELSE {p \in Live : page[p].kind = k}]

\* scrapeRegionQueue.add("scrape", ...)
NewJob(version, scope, attempts) ==
  \E j \in Jobs :
    /\ job[j].pc = "free"
    /\ Becomes(j, [FreeJob EXCEPT !.pc = "waiting", !.version = version,
                                  !.scope = scope, !.attempts = attempts])

(***************************************************************************)
(* People.                                                                 *)
(***************************************************************************)

\* PUT /region creates the row, at version 1, or moves the box and counts up.
DrawBox ==
  /\ drawn < MaxBoxes
  /\ drawn' = drawn + 1
  /\ region' = [version |-> region.version + 1, status |-> "pending",
                box |-> drawn + 1]
  /\ asked' = [asked EXCEPT !.box = @ \cup {region.version + 1}]
  /\ redrawn' = (redrawn \/ (~Boxed /\ drawn > 0))
  /\ UNCHANGED <<page, group, summary, job, section, requests, faults, gaveUp,
                 late>>

\* POST /region/rescrape
Rescrape ==
  /\ requests < MaxRequests
  /\ Boxed /\ region.status # "running"
  /\ requests' = requests + 1
  /\ region' = [region EXCEPT !.status = "pending"]
  /\ asked' = [asked EXCEPT !.box = @ \cup {region.version}]
  /\ UNCHANGED <<page, group, summary, job, section, drawn, faults,
                 historyVars>>

\* DELETE /region: pages and groups stay as they are.
ClearBox ==
  /\ Boxed
  /\ region' = NoRegion
  /\ UNCHANGED <<page, group, summary, job, section, asked, boundVars,
                 historyVars>>

\* PATCH /pages/:combined/discipline writes the page ...
MovePage(p, k) ==
  /\ requests < MaxRequests
  /\ page[p].there
  /\ requests' = requests + 1
  /\ page' = [page EXCEPT ![p].kind = k, ![p].source = "manual"]
  /\ asked' = [asked EXCEPT !.move = @ \cup {p}]
  /\ late' = IF \E j \in Jobs : job[j].pc = "sort" THEN late \cup {p}
             ELSE late \ {p}
  /\ UNCHANGED <<region, group, summary, job, section, drawn, faults, redrawn,
                 gaveUp>>

\* ... and, if there is a box, has the groups rebuilt.
QueueMove(p) ==
  /\ p \in asked.move
  /\ asked' = [asked EXCEPT !.move = @ \ {p}]
  /\ IF Boxed THEN NewJob(region.version, Pages, MaxAttempts) ELSE UNCHANGED job
  /\ UNCHANGED <<rowVars, section, boundVars, historyVars>>

\* A drawn or repeated box queues its job.
QueueBox(version) ==
  /\ version \in asked.box
  /\ asked' = [asked EXCEPT !.box = @ \ {version}]
  /\ NewJob(version, Pages, MaxAttempts)
  /\ UNCHANGED <<rowVars, section, boundVars, historyVars>>

\* A document is uploaded (of one page, the last) ...
AddPage(p) ==
  /\ requests < MaxRequests
  /\ ~page[p].there /\ \A q \in 1..(p - 1) : page[q].there
  /\ requests' = requests + 1
  /\ page' = [page EXCEPT ![p].there = TRUE]
  /\ asked' = [asked EXCEPT !.page = @ \cup {p}]
  /\ UNCHANGED <<region, group, summary, job, section, drawn, faults,
                 historyVars>>

\* ... and, once processed, read with the project's box: worker.py, which gives the
\* job one attempt.
QueuePage(p) ==
  /\ p \in asked.page
  /\ asked' = [asked EXCEPT !.page = @ \ {p}]
  /\ IF Boxed THEN NewJob(region.version, {p}, 1) ELSE UNCHANGED job
  /\ UNCHANGED <<rowVars, section, boundVars, historyVars>>

\* A group's summary is made, of the pages that carry its kind.
Summarize(k) ==
  /\ group[k] # {}
  /\ summary[k].state # "ready"
  /\ summary' = [summary EXCEPT ![k] = [state |-> "ready",
                                        of |-> PortionPages[k]]]
  /\ UNCHANGED <<region, page, group, job, section, asked, boundVars,
                 historyVars>>

(***************************************************************************)
(* The worker: scrape.run.                                                 *)
(***************************************************************************)

\* A job for a box that is gone or has moved is discarded, one that had failed
\* half-way too.
Discard(j) ==
  /\ Waiting(j)
  /\ region.version # job[j].version
  /\ Becomes(j, FreeJob)
  /\ gaveUp' = (gaveUp \/ job[j].tries > 0 \/ job[j].stalled)
  /\ UNCHANGED <<rowVars, section, asked, boundVars, redrawn, late>>

\* The version is compared once, and the box is that of the row read here.
Take(j) ==
  /\ Waiting(j)
  /\ region.version = job[j].version
  /\ Cardinality({i \in Jobs : Active(i)}) < Slots
  /\ Becomes(j, [job[j] EXCEPT !.pc = "begun", !.box = region.box])
  /\ UNCHANGED <<rowVars, section, asked, boundVars, historyVars>>

\* db.set_region_status: an UPDATE, of no row when the box was cleared.
SetStatus(s) == region' = IF Boxed THEN [region EXCEPT !.status = s] ELSE region

\* What the groups are now, and which pages were not read at this version.
Plan(j) ==
  /\ job[j].pc = "begun"
  /\ Becomes(j, [job[j] EXCEPT !.pc = "scraping", !.before = PortionPages,
       !.todo = {p \in Live \cap job[j].scope :
                   page[p].version # job[j].version}])
  /\ SetStatus("running")
  /\ UNCHANGED <<page, group, summary, section, asked, boundVars, historyVars>>

\* Mutant: the version of the row, not of the job, goes on the page.
ScrapePageAsCurrent(j) ==
  /\ job[j].pc = "scraping" /\ job[j].todo # {}
  /\ LET p == Min(job[j].todo)
     IN /\ Becomes(j, [job[j] EXCEPT !.todo = @ \ {p}])
        /\ page' = [page EXCEPT ![p].text = job[j].box,
                                ![p].version = region.version]
  /\ UNCHANGED <<region, group, summary, section, asked, boundVars,
                 historyVars>>

\* One page is read in the box, and committed.
ScrapePage(j) ==
  /\ job[j].pc = "scraping" /\ job[j].todo # {}
  /\ LET p == Min(job[j].todo)
     IN /\ Becomes(j, [job[j] EXCEPT !.todo = @ \ {p}])
        /\ page' = [page EXCEPT ![p].text = job[j].box,
                                ![p].version = job[j].version]
  /\ UNCHANGED <<region, group, summary, section, asked, boundVars,
                 historyVars>>

\* The file has fewer pages than the rows say.
SkipPage(j) ==
  /\ faults < MaxFaults
  /\ faults' = faults + 1
  /\ job[j].pc = "scraping" /\ job[j].todo # {}
  /\ Becomes(j, [job[j] EXCEPT !.todo = @ \ {Min(@)}])
  /\ UNCHANGED <<rowVars, section, asked, drawn, requests, historyVars>>

\* Mutant: the rebuilds of a project are not serialized.
EnterSectionAnyway(j) ==
  /\ job[j].pc = "scraping" /\ job[j].todo = {}
  /\ section' = j
  /\ Becomes(j, [job[j] EXCEPT !.pc = "rows"])
  /\ UNCHANGED <<rowVars, asked, boundVars, historyVars>>

\* db.project_lock, waited for.
EnterSection(j) ==
  /\ job[j].pc = "scraping" /\ job[j].todo = {}
  /\ section = NoJob
  /\ section' = j
  /\ Becomes(j, [job[j] EXCEPT !.pc = "rows"])
  /\ UNCHANGED <<rowVars, asked, boundVars, historyVars>>

ByHand(p) == page[p].source = "manual" /\ page[p].kind # NoKind
SourceOf(k) == IF k = NoKind THEN "none" ELSE "read"

\* classify.fill_unresolved: the kind of the nearest page before, else after.
Filled(live, kind, p) ==
  LET sorted == {q \in live : kind[q] # NoKind}
      before == {q \in sorted : q <= p}
  IN IF before # {} THEN kind[Max(before)]
     ELSE IF sorted # {} THEN kind[Min(sorted)]
     ELSE Unclassified

\* The pages whose stored kind or source is not what was read.
Rewritten(kind) ==
  {p \in Live : \/ kind[p] # page[p].kind
                \/ SourceOf(kind[p]) # page[p].source}

\* A reading that leaves the pages of a set as they are.
ReadRowsBut(j, kept) ==
  /\ job[j].pc = "rows" /\ Live # {}
  /\ \E kind \in [Pages -> Kinds \cup {NoKind}] :
       /\ \A p \in Pages \ Live : kind[p] = NoKind
       /\ \A p \in kept : kind[p] = page[p].kind
       /\ \E renumbered \in SUBSET {p \in Live \ (Rewritten(kind) \cup kept) :
                                      kind[p] # NoKind} :
            Becomes(j, [job[j] EXCEPT !.pc = "sort", !.kind = kind,
              !.todo = (Rewritten(kind) \cup renumbered) \ kept,
              !.blank = {p \in Live : kind[p] = NoKind
                           /\ page[p].kind # Filled(Live, kind, p)},
              !.live = Live])
  /\ UNCHANGED <<rowVars, section, asked, boundVars, historyVars>>

\* Mutant: a page moved by hand is read like any other.
ReadRowsOfAll(j) == ReadRowsBut(j, {})

\* The rows are read, then a model or the rules read the texts; what a person
\* set is taken as it is.  What will be written is decided by these rows: pages
\* whose kind or source is another now, or whose sheet number is.
ReadRows(j) == ReadRowsBut(j, {p \in Live : ByHand(p)})

\* A project without pages loses its groups.
ReadNoRows(j) ==
  /\ job[j].pc = "rows" /\ Live = {}
  /\ group' = [k \in AllKinds |-> {}]
  /\ summary' = [k \in AllKinds |-> NoSummary]
  /\ Becomes(j, [job[j] EXCEPT !.pc = "flag"])
  /\ UNCHANGED <<region, page, section, asked, boundVars, historyVars>>

\* db.set_page_sheet, page by page, without a look at the row.
WriteSheet(j) ==
  /\ job[j].pc = "sort" /\ job[j].todo # {}
  /\ LET p == Min(job[j].todo)
     IN /\ Becomes(j, [job[j] EXCEPT !.todo = @ \ {p}])
        /\ page' = [page EXCEPT ![p].kind = job[j].kind[p],
                                ![p].source = SourceOf(job[j].kind[p])]
  /\ UNCHANGED <<region, group, summary, section, asked, boundVars,
                 historyVars>>

\* A page without a reading takes its neighbour's kind, unless its row, as
\* read, had that kind already.
WriteInherited(j) ==
  /\ job[j].pc = "sort" /\ job[j].todo = {} /\ job[j].blank # {}
  /\ LET p == Min(job[j].blank)
     IN /\ Becomes(j, [job[j] EXCEPT !.blank = @ \ {p}])
        /\ page' = [page EXCEPT
             ![p].kind = Filled(job[j].live, job[j].kind, p),
             ![p].source = "inherited"]
  /\ UNCHANGED <<region, group, summary, section, asked, boundVars,
                 historyVars>>

\* classify.group_portions, db.upsert_portions: a kind without a page loses its
\* row, and with it its summary.
Group(j) ==
  /\ job[j].pc = "sort" /\ job[j].todo = {} /\ job[j].blank = {}
  /\ group' = [k \in AllKinds |->
       {p \in job[j].live : Filled(job[j].live, job[j].kind, p) = k}]
  /\ summary' = [k \in AllKinds |->
                   IF group'[k] = {} THEN NoSummary ELSE summary[k]]
  /\ Becomes(j, [job[j] EXCEPT !.pc = "flag"])
  /\ UNCHANGED <<region, page, section, asked, boundVars, historyVars>>

\* Summaries of groups whose pages changed since Plan are flagged; the lock is
\* left.
Flag(j) ==
  /\ job[j].pc = "flag"
  /\ summary' = [k \in AllKinds |->
       IF /\ PortionPages[k] \notin {{}, job[j].before[k]}
          /\ summary[k].state = "ready"
       THEN [summary[k] EXCEPT !.state = "stale"] ELSE summary[k]]
  /\ section' = NoJob
  /\ Becomes(j, [job[j] EXCEPT !.pc = "finish"])
  /\ UNCHANGED <<region, page, group, asked, boundVars, historyVars>>

Finish(j) ==
  /\ job[j].pc = "finish"
  /\ SetStatus("completed")
  /\ Becomes(j, FreeJob)
  /\ UNCHANGED <<page, group, summary, section, asked, boundVars, historyVars>>

-----------------------------------------------------------------------------
InTry(j) == job[j].pc \in {"scraping", "rows", "sort", "flag"}

\* Leaving the section, in any way, ends the lock's session.
Unlocked(j) == IF section = j THEN NoJob ELSE section

\* BullMQ runs the job again, from the start, or fails it for good.
Again(j) ==
  [FreeJob EXCEPT !.pc = "waiting", !.version = job[j].version,
                  !.scope = job[j].scope, !.attempts = job[j].attempts,
                  !.tries = job[j].tries + 1, !.stalled = job[j].stalled]

\* An exception: recorded on the region when the run had begun, and retried.
Raise(j) ==
  /\ faults < MaxFaults
  /\ faults' = faults + 1
  /\ Active(j)
  /\ IF InTry(j) THEN SetStatus("failed") ELSE UNCHANGED region
  /\ section' = Unlocked(j)
  /\ IF job[j].tries + 1 < job[j].attempts
       THEN Becomes(j, Again(j)) /\ UNCHANGED gaveUp
       ELSE Becomes(j, FreeJob) /\ gaveUp' = TRUE
  /\ UNCHANGED <<page, group, summary, asked, drawn, requests, redrawn, late>>

\* The worker dies: the lock goes with its session, the job is found stalled
\* and delivered once more.
Crash(j) ==
  /\ faults < MaxFaults
  /\ faults' = faults + 1
  /\ Active(j)
  /\ section' = Unlocked(j)
  /\ IF job[j].stalled
       THEN Becomes(j, FreeJob) /\ gaveUp' = TRUE
       ELSE /\ Becomes(j, [Again(j) EXCEPT !.tries = job[j].tries,
                                           !.stalled = TRUE])
            /\ UNCHANGED gaveUp
  /\ UNCHANGED <<rowVars, asked, drawn, requests, redrawn, late>>

-----------------------------------------------------------------------------
Person ==
  \/ DrawBox \/ Rescrape \/ ClearBox
  \/ \E p \in Pages : AddPage(p) \/ \E k \in Kinds : MovePage(p, k)
  \/ \E k \in AllKinds : Summarize(k)

Request ==
  \/ \E v \in 1..MaxBoxes : QueueBox(v)
  \/ \E p \in Pages : QueueMove(p) \/ QueuePage(p)

Run(j) ==
  \/ Discard(j) \/ Take(j) \/ Plan(j)
  \/ ScrapePage(j) \/ SkipPage(j)
  \/ EnterSection(j) \/ ReadRows(j) \/ ReadNoRows(j)
  \/ WriteSheet(j) \/ WriteInherited(j) \/ Group(j) \/ Flag(j)
  \/ Finish(j)

Next == Person \/ Request \/ \E j \in Jobs : Run(j) \/ Raise(j) \/ Crash(j)

Spec == Init /\ [][Next]_vars

-----------------------------------------------------------------------------
(* Properties.                                                             *)

PageRow == [there: BOOLEAN, text: Boxes, version: Boxes,
            kind: AllKinds \cup {NoKind},
            source: {"none", "read", "inherited", "manual"}]
JobRow == [pc: {"free", "waiting", "begun", "scraping", "rows", "sort", "flag",
                "finish"},
           version: Boxes, scope: SUBSET Pages,
           attempts: {0, 1, MaxAttempts}, tries: 0..MaxAttempts,
           stalled: BOOLEAN, box: Boxes, before: [AllKinds -> SUBSET Pages],
           todo: SUBSET Pages, live: SUBSET Pages, blank: SUBSET Pages,
           kind: [Pages -> Kinds \cup {NoKind, Unclassified}]]

\* Every variable keeps to its type.
TypeOK ==
  /\ region \in [version: Boxes, box: Boxes,
                status: {"none", "pending", "running", "completed", "failed"}]
  /\ page \in [Pages -> PageRow]
  /\ group \in [AllKinds -> SUBSET Pages]
  /\ summary \in [AllKinds -> [state: {"none", "ready", "stale"},
                              of: SUBSET Pages]]
  /\ job \in [Jobs -> JobRow]
  /\ section \in Jobs \cup {NoJob}
  /\ asked \in [box: SUBSET (1..MaxBoxes), move: SUBSET Pages,
               page: SUBSET Pages]
  /\ drawn \in 0..MaxBoxes
  /\ requests \in 0..MaxRequests /\ faults \in 0..MaxFaults
  /\ redrawn \in BOOLEAN /\ gaveUp \in BOOLEAN
  /\ late \in SUBSET Pages

Quiet == asked = NothingAsked /\ \A j \in Jobs : job[j].pc = "free"

\* A page whose stored version is that of the box was read in that box: what
\* makes it right to read only pages of another version (db.pages_to_scrape),
\* with jobs of two boxes running at once.  It needs that no box is drawn
\* where one was cleared: then the versions start again.
VersionTellsBox ==
  ~redrawn => \A p \in Pages :
    Boxed /\ page[p].version = region.version => page[p].text = region.box

\* When nothing is left to do, every page that has a kind is counted in the
\* group of that kind (scrape._classify_pages under db.project_lock), however
\* reads, moves by hand and uploads were interleaved; unless a job failed for
\* good, or failed half-way and was then discarded because its box was redrawn
\* (scrape.py:254-262), when what it wrote waits for the next read.
PagesAreGrouped ==
  Quiet /\ Boxed /\ ~gaveUp =>
    \A p \in Live : page[p].kind # NoKind => p \in group[page[p].kind]

\* A page that a person moved stays where it was put, whatever reads come
\* after; only a read that had its rows before the move can take it back
\* (scrape.py:128 keeps manual pages, db.set_page_sheet does not look).
MovesStand ==
  [][\A p \in Pages :
       ByHand(p) /\ page'[p].kind # page[p].kind =>
         p \in late \/ page'[p].source = "manual"]_vars
=============================================================================
