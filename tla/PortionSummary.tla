--------------------------- MODULE PortionSummary ---------------------------
(***************************************************************************)
(* Discipline summaries on request (routes/portions.ts, routes/summaries.ts,*)
(* workers/src/summarize.py, cache.py): a person presses a button, a job   *)
(* summarises the pages it has not summarised yet, replaces the rollups of *)
(* the portion, and drops the cached list that readers fill again.         *)
(* Meanwhile others press, pages are processed again or moved to another   *)
(* discipline, and workers die or are late.                                *)
(*                                                                         *)
(* A transaction is one action.  A summary is what it was made of.         *)
(***************************************************************************)
EXTENDS Integers, Sequences, FiniteSets

CONSTANTS
  Portions, Elsewhere, \* disciplines, and any other one
  NumPages,            \* pages of the project, in combined order
  SectionSize,         \* SECTION_SIZE
  Presses,             \* requests for a summary being served at a time
  Readers,             \* requests for the list of summaries
  Jobs, NoJob,         \* jobs of the queue
  Workers, NoWorker,   \* executions of the handler, in any worker process
  MaxStalls,           \* how often BullMQ forgives a job that stalls
  MaxPresses,          \* bounds the presses
  MaxChanges,          \* bounds pages processed again or moved
  MaxFaults            \* bounds crashes, lapses, errors, answers that come to nothing
                       \* and late heartbeats

ASSUME PortionSummaryAssumption ==
  /\ Elsewhere \notin Portions /\ NoJob \notin Jobs /\ NoWorker \notin Workers
  /\ NumPages \in Nat \ {0} /\ SectionSize \in Nat \ {0}
  /\ MaxStalls \in Nat /\ MaxPresses \in Nat /\ MaxChanges \in Nat /\ MaxFaults \in Nat

VARIABLES
  row,      \* portions: summaryStatus, and whether its clock has run out ("silent")
  page,     \* pages: their discipline and the version of their chunks, from 1
  paged,    \* summaries of pages: the versions each one's rows cite, or Uncited
  rollup,   \* summaries of portions and sections: the pages each row is of
  cache,    \* the cached list of summaries: whether there is one, and the portions
            \* whose rollups have changed since it was read
  job,      \* the summarize-portion queue
  press, reader, exec,  \* requests and executions
  pressed, changes, faults,  \* how much of the bounds is used
  paid,     \* history: answers paid for, of each page
  lost,     \* history: of these, the ones that came to nothing, or cite nothing
  doubled,  \* history: portions two executions have had in hand at once
  shared,   \* history: pages two executions have had to summarise at once
  orphaned, \* history: portions whose job was taken before the row said so, was failed
            \* for stalling, or was not its execution's any more at a crash; or whose
            \* execution raised before it had begun, or could not write that it failed
  outdated  \* history: portions the cached list shows an earlier summary of, as it was
            \* filled with it, or left by a worker that died or could not delete it

requests == <<job, press, reader, exec>>
bounds == <<pressed, changes, faults>>
bought == <<paid, lost, shared>>
history == <<bought, doubled, orphaned, outdated>>
vars == <<row, page, paged, rollup, cache, requests, bounds, history>>

Pages == 1..NumPages
Uncited == 0  \* no version: an overview without an item
NoCache == [is |-> "empty", old |-> {}]
FreeJob == [state |-> "none", portion |-> Elsewhere, holder |-> NoWorker, stalls |-> 0]
FreePress == [pc |-> "free", portion |-> Elsewhere, job |-> NoJob]
FreeReader == [pc |-> "free", old |-> {}]
FreeExec == [pc |-> "free", portion |-> Elsewhere, job |-> NoJob, todo |-> {}, had |-> {},
             of |-> [p \in Pages |-> 0], answer |-> 0, covered |-> {}, left |-> <<>>]

Init ==
  /\ row = [k \in Portions |-> [status |-> "none", heart |-> "beats"]]
  /\ page \in [Pages -> [kind : Portions, chunks : {1}]]
  /\ paged = [p \in Pages |-> <<>>]
  /\ rollup = [k \in Portions |-> <<>>]
  /\ cache = NoCache
  /\ job = [j \in Jobs |-> FreeJob]
  /\ press = [u \in Presses |-> FreePress]
  /\ reader = [r \in Readers |-> FreeReader]
  /\ exec = [w \in Workers |-> FreeExec]
  /\ pressed = 0 /\ changes = 0 /\ faults = 0
  /\ paid = [p \in Pages |-> 0] /\ lost = [p \in Pages |-> 0]
  /\ doubled = {} /\ shared = {} /\ orphaned = {} /\ outdated = {}

InFlight(k) == row[k].status \in {"queued", "running"}
PagesOf(k) == {p \in Pages : page[p].kind = k}
InHand(k) == {w \in Workers : exec[w].pc # "free" /\ exec[w].portion = k}
SetStatus(k, s) == row' = [row EXCEPT ![k] = [status |-> s, heart |-> "beats"]]
Served(k) ==
  \/ InHand(k) # {}
  \/ \E j \in Jobs : job[j].state # "none" /\ job[j].portion = k
Drop == cache' = NoCache /\ outdated' = {}

\* Redis cannot be reached, which nobody is told of.
Unreached == faults < MaxFaults /\ faults' = faults + 1
DropFails == Unreached /\ UNCHANGED cache

(***************************************************************************)
(* The button: POST /portions/:id/summarize.                               *)
(***************************************************************************)

\* Refused while a run is in flight that is not dead (summaryRunIsDead).
MayStart(k) == (InFlight(k) => row[k].heart = "silent") /\ PagesOf(k) # {}

ReadForPress(u, k) ==
  /\ press[u].pc = "free" /\ pressed < MaxPresses
  /\ MayStart(k)
  /\ pressed' = pressed + 1
  /\ press' = [press EXCEPT ![u] = [pc |-> "job", portion |-> k, job |-> NoJob]]
  /\ UNCHANGED <<row, page, paged, rollup, cache, job, reader, exec, changes, faults,
                 history>>

\* The job is queued first ...
AddJob(u) ==
  /\ press[u].pc = "job"
  /\ \E j \in Jobs :
       /\ job[j].state = "none"
       /\ job' = [job EXCEPT ![j].state = "waiting", ![j].portion = press[u].portion]
       /\ press' = [press EXCEPT ![u].pc = "row", ![u].job = j]
  /\ UNCHANGED <<row, page, paged, rollup, cache, reader, exec, bounds, history>>

\* ... and the row says so afterwards, over whatever it says by then.
WriteQueued(u) ==
  /\ press[u].pc = "row"
  /\ SetStatus(press[u].portion, "queued")
  /\ press' = [press EXCEPT ![u].pc = "cache"]
  /\ UNCHANGED <<page, paged, rollup, cache, job, reader, exec, bounds, history>>

DropForPress(u) ==
  /\ press[u].pc = "cache"
  /\ \/ Drop /\ UNCHANGED faults
     \/ DropFails /\ UNCHANGED outdated
  /\ press' = [press EXCEPT ![u] = FreePress]
  /\ UNCHANGED <<row, page, paged, rollup, job, reader, exec, pressed, changes, bought,
                 doubled, orphaned>>

\* The API dies.
LosePress(u) ==
  /\ press[u].pc # "free" /\ faults < MaxFaults
  /\ faults' = faults + 1
  /\ press' = [press EXCEPT ![u] = FreePress]
  /\ UNCHANGED <<row, page, paged, rollup, cache, job, reader, exec, pressed, changes,
                 history>>

(***************************************************************************)
(* Readers: GET /summaries.                                                *)
(***************************************************************************)

\* Nothing is cached, or not to be had: the rows are read ...
ReadRows(r) ==
  /\ reader[r].pc = "free"
  /\ IF cache.is = "empty" THEN UNCHANGED faults ELSE Unreached
  /\ reader' = [reader EXCEPT ![r].pc = "fill"]
  /\ UNCHANGED <<row, page, paged, rollup, cache, job, press, exec, pressed, changes,
                 history>>

\* ... and cached, for CACHE_TTL_SECONDS.
Fill(r) ==
  /\ reader[r].pc = "fill"
  /\ \/ /\ cache' = [is |-> "filled", old |-> reader[r].old]
        /\ outdated' = reader[r].old
        /\ UNCHANGED faults
     \/ Unreached /\ UNCHANGED <<cache, outdated>>
  /\ reader' = [reader EXCEPT ![r] = FreeReader]
  /\ UNCHANGED <<row, page, paged, rollup, job, press, exec, pressed, changes, bought,
                 doubled, orphaned>>

Expire ==
  /\ cache.is = "filled"
  /\ Drop
  /\ UNCHANGED <<row, page, paged, rollup, requests, bounds, bought, doubled, orphaned>>

(***************************************************************************)
(* The worker: run_portion.                                                *)
(***************************************************************************)

\* The execution's job has not been given away since.
Holds(w) == job[exec[w].job].state = "active" /\ job[exec[w].job].holder = w
Goto(w, pc) == exec' = [exec EXCEPT ![w].pc = pc]

\* Mutant: a run that has begun is not begun again.
RequestedOnce(k) == row[k].status = "queued"

\* A run is there to be done, or to be done again after a restart.
Requested(k) == InFlight(k)

\* A portion that is not queued or running was not asked for: the job is dropped.
Take(w, j) ==
  LET k == job[j].portion
      soon == \E u \in Presses : press[u].pc = "row" /\ press[u].job = j
  IN /\ exec[w].pc = "free" /\ job[j].state = "waiting"
     /\ IF Requested(k)
          THEN /\ exec' = [exec EXCEPT ![w].pc = "begun", ![w].portion = k, ![w].job = j]
               /\ job' = [job EXCEPT ![j].state = "active", ![j].holder = w]
               /\ doubled' = IF InHand(k) = {} THEN doubled ELSE doubled \cup {k}
          ELSE /\ job' = [job EXCEPT ![j] = FreeJob]
               /\ UNCHANGED <<exec, doubled>>
     /\ orphaned' = IF soon THEN orphaned \cup {k} ELSE orphaned
     /\ UNCHANGED <<row, page, paged, rollup, cache, press, reader, bounds, bought,
                    outdated>>

SetRunning(w) ==
  /\ exec[w].pc = "begun"
  /\ SetStatus(exec[w].portion, "running")
  /\ Goto(w, "read")
  /\ UNCHANGED <<page, paged, rollup, cache, job, press, reader, bounds, history>>

\* The run ends without a summary.
Quits(w) ==
  exec' = [exec EXCEPT ![w] = [FreeExec EXCEPT !.pc = "invalidate",
                          !.portion = exec[w].portion, !.job = exec[w].job]]
Fails(w) == SetStatus(exec[w].portion, "failed") /\ Quits(w)

\* Mutant: what is on file is not looked at.
NeedsSummaryAgain(p) == TRUE

\* A page without a summary that cites a chunk still there.
NeedsSummary(p) == paged[p] = <<>> \/ paged[p][Len(paged[p])] # page[p].chunks

\* Pages an execution is summarising, or will.
Buying(w, p) == p \in exec[w].todo \/ p = exec[w].answer

ReadPages(w) ==
  LET pages == PagesOf(exec[w].portion)
      todo == {p \in pages : NeedsSummary(p)}
  IN /\ exec[w].pc = "read"
     /\ IF pages = {} THEN Fails(w) /\ UNCHANGED shared
        ELSE /\ exec' = [exec EXCEPT ![w].pc = "pages", ![w].todo = todo,
                           ![w].had = {p \in pages : paged[p] # <<>>},
                           ![w].of = [p \in Pages |-> page[p].chunks]]
             /\ shared' = shared \cup {p \in todo : \E v \in Workers \ {w} : Buying(v, p)}
             /\ UNCHANGED row
     /\ UNCHANGED <<page, paged, rollup, cache, job, press, reader, bounds, paid, lost,
                    doubled, orphaned, outdated>>

\* An execution with a summary of a page in hand.
Answered(e, p, of) ==
  [e EXCEPT !.todo = @ \ {p}, !.answer = p, !.of[p] = of,
            !.pc = IF p \in e.had THEN "clear" ELSE "save"]

\* One page is summarised: what is wrong twice is skipped, and an overview without
\* an item that cites a chunk is taken.
AnswerPage(w) ==
  /\ exec[w].pc = "pages" /\ exec[w].todo # {}
  /\ LET p == CHOOSE q \in exec[w].todo : \A o \in exec[w].todo : q <= o
         Has(of) == exec' = [exec EXCEPT ![w] = Answered(@, p, of)]
     IN /\ paid' = [paid EXCEPT ![p] = @ + 1]
        /\ \/ Has(exec[w].of[p]) /\ UNCHANGED <<lost, faults>>
           \/ /\ faults < MaxFaults
              /\ faults' = faults + 1
              /\ Has(Uncited) \/ exec' = [exec EXCEPT ![w].todo = @ \ {p}]
              /\ lost' = [lost EXCEPT ![p] = @ + 1]
  /\ UNCHANGED <<row, page, paged, rollup, cache, job, press, reader, pressed, changes,
                 shared, doubled, orphaned, outdated>>

\* "Summaries are insert-only: clear a stale row before rewriting it."
ClearPage(w) ==
  /\ exec[w].pc = "clear"
  /\ paged' = [paged EXCEPT ![exec[w].answer] = <<>>]
  /\ Goto(w, "save")
  /\ UNCHANGED <<row, page, rollup, cache, job, press, reader, bounds, history>>

SavePage(w) ==
  LET p == exec[w].answer
  IN /\ exec[w].pc = "save"
     /\ paged' = [paged EXCEPT ![p] = Append(@, exec[w].of[p])]
     /\ exec' = [exec EXCEPT ![w].pc = "pages", ![w].answer = 0]
     /\ UNCHANGED <<row, page, rollup, cache, job, press, reader, bounds, history>>

\* _enriched_page_summaries: the pages of the portion now that have a summary.
Cover(w) ==
  LET covered == {p \in PagesOf(exec[w].portion) : paged[p] # <<>>}
  IN /\ exec[w].pc = "pages" /\ exec[w].todo = {}
     /\ IF covered = {} THEN Fails(w)
        ELSE exec' = [exec EXCEPT ![w].pc = "delete", ![w].covered = covered,
                        ![w].had = {}, ![w].of = FreeExec.of]
             /\ UNCHANGED row
     /\ UNCHANGED <<page, paged, rollup, cache, job, press, reader, bounds, history>>

\* group_sections: consecutive pages, SECTION_SIZE at a time; none for one section.
Sections(covered) ==
  LET Section(p) == Cardinality({q \in covered : q < p}) \div SectionSize
      last == (Cardinality(covered) - 1) \div SectionSize
  IN IF last < 1 THEN <<>>
     ELSE [i \in 1..(last + 1) |-> {p \in covered : Section(p) = i - 1}]

\* The rollups of a portion change: lists read before do not show it.
Rewrite(k, rows) ==
  /\ rollup' = [rollup EXCEPT ![k] = rows]
  /\ cache' = IF cache.is = "filled" THEN [cache EXCEPT !.old = @ \cup {k}] ELSE cache
  /\ reader' = [r \in Readers |-> IF reader[r].pc = "fill"
                                  THEN [reader[r] EXCEPT !.old = @ \cup {k}]
                                  ELSE reader[r]]

\* Mutant: the rollups of the last run stay.
DeleteNothing(w) ==
  /\ exec[w].pc = "delete"
  /\ exec' = [exec EXCEPT ![w].pc = "rollup", ![w].left = Sections(exec[w].covered)]
  /\ UNCHANGED <<row, page, paged, rollup, cache, job, press, reader, bounds, history>>

\* "This portion's own rollups only."
DeleteRollups(w) ==
  /\ exec[w].pc = "delete"
  /\ Rewrite(exec[w].portion, <<>>)
  /\ exec' = [exec EXCEPT ![w].pc = "rollup", ![w].left = Sections(exec[w].covered)]
  /\ UNCHANGED <<row, page, paged, job, press, bounds, history>>

Insert(w, level, pages) ==
  LET k == exec[w].portion
  IN Rewrite(k, Append(rollup[k], [level |-> level, of |-> pages]))

\* A rollup the model cannot give is merged from the level below.
WriteSection(w) ==
  /\ exec[w].pc = "rollup" /\ exec[w].left # <<>>
  /\ Insert(w, "section", Head(exec[w].left))
  /\ exec' = [exec EXCEPT ![w].left = Tail(@)]
  /\ UNCHANGED <<row, page, paged, job, press, bounds, history>>

\* A section with nothing citable is left out.
NoSection(w) ==
  /\ exec[w].pc = "rollup" /\ exec[w].left # <<>> /\ faults < MaxFaults
  /\ faults' = faults + 1
  /\ exec' = [exec EXCEPT ![w].left = Tail(@), ![w].covered = @ \ Head(exec[w].left)]
  /\ UNCHANGED <<row, page, paged, rollup, cache, job, press, reader, pressed, changes,
                 history>>

WriteRollup(w) ==
  /\ exec[w].pc = "rollup" /\ exec[w].left = <<>> /\ exec[w].covered # {}
  /\ Insert(w, "portion", exec[w].covered)
  /\ exec' = [exec EXCEPT ![w].pc = "ready", ![w].covered = {}]
  /\ UNCHANGED <<row, page, paged, job, press, bounds, history>>

\* Nothing citable, or no section.
NoRollup(w) ==
  /\ exec[w].pc = "rollup" /\ exec[w].left = <<>>
  /\ IF exec[w].covered = {} THEN UNCHANGED faults
     ELSE faults < MaxFaults /\ faults' = faults + 1
  /\ Fails(w)
  /\ UNCHANGED <<page, paged, rollup, cache, job, press, reader, pressed, changes, history>>

WriteReady(w) ==
  /\ exec[w].pc = "ready"
  /\ SetStatus(exec[w].portion, "ready")
  /\ Goto(w, "invalidate")
  /\ UNCHANGED <<page, paged, rollup, cache, job, press, reader, bounds, history>>

\* The execution ends, and its job if it still holds it.
Ended(w) ==
  /\ exec' = [exec EXCEPT ![w] = FreeExec]
  /\ job' = IF Holds(w) THEN [job EXCEPT ![exec[w].job] = FreeJob] ELSE job

\* Mutant: the cached list is left to expire.
InvalidateNothing(w) ==
  /\ exec[w].pc = "invalidate"
  /\ Ended(w)
  /\ UNCHANGED <<row, page, paged, rollup, cache, press, reader, bounds, history>>

Invalidate(w) ==
  /\ exec[w].pc = "invalidate"
  /\ \/ Drop /\ UNCHANGED faults
     \/ DropFails /\ outdated' = outdated \cup ({exec[w].portion} \cap cache.old)
  /\ Ended(w)
  /\ UNCHANGED <<row, page, paged, rollup, press, reader, pressed, changes, bought,
                 doubled, orphaned>>

InTry == {"read", "pages", "clear", "save", "delete", "rollup", "ready"}
Cited(w) == exec[w].of[exec[w].answer] # Uncited
Wasted(w) ==
  IF exec[w].pc \in {"clear", "save"} /\ Cited(w)
  THEN [lost EXCEPT ![exec[w].answer] = @ + 1] ELSE lost

\* An exception in the body of the run, and maybe in the write of its failure.
Raise(w) ==
  /\ exec[w].pc \in InTry /\ faults < MaxFaults
  /\ faults' = faults + 1
  /\ lost' = Wasted(w)
  /\ \/ Fails(w) /\ UNCHANGED orphaned
     \/ Quits(w) /\ orphaned' = orphaned \cup {exec[w].portion} /\ UNCHANGED row
  /\ UNCHANGED <<page, paged, rollup, cache, job, press, reader, pressed, changes, paid,
                 shared, doubled, outdated>>

\* One before that: the job has no other attempt, and the row is left as it is.
RaiseEarly(w) ==
  /\ exec[w].pc = "begun" /\ faults < MaxFaults
  /\ faults' = faults + 1
  /\ Ended(w)
  /\ orphaned' = orphaned \cup {exec[w].portion}
  /\ UNCHANGED <<row, page, paged, rollup, cache, press, reader, pressed, changes, bought,
                 doubled, outdated>>

(***************************************************************************)
(* Faults, time, and the rest of the project.                              *)
(***************************************************************************)

Crash(w) ==
  /\ exec[w].pc # "free" /\ faults < MaxFaults
  /\ faults' = faults + 1
  /\ exec' = [exec EXCEPT ![w] = FreeExec]
  /\ lost' = Wasted(w)
  /\ outdated' = outdated \cup {exec[w].portion}
  /\ orphaned' = IF Holds(w) THEN orphaned ELSE orphaned \cup {exec[w].portion}
  /\ UNCHANGED <<row, page, paged, rollup, cache, job, press, reader, pressed, changes, paid,
                 shared, doubled>>

\* Somebody works on an active job.
Held(j) == exec[job[j].holder].job = j

\* BullMQ gives a stalled job away again, or fails it.
Stalled(j) ==
  IF job[j].stalls < MaxStalls
  THEN /\ job' = [job EXCEPT ![j].state = "waiting", ![j].holder = NoWorker,
                             ![j].stalls = @ + 1]
       /\ UNCHANGED orphaned
  ELSE /\ job' = [job EXCEPT ![j] = FreeJob]
       /\ orphaned' = orphaned \cup {job[j].portion}

StallJob(j) ==
  /\ job[j].state = "active" /\ ~Held(j)
  /\ Stalled(j)
  /\ UNCHANGED <<row, page, paged, rollup, cache, press, reader, exec, bounds, bought,
                 doubled, outdated>>

\* The worker is alive, and late in renewing its lock.
Lapse(j) ==
  /\ job[j].state = "active" /\ Held(j)
  /\ faults < MaxFaults
  /\ faults' = faults + 1
  /\ Stalled(j)
  /\ UNCHANGED <<row, page, paged, rollup, cache, press, reader, exec, pressed, changes,
                 bought, doubled, outdated>>

\* A queued run times out from its press, a running one from its last heartbeat:
\* nobody has it any more; or it waited that long, or its worker cannot write.
GoSilent(k) ==
  /\ InFlight(k) /\ row[k].heart # "silent"
  /\ IF Served(k) THEN faults < MaxFaults /\ faults' = faults + 1
                  ELSE UNCHANGED faults
  /\ row' = [row EXCEPT ![k].heart = "silent"]
  /\ UNCHANGED <<page, paged, rollup, cache, requests, pressed, changes, history>>

\* A heartbeat comes through again.
Beat(w) ==
  LET k == exec[w].portion
  IN /\ exec[w].pc \in InTry \cup {"invalidate"}
     /\ row[k].status = "running" /\ row[k].heart = "silent"
     /\ row' = [row EXCEPT ![k].heart = "beats"]
     /\ UNCHANGED <<page, paged, rollup, cache, requests, bounds, history>>

\* A page is processed again: its chunks are new ones.
Reprocess(p) ==
  /\ changes < MaxChanges
  /\ changes' = changes + 1
  /\ page' = [page EXCEPT ![p].chunks = @ + 1]
  /\ UNCHANGED <<row, paged, rollup, cache, requests, pressed, faults, history>>

\* A title-block read moves a page and flags the portions that changed, those that
\* are ready (db.mark_portions_stale; module RegionScrape has its steps).
MovePage(p, k) ==
  LET changed == {page[p].kind, k} \ {Elsewhere}
  IN /\ changes < MaxChanges /\ k # page[p].kind
     /\ changes' = changes + 1
     /\ page' = [page EXCEPT ![p].kind = k]
     /\ row' = [l \in Portions |-> IF l \in changed /\ row[l].status = "ready"
                                   THEN [row[l] EXCEPT !.status = "stale"] ELSE row[l]]
     /\ \/ Drop /\ UNCHANGED faults
        \/ DropFails /\ UNCHANGED outdated
     /\ UNCHANGED <<paged, rollup, requests, pressed, bought, doubled, orphaned>>

-----------------------------------------------------------------------------
Serve(u) == AddJob(u) \/ WriteQueued(u) \/ DropForPress(u)

Work(w) ==
  \/ \E j \in Jobs : Take(w, j)
  \/ SetRunning(w) \/ ReadPages(w) \/ AnswerPage(w) \/ ClearPage(w) \/ SavePage(w)
  \/ Cover(w) \/ DeleteRollups(w) \/ WriteSection(w) \/ NoSection(w) \/ WriteRollup(w)
  \/ NoRollup(w) \/ WriteReady(w) \/ Invalidate(w)

Next ==
  \/ \E u \in Presses : \/ \E k \in Portions : ReadForPress(u, k)
                        \/ Serve(u) \/ LosePress(u)
  \/ \E r \in Readers : ReadRows(r) \/ Fill(r)
  \/ Expire
  \/ \E w \in Workers : Work(w) \/ Raise(w) \/ RaiseEarly(w) \/ Crash(w) \/ Beat(w)
  \/ \E j \in Jobs : StallJob(j) \/ Lapse(j)
  \/ \E k \in Portions : GoSilent(k)
  \/ \E p \in Pages : Reprocess(p) \/ \E k \in Portions \cup {Elsewhere} : MovePage(p, k)

Spec == Init /\ [][Next]_vars

-----------------------------------------------------------------------------
(* Properties.                                                             *)

ExecRow ==
  [pc: {"free", "begun", "read", "pages", "clear", "save", "delete", "rollup", "ready",
        "invalidate"},
   portion: Portions \cup {Elsewhere}, job: Jobs \cup {NoJob}, todo: SUBSET Pages,
   had: SUBSET Pages, of: [Pages -> Nat], answer: 0..NumPages, covered: SUBSET Pages,
   left: Seq(SUBSET Pages)]

\* Every variable keeps to its type.
TypeOK ==
  /\ row \in [Portions -> [status: {"none", "queued", "running", "ready", "stale", "failed"},
                           heart: {"beats", "silent"}]]
  /\ page \in [Pages -> [kind: Portions \cup {Elsewhere}, chunks: Nat \ {0}]]
  /\ paged \in [Pages -> Seq(Nat)]
  /\ rollup \in [Portions -> Seq([level: {"section", "portion"}, of: SUBSET Pages])]
  /\ cache \in [is: {"empty", "filled"}, old: SUBSET Portions]
  /\ job \in [Jobs -> [state: {"none", "waiting", "active"},
                       portion: Portions \cup {Elsewhere},
                       holder: Workers \cup {NoWorker}, stalls: Nat]]
  /\ press \in [Presses -> [pc: {"free", "job", "row", "cache"},
                            portion: Portions \cup {Elsewhere}, job: Jobs \cup {NoJob}]]
  /\ reader \in [Readers -> [pc: {"free", "fill"}, old: SUBSET Portions]]
  /\ exec \in [Workers -> ExecRow]
  /\ pressed \in Nat /\ changes \in Nat /\ faults \in Nat
  /\ paid \in [Pages -> Nat] /\ lost \in [Pages -> Nat] /\ shared \subseteq Pages
  /\ doubled \subseteq Portions /\ orphaned \subseteq Portions /\ outdated \subseteq Portions

\* One rollup of the portion, and sections that share no page.
WellRolled(rows) ==
  /\ \E i \in DOMAIN rows : \A j \in DOMAIN rows : rows[j].level = "portion" <=> j = i
  /\ \A i, j \in DOMAIN rows :
       i # j /\ rows[i].level = "section" /\ rows[j].level = "section" =>
         rows[i].of \cap rows[j].of = {}

\* A portion that says it has a summary has one, with sections that share no page,
\* whatever run failed or died half-way before; unless two executions had the portion
\* in hand.
OneSummary ==
  \A k \in Portions \ doubled :
    row[k].status \in {"ready", "stale"} => WellRolled(rollup[k])

\* A page is paid for once for each version of its chunks, and once more for each
\* answer that was unusable or lost with its run, or that cites no chunk, which counts
\* as no summary (summarize.py:545); and it has one summary at most; unless two
\* executions, of one portion or of the two it was moved between, had it to do at once.
PagesBoughtOnce ==
  \A p \in Pages \ shared : Len(paged[p]) <= 1 /\ paid[p] <= page[p].chunks + lost[p]

\* A portion that people are told is queued or running has a job or an execution
\* that will say how it ended; unless its job was taken before the row was written
\* (portions.ts:182), or was failed for stalling, or an execution died that was late
\* enough to have lost its job, raised before the run had begun (summarize.py:801-826)
\* or could not write that it failed (904).
RequestsAreServed == \A k \in Portions \ orphaned : InFlight(k) => Served(k)

\* When no run is on, a reader is shown the summary of a portion that is on file;
\* unless a list read before the run ended was cached after it, or a worker died
\* before it could drop the cached list, or could not reach it (cache.py:36).
ReadyIsShown ==
  \A k \in Portions \ outdated :
    cache.is = "filled" /\ InHand(k) = {} => k \notin cache.old

\* "Region edited while a portion summary is running -> let the summary finish, then
\* mark it stale if its page set changed."
ReadyIsCurrent ==
  \A k \in Portions : row[k].status = "ready" /\ InHand(k) = {} =>
    \A i \in DOMAIN rollup[k] : rollup[k][i].of \subseteq PagesOf(k)
=============================================================================
