------------------------- MODULE RegionScrapeProofs -------------------------
(***************************************************************************)
(* Theorems about RegionScrape for any number of pages, kinds, jobs,       *)
(* boxes, requests and faults.  What makes "read only the pages of another *)
(* version" right is an ordering: while no box was drawn where one had     *)
(* been cleared, nothing in the system has a version above the row's, so a *)
(* new box has a version that nothing has.                                 *)
(***************************************************************************)
EXTENDS RegionScrape, WellFoundedInduction, TLAPS

USE RegionScrapeAssumption

\* A page and an execution as they may be beside a row of the region.
PageKnows(p, r) ==
  p.version <= r.version /\ (p.version = r.version => p.text = r.box)
JobKnows(e, r) ==
  /\ e.version <= r.version
  /\ e.pc \in {"begun", "scraping"} /\ e.version = r.version => e.box = r.box

\* Before the first box nothing has a version.
NothingYet ==
  /\ region.version = 0
  /\ \A p \in Pages : page[p].version = 0
  /\ \A j \in Jobs : job[j].version = 0 /\ job[j].pc = "free"
  /\ asked.box = {}

\* Nothing is ahead of the box, and what is level with it is of that box.
NothingAhead ==
  /\ \A p \in Pages : PageKnows(page[p], region)
  /\ \A j \in Jobs : JobKnows(job[j], region)
  /\ \A v \in asked.box : v <= region.version

VersionsInOrder ==
  ~redrawn => (drawn = 0 => NothingYet) /\ (Boxed => NothingAhead)

Counted == region.version <= drawn /\ region.box <= drawn

IInv == TypeOK /\ Counted /\ VersionsInOrder

USE DEF rowVars, boundVars, historyVars

-----------------------------------------------------------------------------
(* Least and greatest pages.                                               *)

LEMMA LeastNat ==
  ASSUME NEW T \in SUBSET Nat, T # {}
  PROVE  \E x \in T : \A y \in T : x <= y
<1>1. PICK x \in T : \A y \in T : ~(<<y, x>> \in OpToRel(<, Nat))
  BY NatLessThanWellFounded, WFMin
<1>2. \A y \in T : ~(y < x)
  BY <1>1 DEF OpToRel
<1>. QED
  BY <1>2

LEMMA MinIsIn ==
  ASSUME NEW T \in SUBSET Pages, T # {}
  PROVE  Min(T) \in T
<1>1. T \in SUBSET Nat
  BY DEF Pages
<1>. QED
  BY <1>1, LeastNat DEF Min

LEMMA MaxIsIn ==
  ASSUME NEW T \in SUBSET Pages, T # {}
  PROVE  Max(T) \in T
<1>. DEFINE U == {NumPages - x : x \in T}
<1>1. \A x \in T : NumPages - x \in Nat /\ x \in Nat
  BY DEF Pages
<1>2. U \in SUBSET Nat /\ U # {}
  <2>1. PICK x \in T : TRUE
    OBVIOUS
  <2>2. NumPages - x \in U
    BY <2>1
  <2>. QED
    BY <1>1, <2>2
<1>3. PICK u \in U : \A y \in U : u <= y
  BY <1>2, LeastNat
<1>4. PICK m \in T : u = NumPages - m
  OBVIOUS
<1>5. \A y \in T : m >= y
  <2>. TAKE y \in T
  <2>1. NumPages - y \in U
    OBVIOUS
  <2>2. u <= NumPages - y
    BY <1>3, <2>1
  <2>3. y \in Nat /\ m \in Nat /\ NumPages \in Nat
    BY <1>1
  <2>. HIDE DEF U
  <2>. QED
    BY <1>4, <2>2, <2>3
<1>. QED
  BY <1>5 DEF Max

\* What fills a page without a reading is a kind.
LEMMA FilledIsKind ==
  ASSUME NEW live \in SUBSET Pages, NEW p \in Pages,
         NEW kind \in [Pages -> AllKinds \cup {NoKind}]
  PROVE  Filled(live, kind, p) \in AllKinds
<1>. DEFINE sorted == {q \in live : kind[q] # NoKind}
            before == {q \in sorted : q <= p}
<1>1. sorted \in SUBSET Pages /\ before \in SUBSET Pages
  OBVIOUS
<1>2. \A q \in sorted : kind[q] \in AllKinds
  OBVIOUS
<1>3. CASE before # {}
  <2>1. Max(before) \in before
    BY <1>1, <1>3, MaxIsIn
  <2>2. Max(before) \in sorted
    BY <2>1
  <2>. QED
    BY <1>2, <1>3, <2>2 DEF Filled
<1>4. CASE before = {} /\ sorted # {}
  <2>1. Min(sorted) \in sorted
    BY <1>1, <1>4, MinIsIn
  <2>. QED
    BY <1>2, <1>4, <2>1 DEF Filled
<1>5. CASE before = {} /\ sorted = {}
  BY <1>5 DEF Filled, AllKinds
<1>. QED
  BY <1>3, <1>4, <1>5

-----------------------------------------------------------------------------
(* What a step may do to one execution or one page.                        *)

LEMMA BecomesTyped ==
  ASSUME TypeOK, NEW j \in Jobs, NEW e \in JobRow, Becomes(j, e)
  PROVE  /\ job' \in [Jobs -> JobRow]
         /\ job'[j] = e
         /\ \A i \in Jobs \ {j} : job'[i] = job[i]
BY DEF TypeOK, Becomes

LEMMA PageTyped ==
  ASSUME TypeOK, NEW p, NEW r \in PageRow, page' = [page EXCEPT ![p] = r]
  PROVE  /\ page' \in [Pages -> PageRow]
         /\ \A q \in Pages : page'[q] = IF q = p THEN r ELSE page[q]
BY DEF TypeOK

LEMMA FreeJobTyped == FreeJob \in JobRow
BY DEF FreeJob, JobRow, Boxes, AllKinds

LEMMA LivePages == Live \in SUBSET Pages
BY DEF Live

\* A new job is a job of its version.
LEMMA NewJobTyped ==
  ASSUME TypeOK, NEW v \in Boxes, NEW scope \in SUBSET Pages,
         NEW n \in {1, MaxAttempts}, NewJob(v, scope, n)
  PROVE  /\ job' \in [Jobs -> JobRow]
         /\ \A j \in Jobs : \/ job'[j] = job[j]
                            \/ job'[j].version = v /\ job'[j].pc = "waiting"
<1>. DEFINE e == [FreeJob EXCEPT !.pc = "waiting", !.version = v, !.scope = scope,
                                 !.attempts = n]
<1>1. PICK j \in Jobs : Becomes(j, e)
  BY DEF NewJob
<1>2. e \in JobRow /\ e.version = v /\ e.pc = "waiting"
  BY FreeJobTyped DEF JobRow, FreeJob
<1>. HIDE DEF e
<1>. QED
  BY <1>1, <1>2, BecomesTyped

\* An execution that goes on with the box it was taken for, or ends.
GoesOn(e, f) ==
  /\ f.version \in {0, e.version}
  /\ e.pc = "free" => f.pc = "free"
  /\ f.pc \in {"begun", "scraping"} =>
       /\ e.pc \in {"begun", "scraping"}
       /\ f.version = e.version /\ f.box = e.box

\* A step that draws no box, and leaves every page and execution the version
\* and the box it has, keeps the order.
LEMMA OrderKept ==
  ASSUME TypeOK, VersionsInOrder, UNCHANGED <<drawn, redrawn>>,
         region'.version = region.version, region'.box = region.box,
         asked'.box \in SUBSET asked.box,
         \A p \in Pages : /\ page'[p].version = page[p].version
                          /\ page'[p].text = page[p].text,
         \A j \in Jobs : job'[j] = job[j] \/ GoesOn(job[j], job'[j])
  PROVE  VersionsInOrder'
<1>1. region.version \in Nat
  BY DEF TypeOK, Boxes
<1>2. NothingYet => NothingYet'
  BY DEF NothingYet, GoesOn
<1>3. ASSUME NothingAhead PROVE NothingAhead'
  <2>1. \A p \in Pages : PageKnows(page[p], region)'
    BY <1>3 DEF NothingAhead, PageKnows
  <2>2. \A j \in Jobs : JobKnows(job[j], region)'
    BY <1>1, <1>3 DEF NothingAhead, JobKnows, GoesOn
  <2>. QED
    BY <1>3, <2>1, <2>2 DEF NothingAhead
<1>. QED
  BY <1>2, <1>3 DEF VersionsInOrder, Boxed

-----------------------------------------------------------------------------
(* The invariant.                                                          *)

LEMMA InitInv == Init => IInv
<1>. SUFFICES ASSUME Init PROVE IInv
  OBVIOUS
<1>1. PICK n \in 0..NumPages :
        page = [p \in Pages |-> [NoPage EXCEPT !.there = p <= n]]
  BY DEF Init
<1>2. \A b \in BOOLEAN : [NoPage EXCEPT !.there = b] \in PageRow
  BY DEF NoPage, PageRow, Boxes
<1>3. page \in [Pages -> PageRow] /\ \A p \in Pages : page[p].version = 0
  <2>1. \A p \in Pages : (p <= n) \in BOOLEAN
    OBVIOUS
  <2>. QED
    BY <1>1, <1>2, <2>1 DEF NoPage
<1>4. job \in [Jobs -> JobRow]
  BY FreeJobTyped DEF Init
<1>5. TypeOK
  <2>1. region \in [version: Boxes, box: Boxes,
                    status: {"none", "pending", "running", "completed", "failed"}]
    BY DEF Init, NoRegion, Boxes
  <2>2. group \in [AllKinds -> SUBSET Pages]
    BY DEF Init
  <2>3. summary \in [AllKinds -> [state: {"none", "ready", "stale"}, of: SUBSET Pages]]
    BY DEF Init, NoSummary
  <2>4. asked \in [box: SUBSET (1..MaxBoxes), move: SUBSET Pages, page: SUBSET Pages]
    BY DEF Init, NothingAsked
  <2>5. /\ section \in Jobs \cup {NoJob}
        /\ drawn \in 0..MaxBoxes /\ requests \in 0..MaxRequests /\ faults \in 0..MaxFaults
        /\ late \in SUBSET Pages
    BY DEF Init
  <2>6. redrawn \in BOOLEAN /\ gaveUp \in BOOLEAN
    BY Zenon DEF Init
  <2>. QED
    BY <1>3, <1>4, <2>1, <2>2, <2>3, <2>4, <2>5, <2>6 DEF TypeOK
<1>6. Counted
  BY DEF Init, Counted, NoRegion
<1>7. VersionsInOrder
  BY <1>3 DEF Init, VersionsInOrder, NothingYet, Boxed, NoRegion, FreeJob, NothingAsked
<1>. QED
  BY <1>5, <1>6, <1>7 DEF IInv

\* What people do.
LEMMA PersonInv == IInv /\ Person => IInv'
<1>. SUFFICES ASSUME IInv, Person PROVE IInv'
  OBVIOUS
<1>. USE DEF IInv
<1>1. CASE DrawBox
  <2>1. TypeOK'
    BY <1>1 DEF DrawBox, TypeOK, Boxes, Counted
  <2>2. Counted'
    BY <1>1 DEF DrawBox, Counted, TypeOK, Boxes
  <2>3. ASSUME ~redrawn', Boxed
        PROVE  VersionsInOrder'
    <3>1. NothingAhead /\ region'.version = region.version + 1
      BY <1>1, <2>3 DEF DrawBox, VersionsInOrder
    <3>2. \A p \in Pages : page'[p].version <= region.version /\ page[p].version \in Nat
      BY <1>1, <3>1 DEF DrawBox, NothingAhead, PageKnows, TypeOK, PageRow, Boxes
    <3>3. \A j \in Jobs : job'[j].version <= region.version /\ job[j].version \in Nat
      BY <1>1, <3>1 DEF DrawBox, NothingAhead, JobKnows, TypeOK, JobRow, Boxes
    <3>4. \A v \in asked'.box : v <= region'.version
      BY <1>1, <3>1 DEF DrawBox, NothingAhead, TypeOK, Boxes
    <3>5. region.version \in Nat /\ page' = page /\ job' = job
      BY <1>1 DEF DrawBox, TypeOK, Boxes
    <3>6. \A p \in Pages : PageKnows(page[p], region)'
      BY <3>1, <3>2, <3>5 DEF PageKnows
    <3>7. \A j \in Jobs : JobKnows(job[j], region)'
      BY <3>1, <3>3, <3>5 DEF JobKnows
    <3>8. NothingAhead'
      BY <3>4, <3>6, <3>7 DEF NothingAhead
    <3>. QED
      BY <1>1, <3>8 DEF DrawBox, VersionsInOrder, TypeOK
  <2>4. ASSUME ~redrawn', ~Boxed
        PROVE  VersionsInOrder'
    <3>0. ~redrawn /\ ~(drawn > 0)
      BY <1>1, <2>4 DEF DrawBox
    <3>1. NothingYet /\ region'.version = 1 /\ drawn = 0
      BY <1>1, <2>4, <3>0 DEF DrawBox, VersionsInOrder, TypeOK, Boxed
    <3>2. NothingAhead'
      BY <1>1, <3>1 DEF DrawBox, NothingYet, NothingAhead, PageKnows, JobKnows
    <3>. QED
      BY <1>1, <3>2 DEF DrawBox, VersionsInOrder, TypeOK
  <2>5. VersionsInOrder'
    BY <2>3, <2>4 DEF VersionsInOrder
  <2>. QED
    BY <2>1, <2>2, <2>5
<1>2. CASE Rescrape
  <2>1. TypeOK'
    BY <1>2 DEF Rescrape, TypeOK, Boxes, Boxed
  <2>2. region' = [region EXCEPT !.status = "pending"]
    BY <1>2 DEF Rescrape
  <2>3. region'.version = region.version /\ region'.box = region.box
    BY <2>2 DEF TypeOK
  <2>4. VersionsInOrder'
    <3>1. Boxed /\ UNCHANGED <<page, job, drawn, redrawn>>
          /\ asked'.box = asked.box \cup {region.version}
      BY <1>2 DEF Rescrape, TypeOK
    <3>2. region.version <= region.version
      BY DEF TypeOK, Boxes
    <3>. QED
      BY <2>3, <3>1, <3>2 DEF VersionsInOrder, NothingYet, NothingAhead, PageKnows, JobKnows, Boxed
  <2>5. Counted'
    BY <1>2, <2>3 DEF Rescrape, Counted
  <2>. QED
    BY <2>1, <2>4, <2>5
<1>3. CASE ClearBox
  <2>1. TypeOK'
    BY <1>3 DEF ClearBox, TypeOK, NoRegion, Boxes
  <2>2. drawn # 0 /\ drawn' = drawn /\ drawn \in Nat
    BY <1>3 DEF ClearBox, Counted, Boxed, TypeOK, Boxes
  <2>3. Counted' /\ VersionsInOrder'
    BY <1>3, <2>2 DEF ClearBox, Counted, VersionsInOrder, Boxed, NoRegion
  <2>. QED
    BY <2>1, <2>3
<1>4. ASSUME NEW p \in Pages, AddPage(p)
      PROVE  IInv'
  <2>1. page' = [page EXCEPT ![p] = [page[p] EXCEPT !.there = TRUE]]
    BY <1>4 DEF AddPage, TypeOK
  <2>2. page[p] \in PageRow
    BY DEF TypeOK
  <2>. DEFINE r == [page[p] EXCEPT !.there = TRUE]
  <2>3. r \in PageRow /\ r.version = page[p].version /\ r.text = page[p].text
    BY <2>2 DEF PageRow
  <2>. HIDE DEF r
  <2>4. page' \in [Pages -> PageRow] /\ \A q \in Pages : page'[q] = IF q = p THEN r ELSE page[q]
    BY <2>1, <2>3, PageTyped DEF r
  <2>5. TypeOK'
    BY <1>4, <2>4 DEF AddPage, TypeOK
  <2>6. VersionsInOrder'
    BY <1>4, <2>3, <2>4, OrderKept DEF AddPage, TypeOK
  <2>. QED
    BY <1>4, <2>5, <2>6 DEF AddPage, Counted
<1>5. ASSUME NEW p \in Pages, NEW k \in Kinds, MovePage(p, k)
      PROVE  IInv'
  <2>1. page' = [page EXCEPT ![p] = [page[p] EXCEPT !.kind = k, !.source = "manual"]]
    BY <1>5 DEF MovePage, TypeOK
  <2>2. page[p] \in PageRow
    BY DEF TypeOK
  <2>. DEFINE r == [page[p] EXCEPT !.kind = k, !.source = "manual"]
  <2>3. r \in PageRow /\ r.version = page[p].version /\ r.text = page[p].text
    BY <2>2 DEF PageRow, AllKinds
  <2>. HIDE DEF r
  <2>4. page' \in [Pages -> PageRow] /\ \A q \in Pages : page'[q] = IF q = p THEN r ELSE page[q]
    BY <2>1, <2>3, PageTyped DEF r
  <2>5. late' \in SUBSET Pages
    BY <1>5 DEF MovePage, TypeOK
  <2>6. TypeOK'
    BY <1>5, <2>4, <2>5 DEF MovePage, TypeOK
  <2>7. VersionsInOrder'
    BY <1>5, <2>3, <2>4, OrderKept DEF MovePage, TypeOK
  <2>. QED
    BY <1>5, <2>6, <2>7 DEF MovePage, Counted
<1>6. ASSUME NEW k \in AllKinds, Summarize(k)
      PROVE  IInv'
  <2>1. PortionPages[k] \in SUBSET Pages
    BY LivePages DEF PortionPages
  <2>2. TypeOK'
    BY <1>6, <2>1 DEF Summarize, TypeOK
  <2>3. VersionsInOrder'
    BY <1>6, OrderKept DEF Summarize
  <2>. QED
    BY <1>6, <2>2, <2>3 DEF Summarize, Counted
<1>. QED
  BY <1>1, <1>2, <1>3, <1>4, <1>5, <1>6 DEF Person

\* What the requests queue.
LEMMA RequestInv == IInv /\ Request => IInv'
<1>. SUFFICES ASSUME IInv, Request PROVE IInv'
  OBVIOUS
<1>. USE DEF IInv
<1>1. ASSUME NEW v \in Boxes, NEW scope \in SUBSET Pages,
             NEW n \in {1, MaxAttempts}, NewJob(v, scope, n),
             UNCHANGED <<rowVars, section, boundVars, historyVars>>,
             ~redrawn => drawn # 0 /\ (Boxed => v <= region.version),
             asked' \in [box: SUBSET (1..MaxBoxes), move: SUBSET Pages, page: SUBSET Pages],
             asked'.box \in SUBSET asked.box
      PROVE  IInv'
  <2>1. /\ job' \in [Jobs -> JobRow]
        /\ \A j \in Jobs : \/ job'[j] = job[j]
                           \/ job'[j].version = v /\ job'[j].pc = "waiting"
    BY <1>1, NewJobTyped
  <2>2. TypeOK'
    BY <1>1, <2>1 DEF TypeOK
  <2>3. ~redrawn /\ Boxed => \A j \in Jobs : JobKnows(job'[j], region)
    BY <1>1, <2>1 DEF VersionsInOrder, NothingAhead, JobKnows
  <2>4. VersionsInOrder'
    BY <1>1, <2>3 DEF VersionsInOrder, NothingAhead, Boxed
  <2>. QED
    BY <1>1, <2>2, <2>4 DEF Counted
<1>2. ASSUME NEW v \in 1..MaxBoxes, QueueBox(v)
      PROVE  IInv'
  <2>1. v \in asked.box /\ asked' = [asked EXCEPT !.box = @ \ {v}] /\ NewJob(v, Pages, MaxAttempts)
    BY <1>2 DEF QueueBox
  <2>2. ~redrawn => drawn # 0 /\ (Boxed => v <= region.version)
    BY <2>1 DEF VersionsInOrder, NothingYet, NothingAhead
  <2>3. v \in Boxes
    BY DEF Boxes
  <2>4. /\ asked' \in [box: SUBSET (1..MaxBoxes), move: SUBSET Pages, page: SUBSET Pages]
        /\ asked'.box \in SUBSET asked.box
    BY <2>1 DEF TypeOK
  <2>. QED
    BY <1>1, <1>2, <2>1, <2>2, <2>3, <2>4 DEF QueueBox
<1>3. ASSUME NEW scope \in SUBSET Pages, NEW n \in {1, MaxAttempts},
             IF Boxed THEN NewJob(region.version, scope, n) ELSE UNCHANGED job,
             UNCHANGED <<rowVars, section, boundVars, historyVars>>,
             asked' \in [box: SUBSET (1..MaxBoxes), move: SUBSET Pages, page: SUBSET Pages],
             asked'.box \in SUBSET asked.box
      PROVE  IInv'
  <2>1. CASE Boxed
    <3>1. region.version \in Boxes /\ region.version <= region.version
      BY DEF TypeOK, Boxes
    <3>2. ~redrawn => drawn # 0
      BY <2>1 DEF VersionsInOrder, NothingYet, Boxed
    <3>. QED
      BY <1>1, <1>3, <2>1, <3>1, <3>2
  <2>2. CASE ~Boxed
    <3>1. UNCHANGED job
      BY <1>3, <2>2
    <3>2. TypeOK'
      BY <1>3, <3>1 DEF TypeOK
    <3>3. VersionsInOrder'
      BY <1>3, <3>1, OrderKept
    <3>. QED
      BY <1>3, <3>2, <3>3 DEF Counted
  <2>. QED
    BY <2>1, <2>2
<1>4. ASSUME NEW p \in Pages, QueueMove(p)
      PROVE  IInv'
  <2>1. asked' = [asked EXCEPT !.move = @ \ {p}]
    BY <1>4 DEF QueueMove
  <2>2. /\ asked' \in [box: SUBSET (1..MaxBoxes), move: SUBSET Pages, page: SUBSET Pages]
        /\ asked'.box \in SUBSET asked.box
    BY <2>1 DEF TypeOK
  <2>. QED
    BY <1>3, <1>4, <2>2 DEF QueueMove
<1>5. ASSUME NEW p \in Pages, QueuePage(p)
      PROVE  IInv'
  <2>1. asked' = [asked EXCEPT !.page = @ \ {p}]
    BY <1>5 DEF QueuePage
  <2>2. /\ asked' \in [box: SUBSET (1..MaxBoxes), move: SUBSET Pages, page: SUBSET Pages]
        /\ asked'.box \in SUBSET asked.box
    BY <2>1 DEF TypeOK
  <2>. QED
    BY <1>3, <1>5, <2>2 DEF QueuePage
<1>. QED
  BY <1>2, <1>4, <1>5 DEF Request

\* A row of the region with its status set is still that row.
LEMMA StatusTyped ==
  ASSUME TypeOK,
         NEW st \in {"none", "pending", "running", "completed", "failed"},
         SetStatus(st) \/ UNCHANGED region
  PROVE  /\ region' \in [version: Boxes, box: Boxes,
                         status: {"none", "pending", "running", "completed", "failed"}]
         /\ region'.version = region.version /\ region'.box = region.box
BY DEF TypeOK, SetStatus

\* A step of one execution that leaves versions and boxes alone.
LEMMA StepInv ==
  ASSUME IInv, NEW j \in Jobs, NEW e \in JobRow, Becomes(j, e), GoesOn(job[j], e),
         NEW st \in {"none", "pending", "running", "completed", "failed"},
         SetStatus(st) \/ UNCHANGED region,
         page' \in [Pages -> PageRow],
         \A p \in Pages : /\ page'[p].version = page[p].version
                          /\ page'[p].text = page[p].text,
         group' \in [AllKinds -> SUBSET Pages],
         summary' \in [AllKinds -> [state: {"none", "ready", "stale"}, of: SUBSET Pages]],
         section' \in Jobs \cup {NoJob}, faults' \in 0..MaxFaults, gaveUp' \in BOOLEAN,
         UNCHANGED <<asked, drawn, requests, redrawn, late>>
  PROVE  IInv'
<1>. USE DEF IInv
<1>1. /\ region' \in [version: Boxes, box: Boxes,
                      status: {"none", "pending", "running", "completed", "failed"}]
      /\ region'.version = region.version /\ region'.box = region.box
  BY StatusTyped
<1>2. /\ job' \in [Jobs -> JobRow] /\ job'[j] = e
      /\ \A i \in Jobs \ {j} : job'[i] = job[i]
  BY BecomesTyped
<1>3. TypeOK'
  BY <1>1, <1>2 DEF TypeOK
<1>4. \A i \in Jobs : job'[i] = job[i] \/ GoesOn(job[i], job'[i])
  BY <1>2
<1>5. VersionsInOrder'
  BY <1>1, <1>4, OrderKept
<1>6. Counted'
  BY <1>1 DEF Counted
<1>. QED
  BY <1>3, <1>5, <1>6

\* What an execution does.
LEMMA RunInv == ASSUME IInv, NEW j \in Jobs, Run(j) PROVE IInv'
<1>. USE DEF IInv
<1>. DEFINE e == job[j]
<1>a. /\ e \in JobRow /\ page \in [Pages -> PageRow] /\ group \in [AllKinds -> SUBSET Pages]
      /\ summary \in [AllKinds -> [state: {"none", "ready", "stale"}, of: SUBSET Pages]]
      /\ section \in Jobs \cup {NoJob} /\ faults \in 0..MaxFaults
  BY DEF TypeOK
<1>b. gaveUp \in BOOLEAN
  BY Zenon DEF TypeOK
<1>c. PortionPages \in [AllKinds -> SUBSET Pages]
  BY LivePages DEF PortionPages
<1>d. GoesOn(e, FreeJob)
  BY DEF GoesOn, FreeJob
<1>1. CASE Discard(j)
  <2>1. gaveUp' \in BOOLEAN
    BY <1>1, Zenon DEF Discard
  <2>. QED
    BY <1>1, <1>a, <1>d, <2>1, FreeJobTyped, StepInv DEF Discard
<1>2. CASE Take(j)
  <2>. DEFINE f == [e EXCEPT !.pc = "begun", !.box = region.box]
  <2>1. f \in JobRow /\ f.version = e.version /\ f.box = region.box /\ f.pc = "begun"
    BY <1>a DEF JobRow, TypeOK
  <2>2. Becomes(j, f)
    BY <1>2 DEF Take
  <2>. HIDE DEF f
  <2>3. /\ job' \in [Jobs -> JobRow] /\ job'[j] = f
        /\ \A i \in Jobs \ {j} : job'[i] = job[i]
    BY <2>1, <2>2, BecomesTyped
  <2>4. UNCHANGED <<region, page, group, summary, section, asked, drawn, requests,
                    faults, redrawn, gaveUp, late>>
    BY <1>2 DEF Take
  <2>5. TypeOK'
    BY <2>3, <2>4 DEF TypeOK
  <2>6. e.version = region.version /\ e.pc = "waiting" /\ region.version \in Nat
    BY <1>2 DEF Take, TypeOK, Boxes, Waiting
  <2>7. JobKnows(f, region)
    BY <2>1, <2>6 DEF JobKnows
  <2>8. \A i \in Jobs : JobKnows(job[i], region) => JobKnows(job'[i], region)
    BY <2>3, <2>7
  <2>9. ~NothingYet
    BY <2>6 DEF NothingYet
  <2>10. VersionsInOrder'
    BY <2>4, <2>8, <2>9 DEF VersionsInOrder, NothingAhead, Boxed
  <2>. QED
    BY <2>4, <2>5, <2>10 DEF Counted
<1>3. CASE Plan(j)
  <2>. DEFINE f == [e EXCEPT !.pc = "scraping", !.before = PortionPages,
                     !.todo = {p \in Live \cap e.scope : page[p].version # e.version}]
  <2>1. f \in JobRow
    BY <1>a, <1>c, LivePages DEF JobRow
  <2>2. GoesOn(e, f)
    BY <1>3, <1>a DEF Plan, GoesOn, JobRow
  <2>3. Becomes(j, f)
    BY <1>3 DEF Plan
  <2>. HIDE DEF f
  <2>. QED
    BY <1>3, <1>a, <1>b, <2>1, <2>2, <2>3, StepInv DEF Plan
<1>4. CASE ScrapePage(j)
  <2>. DEFINE p == Min(e.todo)
              f == [e EXCEPT !.todo = @ \ {p}]
              r == [page[p] EXCEPT !.text = e.box, !.version = e.version]
  <2>1. p \in Pages
    <3>1. e.todo \in SUBSET Pages /\ e.todo # {}
      BY <1>4, <1>a DEF ScrapePage, JobRow
    <3>. QED
      BY <3>1, MinIsIn
  <2>. HIDE DEF p
  <2>2. f \in JobRow /\ GoesOn(e, f) /\ e.pc = "scraping"
    BY <1>4, <1>a DEF JobRow, GoesOn, ScrapePage
  <2>3. Becomes(j, f)
    BY <1>4 DEF ScrapePage, p
  <2>4. page' = [page EXCEPT ![p] = r]
    BY <1>4, <1>a DEF ScrapePage, p
  <2>5. r \in PageRow /\ r.version = e.version /\ r.text = e.box
    <3>1. page[p] \in PageRow /\ e.box \in Boxes /\ e.version \in Boxes
      BY <1>a, <2>1 DEF JobRow
    <3>. HIDE DEF e
    <3>. QED
      BY <3>1 DEF PageRow
  <2>. HIDE DEF f, r
  <2>6. page' \in [Pages -> PageRow] /\ \A q \in Pages : page'[q] = IF q = p THEN r ELSE page[q]
    BY <2>4, <2>5, PageTyped
  <2>7. /\ job' \in [Jobs -> JobRow] /\ job'[j] = f
        /\ \A i \in Jobs \ {j} : job'[i] = job[i]
    BY <2>2, <2>3, BecomesTyped
  <2>8. UNCHANGED <<region, group, summary, section, asked, drawn, requests,
                    faults, redrawn, gaveUp, late>>
    BY <1>4 DEF ScrapePage
  <2>9. TypeOK'
    BY <2>6, <2>7, <2>8 DEF TypeOK
  <2>10. ~NothingYet
    BY <2>2 DEF NothingYet
  <2>11. ASSUME NothingAhead PROVE NothingAhead'
    <3>1. JobKnows(e, region) /\ JobKnows(f, region) /\ region.version \in Nat
      BY <2>2, <2>11 DEF NothingAhead, JobKnows, GoesOn, TypeOK, Boxes
    <3>2. PageKnows(r, region)
      BY <2>2, <2>5, <3>1 DEF PageKnows, JobKnows
    <3>. QED
      BY <2>6, <2>7, <2>8, <2>11, <3>1, <3>2 DEF NothingAhead
  <2>12. VersionsInOrder'
    BY <2>8, <2>10, <2>11 DEF VersionsInOrder, Boxed
  <2>. QED
    BY <2>8, <2>9, <2>12 DEF Counted
<1>5. CASE SkipPage(j)
  <2>. DEFINE f == [e EXCEPT !.todo = @ \ {Min(@)}]
  <2>1. f \in JobRow
    BY <1>a DEF JobRow
  <2>2. GoesOn(e, f)
    BY <1>5, <1>a DEF SkipPage, GoesOn, JobRow
  <2>3. Becomes(j, f)
    BY <1>5 DEF SkipPage
  <2>4. faults' \in 0..MaxFaults
    BY <1>5, <1>a DEF SkipPage
  <2>. HIDE DEF f
  <2>. QED
    BY <1>5, <1>a, <1>b, <2>1, <2>2, <2>3, <2>4, StepInv DEF SkipPage
<1>6. CASE EnterSection(j)
  <2>. DEFINE f == [e EXCEPT !.pc = "rows"]
  <2>1. f \in JobRow /\ GoesOn(e, f)
    BY <1>6, <1>a DEF JobRow, GoesOn, EnterSection
  <2>2. Becomes(j, f)
    BY <1>6 DEF EnterSection
  <2>. HIDE DEF f
  <2>. QED
    BY <1>6, <1>a, <1>b, <2>1, <2>2, StepInv DEF EnterSection
<1>7. CASE ReadRows(j)
  <2>1. PICK kind \in [Pages -> Kinds \cup {NoKind}], todo \in SUBSET Pages,
             blank \in SUBSET Pages :
               Becomes(j, [e EXCEPT !.pc = "sort", !.kind = kind, !.todo = todo,
                                    !.blank = blank, !.live = Live])
    <3>1. PICK kind \in [Pages -> Kinds \cup {NoKind}] :
            \E renumbered \in SUBSET {p \in Live \ (Rewritten(kind)
                                        \cup {p \in Live : ByHand(p)}) : kind[p] # NoKind} :
              Becomes(j, [e EXCEPT !.pc = "sort", !.kind = kind,
                !.todo = (Rewritten(kind) \cup renumbered) \ {p \in Live : ByHand(p)},
                !.blank = {p \in Live : kind[p] = NoKind
                             /\ page[p].kind # Filled(Live, kind, p)},
                !.live = Live])
      BY <1>7 DEF ReadRows, ReadRowsBut
    <3>2. PICK renumbered \in SUBSET Live :
              Becomes(j, [e EXCEPT !.pc = "sort", !.kind = kind,
                !.todo = (Rewritten(kind) \cup renumbered) \ {p \in Live : ByHand(p)},
                !.blank = {p \in Live : kind[p] = NoKind
                             /\ page[p].kind # Filled(Live, kind, p)},
                !.live = Live])
      BY <3>1
    <3>3. /\ (Rewritten(kind) \cup renumbered) \ {p \in Live : ByHand(p)} \in SUBSET Pages
          /\ {p \in Live : kind[p] = NoKind
                             /\ page[p].kind # Filled(Live, kind, p)} \in SUBSET Pages
      BY LivePages DEF Rewritten
    <3>. QED
      BY <3>2, <3>3
  <2>. DEFINE f == [e EXCEPT !.pc = "sort", !.kind = kind, !.todo = todo,
                             !.blank = blank, !.live = Live]
  <2>2. kind \in [Pages -> Kinds \cup {NoKind, Unclassified}]
    OBVIOUS
  <2>3. f \in JobRow
    BY <1>a, <2>2, LivePages DEF JobRow
  <2>4. GoesOn(e, f)
    BY <1>7, <1>a DEF JobRow, GoesOn, ReadRows, ReadRowsBut
  <2>5. UNCHANGED <<rowVars, section, asked, boundVars, historyVars>>
    BY <1>7 DEF ReadRows, ReadRowsBut
  <2>. HIDE DEF f
  <2>. QED
    BY <1>a, <1>b, <2>1, <2>3, <2>4, <2>5, StepInv DEF f
<1>8. CASE ReadNoRows(j)
  <2>. DEFINE f == [e EXCEPT !.pc = "flag"]
  <2>1. f \in JobRow /\ GoesOn(e, f)
    BY <1>8, <1>a DEF JobRow, GoesOn, ReadNoRows
  <2>2. Becomes(j, f)
    BY <1>8 DEF ReadNoRows
  <2>3. /\ group' \in [AllKinds -> SUBSET Pages]
        /\ summary' \in [AllKinds -> [state: {"none", "ready", "stale"}, of: SUBSET Pages]]
    BY <1>8 DEF ReadNoRows, NoSummary
  <2>. HIDE DEF f
  <2>. QED
    BY <1>8, <1>a, <1>b, <2>1, <2>2, <2>3, StepInv DEF ReadNoRows
<1>9. CASE WriteSheet(j)
  <2>. DEFINE p == Min(e.todo)
              f == [e EXCEPT !.todo = @ \ {p}]
              r == [page[p] EXCEPT !.kind = e.kind[p], !.source = SourceOf(e.kind[p])]
  <2>1. p \in Pages
    <3>1. e.todo \in SUBSET Pages /\ e.todo # {}
      BY <1>9, <1>a DEF WriteSheet, JobRow
    <3>. QED
      BY <3>1, MinIsIn
  <2>. HIDE DEF p
  <2>2. f \in JobRow /\ GoesOn(e, f)
    BY <1>9, <1>a DEF JobRow, GoesOn, WriteSheet
  <2>3. Becomes(j, f)
    BY <1>9 DEF WriteSheet, p
  <2>4. page' = [page EXCEPT ![p] = r]
    BY <1>9, <1>a DEF WriteSheet, p
  <2>5. r \in PageRow /\ r.version = page[p].version /\ r.text = page[p].text
    <3>1. page[p] \in PageRow /\ e.kind[p] \in AllKinds \cup {NoKind}
      BY <1>a, <2>1 DEF JobRow, AllKinds
    <3>2. SourceOf(e.kind[p]) \in {"none", "read"}
      BY DEF SourceOf
    <3>. HIDE DEF e
    <3>. QED
      BY <3>1, <3>2 DEF PageRow
  <2>. HIDE DEF f, r
  <2>6. page' \in [Pages -> PageRow] /\ \A q \in Pages : page'[q] = IF q = p THEN r ELSE page[q]
    BY <2>4, <2>5, PageTyped
  <2>7. \A q \in Pages : page'[q].version = page[q].version /\ page'[q].text = page[q].text
    BY <2>5, <2>6
  <2>. QED
    BY <1>9, <1>a, <1>b, <2>2, <2>3, <2>6, <2>7, StepInv DEF WriteSheet
<1>10. CASE WriteInherited(j)
  <2>. DEFINE p == Min(e.blank)
              k == Filled(e.live, e.kind, p)
              f == [e EXCEPT !.blank = @ \ {p}]
              r == [page[p] EXCEPT !.kind = k, !.source = "inherited"]
  <2>1. p \in Pages
    <3>1. e.blank \in SUBSET Pages /\ e.blank # {}
      BY <1>10, <1>a DEF WriteInherited, JobRow
    <3>. QED
      BY <3>1, MinIsIn
  <2>. HIDE DEF p
  <2>2. k \in AllKinds
    <3>1. e.live \in SUBSET Pages /\ e.kind \in [Pages -> AllKinds \cup {NoKind}]
      BY <1>a DEF JobRow, AllKinds
    <3>. QED
      BY <2>1, <3>1, FilledIsKind
  <2>3. f \in JobRow /\ GoesOn(e, f)
    BY <1>10, <1>a DEF JobRow, GoesOn, WriteInherited
  <2>4. Becomes(j, f)
    BY <1>10 DEF WriteInherited, p
  <2>5. page' = [page EXCEPT ![p] = r]
    BY <1>10, <1>a DEF WriteInherited, p
  <2>. HIDE DEF k
  <2>6. r \in PageRow /\ r.version = page[p].version /\ r.text = page[p].text
    <3>1. page[p] \in PageRow
      BY <1>a, <2>1
    <3>. QED
      BY <2>2, <3>1 DEF PageRow
  <2>. HIDE DEF f, r
  <2>7. page' \in [Pages -> PageRow] /\ \A q \in Pages : page'[q] = IF q = p THEN r ELSE page[q]
    BY <2>5, <2>6, PageTyped
  <2>8. \A q \in Pages : page'[q].version = page[q].version /\ page'[q].text = page[q].text
    BY <2>6, <2>7
  <2>. QED
    BY <1>10, <1>a, <1>b, <2>3, <2>4, <2>7, <2>8, StepInv DEF WriteInherited
<1>11. CASE Group(j)
  <2>. DEFINE f == [e EXCEPT !.pc = "flag"]
  <2>1. f \in JobRow /\ GoesOn(e, f)
    BY <1>11, <1>a DEF JobRow, GoesOn, Group
  <2>2. Becomes(j, f)
    BY <1>11 DEF Group
  <2>3. e.live \in SUBSET Pages
    BY <1>a DEF JobRow
  <2>4. group' \in [AllKinds -> SUBSET Pages]
    BY <1>11, <2>3 DEF Group
  <2>5. summary' \in [AllKinds -> [state: {"none", "ready", "stale"}, of: SUBSET Pages]]
    BY <1>11, <1>a DEF Group, NoSummary
  <2>. HIDE DEF f
  <2>. QED
    BY <1>11, <1>a, <1>b, <2>1, <2>2, <2>4, <2>5, StepInv DEF Group
<1>12. CASE Flag(j)
  <2>. DEFINE f == [e EXCEPT !.pc = "finish"]
  <2>1. f \in JobRow /\ GoesOn(e, f)
    BY <1>12, <1>a DEF JobRow, GoesOn, Flag
  <2>2. Becomes(j, f)
    BY <1>12 DEF Flag
  <2>3. summary' \in [AllKinds -> [state: {"none", "ready", "stale"}, of: SUBSET Pages]]
    <3>1. \A k \in AllKinds : [summary[k] EXCEPT !.state = "stale"]
                                \in [state: {"none", "ready", "stale"}, of: SUBSET Pages]
      BY <1>a
    <3>. QED
      BY <1>12, <1>a, <3>1 DEF Flag
  <2>4. section' \in Jobs \cup {NoJob}
    BY <1>12 DEF Flag
  <2>. HIDE DEF f
  <2>. QED
    BY <1>12, <1>a, <1>b, <2>1, <2>2, <2>3, <2>4, StepInv DEF Flag
<1>13. CASE Finish(j)
  BY <1>13, <1>a, <1>b, <1>d, FreeJobTyped, StepInv DEF Finish
<1>. QED
  BY <1>1, <1>2, <1>3, <1>4, <1>5, <1>6, <1>7, <1>8, <1>9, <1>10, <1>11, <1>12, <1>13 DEF Run

\* An exception or a crash: the execution ends, or waits to be run again.
LEMMA FaultInv == ASSUME IInv, NEW j \in Jobs, Raise(j) \/ Crash(j) PROVE IInv'
<1>. USE DEF IInv
<1>1. /\ job[j] \in JobRow /\ section' \in Jobs \cup {NoJob} /\ faults' \in 0..MaxFaults
      /\ page \in [Pages -> PageRow] /\ group \in [AllKinds -> SUBSET Pages]
      /\ summary \in [AllKinds -> [state: {"none", "ready", "stale"}, of: SUBSET Pages]]
  BY DEF TypeOK, Raise, Crash, Unlocked
<1>2. gaveUp' \in BOOLEAN
  <2>1. gaveUp \in BOOLEAN
    BY Zenon DEF TypeOK
  <2>. QED
    BY <2>1, Zenon DEF Raise, Crash
<1>3. UNCHANGED <<page, group, summary, asked, drawn, requests, redrawn, late>>
  BY DEF Raise, Crash
<1>4. PICK st \in {"none", "pending", "running", "completed", "failed"} :
        SetStatus(st) \/ UNCHANGED region
  BY DEF Raise, Crash
<1>5. PICK e \in JobRow : Becomes(j, e) /\ GoesOn(job[j], e)
  <2>1. FreeJob \in JobRow /\ GoesOn(job[j], FreeJob)
    BY FreeJobTyped DEF GoesOn, FreeJob
  <2>2. job[j].pc # "free" /\ FreeJob \in JobRow
    BY FreeJobTyped DEF Raise, Crash, Active
  <2>3. ASSUME job[j].tries + 1 < job[j].attempts
        PROVE  Again(j) \in JobRow /\ GoesOn(job[j], Again(j))
    <3>1. job[j].tries + 1 \in 0..MaxAttempts
      BY <1>1, <2>3, RegionScrapeAssumption DEF JobRow
    <3>. QED
      BY <1>1, <2>2, <3>1 DEF Again, GoesOn, JobRow, FreeJob
  <2>. DEFINE g == [Again(j) EXCEPT !.tries = job[j].tries, !.stalled = TRUE]
  <2>4. g \in JobRow /\ GoesOn(job[j], g)
    BY <1>1, <2>2 DEF Again, GoesOn, JobRow, FreeJob
  <2>5. Becomes(j, FreeJob) \/ (job[j].tries + 1 < job[j].attempts /\ Becomes(j, Again(j)))
          \/ Becomes(j, g)
    BY DEF Raise, Crash
  <2>. HIDE DEF g
  <2>. QED
    BY <2>1, <2>3, <2>4, <2>5
<1>. QED
  BY <1>1, <1>2, <1>3, <1>4, <1>5, StepInv

\* Every step keeps the invariant.
LEMMA NextInv == IInv /\ [Next]_vars => IInv'
<1>. SUFFICES ASSUME IInv, [Next]_vars PROVE IInv'
  OBVIOUS
<1>1. CASE Person
  BY <1>1, PersonInv
<1>2. CASE Request
  BY <1>2, RequestInv
<1>3. ASSUME NEW j \in Jobs, Run(j) \/ Raise(j) \/ Crash(j) PROVE IInv'
  BY <1>3, RunInv, FaultInv
<1>4. CASE UNCHANGED vars
  BY <1>4 DEF vars, IInv, TypeOK, Counted, VersionsInOrder, NothingYet, NothingAhead,
              PageKnows, JobKnows, Boxed
<1>. QED
  BY <1>1, <1>2, <1>3, <1>4 DEF Next

\* Every variable of the title-block read keeps to its type (TypeOK).
THEOREM TypesHold == Spec => []TypeOK
<1>1. IInv => TypeOK
  BY DEF IInv
<1>. QED
  BY <1>1, InitInv, NextInv, PTL DEF Spec

\* With any number of jobs of older boxes still running, a page whose stored
\* version is the box's was read in that box (scrape.run, db.pages_to_scrape,
\* routes/region.ts), unless a box was drawn where one had been cleared.
THEOREM VersionsTell == Spec => []VersionTellsBox
<1>1. IInv => VersionTellsBox
  BY DEF IInv, VersionsInOrder, NothingAhead, PageKnows, VersionTellsBox
<1>. QED
  BY <1>1, InitInv, NextInv, PTL DEF Spec

-----------------------------------------------------------------------------
(* Moves by hand.                                                          *)

\* What a job still has to write takes no move back, unless the page was moved
\* after the job had read its rows.
LateKnown ==
  \A j \in Jobs : job[j].pc = "sort" =>
    \A p \in job[j].todo \cup job[j].blank : ByHand(p) => p \in late

MoveStands(p) ==
  ByHand(p) /\ page'[p].kind # page[p].kind =>
    p \in late \/ page'[p].source = "manual"

\* A step that moves no page by hand and gives no job more to write.
LEMMA LateKept ==
  ASSUME LateKnown, late' = late,
         \A p \in Pages : page'[p].source = "manual" => page'[p] = page[p],
         \A j \in Jobs : job'[j].pc = "sort" =>
           /\ job[j].pc = "sort"
           /\ job'[j].todo \in SUBSET job[j].todo /\ job'[j].blank \in SUBSET job[j].blank,
         TypeOK
  PROVE  LateKnown'
<1>1. \A j \in Jobs : job[j].todo \in SUBSET Pages /\ job[j].blank \in SUBSET Pages
  BY DEF TypeOK, JobRow
<1>. QED
  BY <1>1 DEF LateKnown, ByHand

\* A job that does not sort has nothing to write.
LEMMA NotSorting ==
  ASSUME TypeOK, LateKnown, UNCHANGED <<page, late>>,
         NEW j \in Jobs, NEW e \in JobRow, Becomes(j, e), e.pc # "sort"
  PROVE  LateKnown' /\ \A p \in Pages : MoveStands(p)
<1>1. job'[j] = e /\ \A i \in Jobs \ {j} : job'[i] = job[i]
  BY BecomesTyped
<1>2. \A i \in Jobs : job'[i].pc = "sort" => job'[i] = job[i]
  BY <1>1
<1>. QED
  BY <1>2, LateKept DEF MoveStands

\* One page is written by a job that had it to write.
LEMMA WriteKeeps ==
  ASSUME TypeOK, LateKnown, late' = late, NEW j \in Jobs, NEW e \in JobRow,
         Becomes(j, e), job[j].pc = "sort",
         e.todo \in SUBSET job[j].todo, e.blank \in SUBSET job[j].blank,
         NEW p \in job[j].todo \cup job[j].blank, NEW k, NEW src, src # "manual",
         p \in Pages, page' = [page EXCEPT ![p].kind = k, ![p].source = src]
  PROVE  LateKnown' /\ \A q \in Pages : MoveStands(q)
<1>1. job'[j] = e /\ \A i \in Jobs \ {j} : job'[i] = job[i]
  BY BecomesTyped
<1>2. page \in [Pages -> PageRow]
  BY DEF TypeOK
<1>3. page'[p].source = src /\ \A q \in Pages \ {p} : page'[q] = page[q]
  BY <1>2 DEF PageRow
<1>4. LateKnown'
  BY <1>1, <1>3, LateKept
<1>5. ByHand(p) => p \in late
  BY DEF LateKnown
<1>. QED
  BY <1>3, <1>4, <1>5 DEF MoveStands

LEMMA InitLate == Init => LateKnown
BY DEF Init, LateKnown, FreeJob

LEMMA PersonMoves ==
  ASSUME TypeOK, LateKnown, Person
  PROVE  LateKnown' /\ \A p \in Pages : MoveStands(p)
<1>1. CASE DrawBox \/ Rescrape \/ ClearBox \/ \E k \in AllKinds : Summarize(k)
  <2>1. UNCHANGED <<page, job, late>>
    BY <1>1 DEF DrawBox, Rescrape, ClearBox, Summarize
  <2>. QED
    BY <2>1, LateKept DEF MoveStands
<1>2. ASSUME NEW p \in Pages, AddPage(p)
      PROVE  LateKnown' /\ \A q \in Pages : MoveStands(q)
  <2>1. page' = [page EXCEPT ![p].there = TRUE] /\ UNCHANGED <<job, late>>
    BY <1>2 DEF AddPage
  <2>2. page \in [Pages -> PageRow]
    BY DEF TypeOK
  <2>3. \A q \in Pages : page'[q].kind = page[q].kind /\ page'[q].source = page[q].source
    BY <2>1, <2>2 DEF PageRow
  <2>4. \A j \in Jobs : job[j].todo \in SUBSET Pages /\ job[j].blank \in SUBSET Pages
    BY DEF TypeOK, JobRow
  <2>. QED
    BY <2>1, <2>3, <2>4 DEF LateKnown, ByHand, MoveStands
<1>3. ASSUME NEW p \in Pages, NEW k \in Kinds, MovePage(p, k)
      PROVE  LateKnown' /\ \A q \in Pages : MoveStands(q)
  <2>1. /\ page' = [page EXCEPT ![p].kind = k, ![p].source = "manual"] /\ job' = job
        /\ late' = IF \E j \in Jobs : job[j].pc = "sort" THEN late \cup {p} ELSE late \ {p}
    BY <1>3 DEF MovePage
  <2>2. page \in [Pages -> PageRow]
    BY DEF TypeOK
  <2>3. page'[p].source = "manual" /\ \A q \in Pages \ {p} : page'[q] = page[q]
    BY <2>1, <2>2 DEF PageRow
  <2>4. \A j \in Jobs : job[j].todo \in SUBSET Pages /\ job[j].blank \in SUBSET Pages
    BY DEF TypeOK, JobRow
  <2>5. CASE \E j \in Jobs : job[j].pc = "sort"
    BY <2>1, <2>3, <2>4, <2>5 DEF LateKnown, ByHand, MoveStands
  <2>6. CASE ~ \E j \in Jobs : job[j].pc = "sort"
    BY <2>1, <2>3, <2>6 DEF LateKnown, MoveStands
  <2>. QED
    BY <2>5, <2>6
<1>. QED
  BY <1>1, <1>2, <1>3 DEF Person

LEMMA RequestMoves ==
  ASSUME TypeOK, LateKnown, Request
  PROVE  LateKnown' /\ \A p \in Pages : MoveStands(p)
<1>1. UNCHANGED <<page, late>>
  BY DEF Request, QueueBox, QueueMove, QueuePage
<1>2. \A j \in Jobs : job'[j] = job[j] \/ job'[j].pc = "waiting"
  <2>1. ASSUME NEW v, NEW scope, NEW n, NewJob(v, scope, n)
        PROVE  \A j \in Jobs : job'[j] = job[j] \/ job'[j].pc = "waiting"
    <3>1. PICK j \in Jobs : job' = [job EXCEPT ![j] =
             [FreeJob EXCEPT !.pc = "waiting", !.version = v, !.scope = scope,
                             !.attempts = n]]
      BY <2>1 DEF NewJob, Becomes
    <3>2. job \in [Jobs -> JobRow]
      BY DEF TypeOK
    <3>. QED
      BY <3>1, <3>2 DEF FreeJob
  <2>. QED
    BY <2>1 DEF Request, QueueBox, QueueMove, QueuePage
<1>3. \A j \in Jobs : job'[j].pc = "sort" => job'[j] = job[j]
  BY <1>2
<1>. QED
  BY <1>1, <1>3, LateKept DEF MoveStands

LEMMA RunMoves ==
  ASSUME TypeOK, LateKnown, NEW j \in Jobs, Run(j) \/ Raise(j) \/ Crash(j)
  PROVE  LateKnown' /\ \A p \in Pages : MoveStands(p)
<1>. DEFINE e == job[j]
<1>a. e \in JobRow /\ page \in [Pages -> PageRow] /\ PortionPages \in [AllKinds -> SUBSET Pages]
  BY LivePages DEF TypeOK, PortionPages
<1>1. CASE Discard(j) \/ Finish(j)
  <2>1. FreeJob.pc = "free" /\ Becomes(j, FreeJob) /\ UNCHANGED <<page, late>>
    BY <1>1 DEF Discard, Finish, FreeJob
  <2>. QED
    BY <2>1, FreeJobTyped, NotSorting
<1>2. CASE Take(j)
  <2>. DEFINE f == [e EXCEPT !.pc = "begun", !.box = region.box]
  <2>1. f \in JobRow /\ f.pc # "sort"
    BY <1>a DEF JobRow, TypeOK
  <2>2. Becomes(j, f) /\ UNCHANGED <<page, late>>
    BY <1>2 DEF Take
  <2>. HIDE DEF f
  <2>. QED
    BY <2>1, <2>2, NotSorting
<1>3. CASE Plan(j)
  <2>. DEFINE f == [e EXCEPT !.pc = "scraping", !.before = PortionPages,
                     !.todo = {p \in Live \cap e.scope : page[p].version # e.version}]
  <2>1. f \in JobRow /\ f.pc # "sort"
    BY <1>a, LivePages DEF JobRow
  <2>2. Becomes(j, f) /\ UNCHANGED <<page, late>>
    BY <1>3 DEF Plan
  <2>. HIDE DEF f
  <2>. QED
    BY <2>1, <2>2, NotSorting
<1>4. CASE ScrapePage(j)
  <2>. DEFINE p == Min(e.todo)
              f == [e EXCEPT !.todo = @ \ {p}]
  <2>1. f \in JobRow /\ f.pc # "sort"
    BY <1>4, <1>a DEF JobRow, ScrapePage
  <2>2. /\ Becomes(j, f) /\ late' = late
        /\ page' = [page EXCEPT ![p].text = e.box, ![p].version = e.version]
    BY <1>4 DEF ScrapePage
  <2>. HIDE DEF f, p
  <2>3. job'[j] = f /\ \A i \in Jobs \ {j} : job'[i] = job[i]
    BY <2>1, <2>2, BecomesTyped
  <2>4. \A q \in Pages : page'[q].kind = page[q].kind /\ page'[q].source = page[q].source
    BY <1>a, <2>2 DEF PageRow
  <2>5. \A i \in Jobs : job[i].todo \in SUBSET Pages /\ job[i].blank \in SUBSET Pages
    BY DEF TypeOK, JobRow
  <2>. QED
    BY <2>1, <2>2, <2>3, <2>4, <2>5 DEF LateKnown, ByHand, MoveStands
<1>5. CASE SkipPage(j)
  <2>. DEFINE f == [e EXCEPT !.todo = @ \ {Min(@)}]
  <2>1. f \in JobRow /\ f.pc # "sort"
    BY <1>5, <1>a DEF JobRow, SkipPage
  <2>2. Becomes(j, f) /\ UNCHANGED <<page, late>>
    BY <1>5 DEF SkipPage
  <2>. HIDE DEF f
  <2>. QED
    BY <2>1, <2>2, NotSorting
<1>6. CASE EnterSection(j) \/ ReadNoRows(j) \/ Group(j) \/ Flag(j)
  <2>1. PICK pc \in {"rows", "flag", "finish"} :
          Becomes(j, [e EXCEPT !.pc = pc]) /\ UNCHANGED <<page, late>>
    BY <1>6 DEF EnterSection, ReadNoRows, Group, Flag
  <2>2. [e EXCEPT !.pc = pc] \in JobRow /\ [e EXCEPT !.pc = pc].pc # "sort"
    BY <1>a DEF JobRow
  <2>. QED
    BY <2>1, <2>2, NotSorting
<1>7. CASE ReadRows(j)
  <2>. DEFINE hand == {p \in Live : ByHand(p)}
  <2>1. PICK kind \in [Pages -> Kinds \cup {NoKind}] :
          /\ \A p \in hand : kind[p] = page[p].kind
          /\ \E renumbered \in SUBSET {p \in Live \ (Rewritten(kind) \cup hand) : kind[p] # NoKind} :
               Becomes(j, [e EXCEPT !.pc = "sort", !.kind = kind,
                !.todo = (Rewritten(kind) \cup renumbered) \ hand,
                !.blank = {p \in Live : kind[p] = NoKind
                             /\ page[p].kind # Filled(Live, kind, p)},
                !.live = Live])
    BY <1>7 DEF ReadRows, ReadRowsBut
  <2>2. PICK todo \in SUBSET Live, blank \in SUBSET Live :
          /\ todo \cap hand = {} /\ \A p \in blank : kind[p] = NoKind
          /\ Becomes(j, [e EXCEPT !.pc = "sort", !.kind = kind, !.todo = todo,
                                  !.blank = blank, !.live = Live])
    <3>1. PICK renumbered \in SUBSET Live :
               Becomes(j, [e EXCEPT !.pc = "sort", !.kind = kind,
                !.todo = (Rewritten(kind) \cup renumbered) \ hand,
                !.blank = {p \in Live : kind[p] = NoKind
                             /\ page[p].kind # Filled(Live, kind, p)},
                !.live = Live])
      BY <2>1
    <3>2. (Rewritten(kind) \cup renumbered) \ hand \in SUBSET Live
      BY DEF Rewritten
    <3>. QED
      BY <3>1, <3>2
  <2>. DEFINE f == [e EXCEPT !.pc = "sort", !.kind = kind, !.todo = todo,
                             !.blank = blank, !.live = Live]
  <2>3. kind \in [Pages -> Kinds \cup {NoKind, Unclassified}]
    OBVIOUS
  <2>4. f \in JobRow /\ f.todo = todo /\ f.blank = blank
    BY <1>a, <2>3, LivePages DEF JobRow
  <2>. HIDE DEF f
  <2>5. job'[j] = f /\ \A i \in Jobs \ {j} : job'[i] = job[i]
    BY <2>2, <2>4, BecomesTyped DEF f
  <2>6. \A p \in todo \cup blank : ~ByHand(p)
    BY <2>1, <2>2 DEF ByHand
  <2>7. UNCHANGED <<page, late>>
    BY <1>7 DEF ReadRows, ReadRowsBut
  <2>8. \A i \in Jobs : job[i].todo \in SUBSET Pages /\ job[i].blank \in SUBSET Pages
    BY DEF TypeOK, JobRow
  <2>. QED
    BY <2>4, <2>5, <2>6, <2>7, <2>8 DEF LateKnown, ByHand, MoveStands
<1>8. CASE WriteSheet(j)
  <2>. DEFINE p == Min(e.todo)
              f == [e EXCEPT !.todo = @ \ {p}]
              k == e.kind[p]
  <2>1. e.todo \in SUBSET Pages /\ e.todo # {} /\ e.pc = "sort"
    BY <1>8, <1>a DEF WriteSheet, JobRow
  <2>2. p \in e.todo
    BY <2>1, MinIsIn
  <2>3. /\ Becomes(j, f) /\ late' = late
        /\ page' = [page EXCEPT ![p].kind = k, ![p].source = SourceOf(k)]
    BY <1>8 DEF WriteSheet
  <2>4. f \in JobRow /\ f.todo \in SUBSET e.todo /\ f.blank = e.blank
    BY <1>a DEF JobRow
  <2>5. SourceOf(k) # "manual"
    BY DEF SourceOf
  <2>. HIDE DEF f, p, k
  <2>. QED
    BY <2>1, <2>2, <2>3, <2>4, <2>5, WriteKeeps
<1>9. CASE WriteInherited(j)
  <2>. DEFINE p == Min(e.blank)
              f == [e EXCEPT !.blank = @ \ {p}]
              k == Filled(e.live, e.kind, p)
  <2>1. e.blank \in SUBSET Pages /\ e.blank # {} /\ e.pc = "sort"
    BY <1>9, <1>a DEF WriteInherited, JobRow
  <2>2. p \in e.blank
    BY <2>1, MinIsIn
  <2>3. /\ Becomes(j, f) /\ late' = late
        /\ page' = [page EXCEPT ![p].kind = k, ![p].source = "inherited"]
    BY <1>9 DEF WriteInherited
  <2>4. f \in JobRow /\ f.blank \in SUBSET e.blank /\ f.todo = e.todo
    BY <1>a DEF JobRow
  <2>. HIDE DEF f, p, k
  <2>. QED
    BY <2>1, <2>2, <2>3, <2>4, WriteKeeps
<1>10. CASE Raise(j) \/ Crash(j)
  <2>1. UNCHANGED <<page, late>>
    BY <1>10 DEF Raise, Crash
  <2>2. \A i \in Jobs : job'[i].pc = "sort" => job'[i] = job[i]
    <3>1. job \in [Jobs -> JobRow]
      BY DEF TypeOK
    <3>2. job'[j].pc \in {"free", "waiting"} /\ \A i \in Jobs \ {j} : job'[i] = job[i]
      <4>. DEFINE g == [Again(j) EXCEPT !.tries = job[j].tries, !.stalled = TRUE]
      <4>1. FreeJob.pc = "free" /\ Again(j).pc = "waiting" /\ g.pc = "waiting"
        BY DEF FreeJob, Again
      <4>2. Becomes(j, FreeJob) \/ Becomes(j, Again(j)) \/ Becomes(j, g)
        BY <1>10 DEF Raise, Crash
      <4>. HIDE DEF g
      <4>. QED
        BY <3>1, <4>1, <4>2 DEF Becomes
    <3>. QED
      BY <3>2
  <2>. QED
    BY <2>1, <2>2, LateKept DEF MoveStands
<1>. QED
  BY <1>1, <1>2, <1>3, <1>4, <1>5, <1>6, <1>7, <1>8, <1>9, <1>10 DEF Run

\* A page moved by hand stays where it was put, but for a read that had its
\* rows before the move (MovesStand), however many reads and moves there are.
THEOREM MovesHold == Spec => MovesStand
<1>1. IInv /\ LateKnown /\ [Next]_vars => LateKnown' /\ [\A p \in Pages : MoveStands(p)]_vars
  <2>. SUFFICES ASSUME TypeOK, LateKnown, [Next]_vars
                PROVE  LateKnown' /\ [\A p \in Pages : MoveStands(p)]_vars
    BY DEF IInv
  <2>1. CASE Next
    BY <2>1, PersonMoves, RequestMoves, RunMoves DEF Next
  <2>2. CASE UNCHANGED vars
    <3>1. LateKnown'
      BY <2>2 DEF vars, LateKnown, ByHand
    <3>. QED
      BY <2>2, <3>1
  <2>. QED
    BY <2>1, <2>2
<1>2. Spec => [][\A p \in Pages : MoveStands(p)]_vars
  BY <1>1, InitInv, NextInv, InitLate, PTL DEF Spec
<1>. QED
  BY <1>2 DEF MovesStand, MoveStands

-----------------------------------------------------------------------------
(* Pages and groups.  Whoever makes a page and its group differ leaves     *)
(* behind a read still to come; and while a read writes, what differs is   *)
(* what it still has to write.                                             *)

\* The project lock serializes what is read of the rows and made of them.
InSection(e) == e.pc \in {"rows", "sort", "flag"}
LockHeld == \A j \in Jobs : InSection(job[j]) => section = j

\* A page that is not there yet has no kind.
NewPagesUnread == \A p \in Pages : ~page[p].there => page[p].kind = NoKind

SortsLive ==
  \A j \in Jobs : job[j].pc = "sort" =>
    /\ job[j].todo \in SUBSET job[j].live /\ job[j].blank \in SUBSET job[j].live
    /\ job[j].live \in SUBSET Live

\* A job that will read the rows, or say that it gave up.
WillRead(e) ==
  \/ e.pc = "waiting" /\ (e.version = region.version \/ e.tries > 0 \/ e.stalled)
  \/ e.pc \in {"begun", "scraping", "rows"}

\* A read is still to come, or nothing is promised.
Due ==
  \/ ~Boxed \/ gaveUp
  \/ region.version \in asked.box \/ asked.move # {}
  \/ \E j \in Jobs : WillRead(job[j])

\* A page has what the job will count it as, or the job has it to write.
Sorting(e) ==
  \A p \in Pages :
    \/ page[p].kind = NoKind
    \/ p \in e.todo \cup e.blank
    \/ p \in e.live /\ page[p].kind = Filled(e.live, e.kind, p)

Grouped == \A p \in Live : page[p].kind # NoKind => p \in group[page[p].kind]

Tended ==
  ~Due => /\ \A j \in Jobs : job[j].pc = "sort" => Sorting(job[j])
          /\ (\A j \in Jobs : job[j].pc # "sort") => Grouped

GroupInv == LockHeld /\ NewPagesUnread /\ SortsLive /\ Tended

\* A page that was read is counted as what it was read as.
LEMMA FilledAsRead ==
  ASSUME NEW live \in SUBSET Pages, NEW kind \in [Pages -> AllKinds \cup {NoKind}],
         NEW p \in live, kind[p] # NoKind
  PROVE  Filled(live, kind, p) = kind[p]
<1>. DEFINE sorted == {q \in live : kind[q] # NoKind}
            before == {q \in sorted : q <= p}
<1>1. \A q \in live : q \in Nat
  BY DEF Pages
<1>2. p \in before /\ \A q \in before : p >= q /\ q \in Nat
  BY <1>1
<1>3. p \in Nat /\ \A q \in before : q \in Nat
  BY <1>1
<1>. HIDE DEF before
<1>4. Max(before) \in before /\ \A q \in before : Max(before) >= q
  BY <1>2 DEF Max
<1>5. Max(before) = p
  <2>1. PICK m : m = Max(before)
    OBVIOUS
  <2>2. m \in Nat /\ m >= p /\ p >= m
    BY <1>2, <1>3, <1>4, <2>1
  <2>. QED
    BY <1>3, <2>1, <2>2
<1>6. before # {}
  BY <1>2
<1>7. Filled(live, kind, p) = IF before # {} THEN kind[Max(before)]
                              ELSE IF sorted # {} THEN kind[Min(sorted)] ELSE Unclassified
  BY DEF Filled, before
<1>. QED
  BY <1>5, <1>6, <1>7

LEMMA InitGroups == Init => GroupInv
<1>. SUFFICES ASSUME Init PROVE GroupInv
  OBVIOUS
<1>1. \A j \in Jobs : job[j].pc = "free"
  BY DEF Init, FreeJob
<1>2. \A p \in Pages : page[p].kind = NoKind
  BY DEF Init, NoPage
<1>. QED
  BY <1>1, <1>2 DEF GroupInv, LockHeld, InSection, NewPagesUnread, SortsLive, Tended, Grouped,
                    Live

\* A step that writes no kind and no group, and has no rows read.
LEMMA KindsKept ==
  ASSUME TypeOK, GroupInv, group' = group,
         \A p \in Pages : /\ page'[p].kind = page[p].kind
                          /\ page[p].there => page'[p].there,
         \A i \in Jobs : (job'[i].pc = "sort" \/ job[i].pc = "sort") => job'[i] = job[i],
         LockHeld', Due => Due'
  PROVE  GroupInv'
<1>. USE DEF GroupInv
<1>1. NewPagesUnread'
  BY DEF NewPagesUnread
<1>2. Live \in SUBSET Live'
  BY DEF Live
<1>3. SortsLive'
  BY <1>2 DEF SortsLive
<1>4. ASSUME ~Due PROVE Grouped => Grouped'
  <2>. SUFFICES ASSUME Grouped, NEW p \in Live', page'[p].kind # NoKind
                PROVE  p \in group[page'[p].kind]
    BY DEF Grouped
  <2>1. p \in Pages /\ page[p].kind # NoKind
    BY DEF Live
  <2>2. p \in Live
    BY <2>1 DEF NewPagesUnread, Live
  <2>. QED
    BY <2>1, <2>2 DEF Grouped
<1>5. \A j \in Jobs : job'[j].pc = "sort" /\ Sorting(job[j]) => Sorting(job[j])'
  BY DEF Sorting
<1>6. Tended'
  <2>. SUFFICES ASSUME ~Due' PROVE /\ \A j \in Jobs : job'[j].pc = "sort" => Sorting(job[j])'
                                   /\ (\A j \in Jobs : job'[j].pc # "sort") => Grouped'
    BY DEF Tended
  <2>1. ~Due
    OBVIOUS
  <2>2. \A j \in Jobs : job'[j].pc = "sort" => Sorting(job[j])'
    BY <1>5, <2>1 DEF Tended
  <2>3. (\A j \in Jobs : job'[j].pc # "sort") => \A j \in Jobs : job[j].pc # "sort"
    OBVIOUS
  <2>. QED
    BY <1>4, <2>1, <2>2, <2>3 DEF Tended
<1>. QED
  BY <1>1, <1>3, <1>6

LEMMA LockKept ==
  ASSUME LockHeld, section' = section,
         \A i \in Jobs : InSection(job'[i]) => InSection(job[i])
  PROVE  LockHeld'
BY DEF LockHeld, InSection

LEMMA PersonGroups ==
  ASSUME TypeOK, TypeOK', GroupInv, Person
  PROVE  GroupInv'
<1>. USE DEF GroupInv
<1>1. CASE DrawBox
  <2>1. UNCHANGED <<page, group, job, section>>
        /\ region'.version \in asked'.box
    BY <1>1 DEF DrawBox, TypeOK
  <2>2. Due'
    BY <2>1 DEF Due
  <2>3. LockHeld'
    BY <2>1 DEF LockHeld, InSection
  <2>. QED
    BY <2>1, <2>2, <2>3, KindsKept
<1>2. CASE Rescrape
  <2>1. /\ UNCHANGED <<page, group, job, section, gaveUp>>
        /\ region'.version = region.version /\ asked'.move = asked.move
        /\ asked.box \in SUBSET asked'.box
    BY <1>2 DEF Rescrape, TypeOK
  <2>2. Due => Due'
    BY <2>1 DEF Due, WillRead, Boxed
  <2>3. LockHeld'
    BY <2>1 DEF LockHeld, InSection
  <2>. QED
    BY <2>1, <2>2, <2>3, KindsKept
<1>3. CASE ClearBox
  <2>1. UNCHANGED <<page, group, job, section>> /\ region'.version = 0
    BY <1>3 DEF ClearBox, NoRegion
  <2>2. Due'
    BY <2>1 DEF Due, Boxed
  <2>3. LockHeld'
    BY <2>1 DEF LockHeld, InSection
  <2>. QED
    BY <2>1, <2>2, <2>3, KindsKept
<1>4. ASSUME NEW p \in Pages, AddPage(p)
      PROVE  GroupInv'
  <2>1. /\ UNCHANGED <<region, group, job, section, gaveUp>>
        /\ asked'.box = asked.box /\ asked'.move = asked.move
    BY <1>4 DEF AddPage, TypeOK
  <2>2. page \in [Pages -> PageRow] /\ page' = [page EXCEPT ![p].there = TRUE]
    BY <1>4 DEF AddPage, TypeOK
  <2>3. \A q \in Pages : page'[q].kind = page[q].kind /\ (page[q].there => page'[q].there)
    BY <2>2 DEF PageRow
  <2>4. Due => Due'
    BY <2>1 DEF Due, WillRead, Boxed
  <2>5. LockHeld'
    BY <2>1 DEF LockHeld, InSection
  <2>. QED
    BY <2>1, <2>3, <2>4, <2>5, KindsKept
<1>5. ASSUME NEW p \in Pages, NEW k \in Kinds, MovePage(p, k)
      PROVE  GroupInv'
  <2>1. UNCHANGED <<group, job, section>> /\ p \in asked'.move
    BY <1>5 DEF MovePage, TypeOK
  <2>2. /\ page \in [Pages -> PageRow] /\ page[p].there
        /\ page' = [page EXCEPT ![p].kind = k, ![p].source = "manual"]
    BY <1>5 DEF MovePage, TypeOK
  <2>3. Due'
    BY <2>1 DEF Due
  <2>4. NewPagesUnread' /\ Live' = Live
    BY <2>2 DEF PageRow, NewPagesUnread, Live
  <2>. QED
    BY <2>1, <2>3, <2>4 DEF LockHeld, InSection, SortsLive, Tended
<1>6. ASSUME NEW k \in AllKinds, Summarize(k)
      PROVE  GroupInv'
  <2>1. UNCHANGED <<region, page, group, job, section, asked, gaveUp>>
    BY <1>6 DEF Summarize
  <2>2. Due => Due'
    BY <2>1 DEF Due, WillRead, Boxed
  <2>3. LockHeld'
    BY <2>1 DEF LockHeld, InSection
  <2>. QED
    BY <2>1, <2>2, <2>3, KindsKept
<1>. QED
  BY <1>1, <1>2, <1>3, <1>4, <1>5, <1>6 DEF Person

LEMMA RequestGroups ==
  ASSUME TypeOK, GroupInv, Request
  PROVE  GroupInv'
<1>. USE DEF GroupInv
<1>1. UNCHANGED <<region, page, group, section, gaveUp>>
  BY DEF Request, QueueBox, QueueMove, QueuePage
<1>2. ASSUME NEW v, NEW scope, NEW n, NewJob(v, scope, n)
      PROVE  /\ \A i \in Jobs : job'[i] = job[i]
                                \/ (job[i].pc = "free" /\ job'[i].pc = "waiting")
             /\ \E i \in Jobs : job'[i].pc = "waiting" /\ job'[i].version = v
  <2>1. PICK j \in Jobs : job[j].pc = "free" /\ job' = [job EXCEPT ![j] =
           [FreeJob EXCEPT !.pc = "waiting", !.version = v, !.scope = scope,
                           !.attempts = n]]
    BY <1>2 DEF NewJob, Becomes
  <2>2. job \in [Jobs -> JobRow]
    BY DEF TypeOK
  <2>. QED
    BY <2>1, <2>2 DEF FreeJob
<1>3. \A i \in Jobs : job'[i] = job[i] \/ (job[i].pc = "free" /\ job'[i].pc = "waiting")
  BY <1>2, Zenon DEF Request, QueueBox, QueueMove, QueuePage
<1>4. LockHeld'
  BY <1>1, <1>3, LockKept DEF InSection
<1>5. \A i \in Jobs : WillRead(job[i]) => WillRead(job[i])'
  BY <1>1, <1>3 DEF WillRead
<1>6. ASSUME Due PROVE Due'
  <2>1. ASSUME NEW v \in 1..MaxBoxes, QueueBox(v) PROVE Due'
    <3>1. /\ asked'.move = asked.move /\ asked'.box = asked.box \ {v}
          /\ NewJob(v, Pages, MaxAttempts)
      BY <2>1 DEF QueueBox, TypeOK
    <3>2. PICK i \in Jobs : job'[i].pc = "waiting" /\ job'[i].version = v
      BY <1>2, <3>1
    <3>3. CASE v = region.version
      BY <1>1, <3>2, <3>3 DEF Due, WillRead
    <3>4. CASE v # region.version
      BY <1>1, <1>5, <1>6, <3>1, <3>4 DEF Due, Boxed
    <3>. QED
      BY <3>3, <3>4
  <2>2. ASSUME NEW p \in Pages, QueueMove(p) PROVE Due'
    <3>1. CASE Boxed
      <4>1. NewJob(region.version, Pages, MaxAttempts)
        BY <2>2, <3>1 DEF QueueMove
      <4>2. PICK i \in Jobs : job'[i].pc = "waiting" /\ job'[i].version = region.version
        BY <1>2, <4>1
      <4>. QED
        BY <1>1, <4>2 DEF Due, WillRead
    <3>2. CASE ~Boxed
      BY <1>1, <3>2 DEF Due, Boxed
    <3>. QED
      BY <3>1, <3>2
  <2>3. ASSUME NEW p \in Pages, QueuePage(p) PROVE Due'
    <3>1. asked'.move = asked.move /\ asked'.box = asked.box
      BY <2>3 DEF QueuePage, TypeOK
    <3>. QED
      BY <1>1, <1>5, <1>6, <3>1 DEF Due, Boxed
  <2>. QED
    BY <2>1, <2>2, <2>3 DEF Request
<1>7. \A i \in Jobs : (job'[i].pc = "sort" \/ job[i].pc = "sort") => job'[i] = job[i]
  BY <1>3
<1>. QED
  BY <1>1, <1>4, <1>6, <1>7, KindsKept

\* One execution steps on without writing a kind or reading the rows.
LEMMA StepGroups ==
  ASSUME TypeOK, GroupInv, NEW j \in Jobs, NEW e \in JobRow, Becomes(j, e),
         job[j].pc # "sort", e.pc # "sort",
         region'.version = region.version, asked' = asked, group' = group,
         \A p \in Pages : page'[p].kind = page[p].kind /\ page'[p].there = page[p].there,
         gaveUp => gaveUp',
         \/ gaveUp'
         \/ WillRead(job[j]) => e.pc \in {"begun", "scraping", "rows"},
         LockHeld'
  PROVE  GroupInv'
<1>1. /\ job'[j] = e /\ \A i \in Jobs \ {j} : job'[i] = job[i]
  BY BecomesTyped
<1>2. \A i \in Jobs : WillRead(job[i]) => WillRead(job[i])' \/ gaveUp'
  BY <1>1 DEF WillRead
<1>3. Due => Due'
  BY <1>2 DEF Due, Boxed
<1>. QED
  BY <1>1, <1>3, KindsKept

\* A job in the section writes one of the pages it had to write.
LEMMA WriteGroups ==
  ASSUME TypeOK, GroupInv, NEW j \in Jobs, NEW e \in JobRow, Becomes(j, e),
         job[j].pc = "sort", e.pc = "sort", e.live = job[j].live, e.kind = job[j].kind,
         NEW p \in job[j].live, NEW k, k \in {NoKind, Filled(e.live, e.kind, p)}, NEW src,
         e.todo \in SUBSET job[j].todo, e.blank \in SUBSET job[j].blank,
         \A q \in job[j].todo \cup job[j].blank : q # p => q \in e.todo \cup e.blank,
         page' = [page EXCEPT ![p].kind = k, ![p].source = src],
         UNCHANGED <<region, group, section, asked, gaveUp>>
  PROVE  GroupInv'
<1>. USE DEF GroupInv
<1>1. /\ job'[j] = e /\ \A i \in Jobs \ {j} : job'[i] = job[i]
  BY BecomesTyped
<1>2. job \in [Jobs -> JobRow] /\ page \in [Pages -> PageRow]
  BY DEF TypeOK
<1>3. page[p].there /\ p \in Pages
  BY DEF SortsLive, Live
<1>4. /\ page'[p].kind = k /\ \A q \in Pages \ {p} : page'[q] = page[q]
      /\ page'[p].there = page[p].there
  BY <1>2, <1>3 DEF PageRow
<1>5. Live' = Live
  BY <1>3, <1>4 DEF Live
<1>6. LockHeld'
  BY <1>1, LockKept DEF InSection
<1>7. NewPagesUnread'
  BY <1>3, <1>4 DEF NewPagesUnread
<1>8. SortsLive'
  BY <1>1, <1>5 DEF SortsLive
<1>9. Tended'
  <2>. SUFFICES ASSUME ~Due' PROVE \A i \in Jobs : job'[i].pc = "sort" => Sorting(job[i])'
    BY <1>1 DEF Tended
  <2>1. ~Due
    <3>1. \A i \in Jobs : WillRead(job[i]) => WillRead(job[i])'
      BY <1>1 DEF WillRead
    <3>. QED
      BY <3>1 DEF Due, Boxed
  <2>2. \A i \in Jobs : job'[i].pc = "sort" => i = j
    <3>1. \A i \in Jobs : job[i].pc = "sort" => section = i
      BY DEF LockHeld, InSection
    <3>. QED
      BY <1>1, <3>1
  <2>3. Sorting(job[j])
    BY <2>1 DEF Tended
  <2>4. Sorting(job[j])'
    <3>. SUFFICES ASSUME NEW q \in Pages
                  PROVE  \/ page'[q].kind = NoKind
                         \/ q \in e.todo \cup e.blank
                         \/ q \in e.live /\ page'[q].kind = Filled(e.live, e.kind, q)
      BY <1>1 DEF Sorting
    <3>1. CASE q = p
      BY <1>4, <3>1
    <3>2. CASE q # p
      BY <1>4, <2>3, <3>2 DEF Sorting
    <3>. QED
      BY <3>1, <3>2
  <2>. QED
    BY <2>2, <2>4
<1>. QED
  BY <1>6, <1>7, <1>8, <1>9

\* Reading the rows: from here on the job has to write what differs.
LEMMA ReadGroups ==
  ASSUME TypeOK, GroupInv, NEW j \in Jobs, ReadRows(j)
  PROVE  GroupInv'
<1>. USE DEF GroupInv
<1>. DEFINE hand == {p \in Live : ByHand(p)}
<1>1. PICK kind \in [Pages -> Kinds \cup {NoKind}], renumbered \in SUBSET Live :
        /\ \A p \in hand : kind[p] = page[p].kind
        /\ Becomes(j, [job[j] EXCEPT !.pc = "sort", !.kind = kind,
                !.todo = (Rewritten(kind) \cup renumbered) \ hand,
                !.blank = {p \in Live : kind[p] = NoKind
                             /\ page[p].kind # Filled(Live, kind, p)},
                !.live = Live])
  <2>1. PICK kind \in [Pages -> Kinds \cup {NoKind}] :
          /\ \A p \in hand : kind[p] = page[p].kind
          /\ \E renumbered \in SUBSET {p \in Live \ (Rewritten(kind) \cup hand) : kind[p] # NoKind} :
               Becomes(j, [job[j] EXCEPT !.pc = "sort", !.kind = kind,
                !.todo = (Rewritten(kind) \cup renumbered) \ hand,
                !.blank = {p \in Live : kind[p] = NoKind
                             /\ page[p].kind # Filled(Live, kind, p)},
                !.live = Live])
    BY DEF ReadRows, ReadRowsBut
  <2>. HIDE DEF hand
  <2>. QED
    BY <2>1
<1>. DEFINE todo == (Rewritten(kind) \cup renumbered) \ hand
            blank == {p \in Live : kind[p] = NoKind /\ page[p].kind # Filled(Live, kind, p)}
            f == [job[j] EXCEPT !.pc = "sort", !.kind = kind, !.todo = todo,
                                !.blank = blank, !.live = Live]
<1>2. todo \in SUBSET Live /\ blank \in SUBSET Live
  BY DEF Rewritten
<1>3. \A p \in Live : \/ p \in todo \cup blank
                      \/ page[p].kind = Filled(Live, kind, p)
  <2>. SUFFICES ASSUME NEW p \in Live, p \notin todo, p \notin blank
                PROVE  page[p].kind = Filled(Live, kind, p)
    OBVIOUS
  <2>1. CASE kind[p] = NoKind
    BY <2>1
  <2>2. CASE kind[p] # NoKind
    <3>1. kind[p] = page[p].kind
      BY <1>1 DEF Rewritten
    <3>2. Live \in SUBSET Pages /\ kind \in [Pages -> AllKinds \cup {NoKind}]
      BY LivePages DEF AllKinds
    <3>3. Filled(Live, kind, p) = kind[p]
      BY <2>2, <3>2, FilledAsRead
    <3>. QED
      BY <3>1, <3>3
  <2>. QED
    BY <2>1, <2>2
<1>4. /\ f.pc = "sort" /\ f.kind = kind /\ f.todo = todo /\ f.blank = blank /\ f.live = Live
      /\ f \in JobRow
  <2>1. job[j] \in JobRow /\ kind \in [Pages -> Kinds \cup {NoKind, Unclassified}]
    BY DEF TypeOK
  <2>2. todo \in SUBSET Pages /\ blank \in SUBSET Pages /\ Live \in SUBSET Pages
    BY <1>2, LivePages
  <2>. HIDE DEF todo, blank
  <2>. QED
    BY <2>1, <2>2 DEF JobRow
<1>5. Becomes(j, f)
  BY <1>1
<1>. HIDE DEF todo, blank, f
<1>6. /\ job'[j] = f /\ \A i \in Jobs \ {j} : job'[i] = job[i]
  BY <1>4, <1>5, BecomesTyped
<1>7. UNCHANGED <<page, group, section>> /\ job[j].pc = "rows"
  BY DEF ReadRows, ReadRowsBut
<1>8. LockHeld'
  BY <1>6, <1>7, LockKept DEF InSection
<1>9. NewPagesUnread' /\ Live' = Live
  BY <1>7 DEF NewPagesUnread, Live
<1>10. SortsLive'
  BY <1>2, <1>4, <1>6, <1>9 DEF SortsLive
<1>11. \A i \in Jobs : job'[i].pc = "sort" => i = j
  <2>1. section = j /\ \A i \in Jobs : job[i].pc = "sort" => section = i
    BY <1>7 DEF LockHeld, InSection
  <2>. QED
    BY <1>6, <2>1
<1>12. Sorting(job[j])'
  <2>1. \A p \in Pages : p \notin Live => page[p].kind = NoKind
    BY DEF NewPagesUnread, Live
  <2>. QED
    BY <1>3, <1>4, <1>6, <1>7, <2>1 DEF Sorting
<1>13. Tended'
  BY <1>4, <1>6, <1>11, <1>12 DEF Tended
<1>. QED
  BY <1>8, <1>9, <1>10, <1>13

LEMMA RunGroups ==
  ASSUME TypeOK, GroupInv, NEW j \in Jobs, Run(j)
  PROVE  GroupInv'
<1>. USE DEF GroupInv
<1>. DEFINE e == job[j]
<1>a. /\ job \in [Jobs -> JobRow] /\ e \in JobRow /\ page \in [Pages -> PageRow]
      /\ PortionPages \in [AllKinds -> SUBSET Pages]
  BY LivePages DEF TypeOK, PortionPages
<1>1. CASE Discard(j)
  <2>1. /\ FreeJob.pc = "free" /\ Becomes(j, FreeJob) /\ e.pc = "waiting"
        /\ UNCHANGED <<region, asked, group, page, section>>
        /\ gaveUp => gaveUp'
        /\ gaveUp' \/ ~WillRead(e)
    <3>1. e.tries \in Nat /\ e.version # region.version
      BY <1>1, <1>a DEF Discard, JobRow
    <3>2. gaveUp' = (gaveUp \/ e.tries > 0 \/ e.stalled)
      BY <1>1 DEF Discard
    <3>3. e.pc = "waiting"
      BY <1>1 DEF Discard, Waiting
    <3>4. gaveUp' \/ ~WillRead(e)
      BY <3>1, <3>2, <3>3 DEF WillRead
    <3>. QED
      BY <1>1, <3>2, <3>3, <3>4 DEF Discard, FreeJob
  <2>2. job'[j] = FreeJob /\ \A i \in Jobs \ {j} : job'[i] = job[i]
    BY <2>1, FreeJobTyped, BecomesTyped
  <2>3. LockHeld'
    BY <2>1, <2>2, LockKept DEF InSection
  <2>. QED
    BY <2>1, <2>3, FreeJobTyped, StepGroups
<1>2. CASE Take(j)
  <2>. DEFINE f == [e EXCEPT !.pc = "begun", !.box = region.box]
  <2>1. f \in JobRow /\ f.pc = "begun" /\ Becomes(j, f)
    BY <1>2, <1>a DEF JobRow, TypeOK, Take
  <2>2. UNCHANGED <<region, asked, group, page, section, gaveUp>> /\ e.pc = "waiting"
    BY <1>2 DEF Take, Waiting
  <2>. HIDE DEF f
  <2>3. job'[j] = f /\ \A i \in Jobs \ {j} : job'[i] = job[i]
    BY <2>1, BecomesTyped
  <2>4. LockHeld'
    BY <2>1, <2>2, <2>3, LockKept DEF InSection
  <2>. QED
    BY <2>1, <2>2, <2>4, StepGroups, SMTT(30)
<1>3. CASE Plan(j)
  <2>. DEFINE f == [e EXCEPT !.pc = "scraping", !.before = PortionPages,
                     !.todo = {p \in Live \cap e.scope : page[p].version # e.version}]
  <2>1. f \in JobRow /\ f.pc = "scraping" /\ Becomes(j, f)
    <3>1. {p \in Live \cap e.scope : page[p].version # e.version} \in SUBSET Pages
      BY LivePages
    <3>2. f \in JobRow /\ f.pc = "scraping"
      BY <1>a, <3>1 DEF JobRow
    <3>3. Becomes(j, f)
      BY <1>3 DEF Plan
    <3>. QED
      BY <3>2, <3>3
  <2>2. /\ UNCHANGED <<asked, group, page, section, gaveUp>> /\ e.pc = "begun"
        /\ SetStatus("running")
    BY <1>3 DEF Plan
  <2>3. region'.version = region.version
    BY <2>2, StatusTyped
  <2>. HIDE DEF f
  <2>4. job'[j] = f /\ \A i \in Jobs \ {j} : job'[i] = job[i]
    BY <2>1, BecomesTyped
  <2>5. LockHeld'
    BY <2>1, <2>2, <2>4, LockKept DEF InSection
  <2>. QED
    BY <2>1, <2>2, <2>3, <2>5, StepGroups
<1>4. CASE ScrapePage(j) \/ SkipPage(j)
  <2>. DEFINE p == Min(e.todo)
              f == [e EXCEPT !.todo = @ \ {p}]
  <2>1. f \in JobRow /\ f.pc = "scraping" /\ e.pc = "scraping" /\ Becomes(j, f)
    BY <1>4, <1>a DEF JobRow, ScrapePage, SkipPage
  <2>2. UNCHANGED <<region, asked, group, section, gaveUp>>
    BY <1>4 DEF ScrapePage, SkipPage
  <2>3. \/ page' = page
        \/ page' = [page EXCEPT ![p].text = e.box, ![p].version = e.version]
    BY <1>4 DEF ScrapePage, SkipPage
  <2>. HIDE DEF f, p
  <2>4. \A q \in Pages : page'[q].kind = page[q].kind /\ page'[q].there = page[q].there
    BY <1>a, <2>3 DEF PageRow
  <2>5. job'[j] = f /\ \A i \in Jobs \ {j} : job'[i] = job[i]
    BY <2>1, BecomesTyped
  <2>6. LockHeld'
    BY <2>1, <2>2, <2>5, LockKept DEF InSection
  <2>. QED
    BY <2>1, <2>2, <2>4, <2>6, StepGroups
<1>5. CASE EnterSection(j)
  <2>. DEFINE f == [e EXCEPT !.pc = "rows"]
  <2>1. f \in JobRow /\ f.pc = "rows" /\ e.pc = "scraping" /\ Becomes(j, f)
    BY <1>5, <1>a DEF JobRow, EnterSection
  <2>2. /\ UNCHANGED <<region, asked, group, page, gaveUp>>
        /\ section = NoJob /\ section' = j
    BY <1>5 DEF EnterSection
  <2>. HIDE DEF f
  <2>3. job'[j] = f /\ \A i \in Jobs \ {j} : job'[i] = job[i]
    BY <2>1, BecomesTyped
  <2>4. LockHeld'
    BY <2>2, <2>3 DEF LockHeld, InSection
  <2>. QED
    BY <2>1, <2>2, <2>4, StepGroups
<1>6. CASE ReadRows(j)
  BY <1>6, ReadGroups
<1>7. CASE ReadNoRows(j)
  <2>. DEFINE f == [e EXCEPT !.pc = "flag"]
  <2>1. f \in JobRow /\ f.pc = "flag" /\ e.pc = "rows" /\ Becomes(j, f)
    BY <1>7, <1>a DEF JobRow, ReadNoRows
  <2>2. UNCHANGED <<page, section>> /\ Live = {}
    BY <1>7 DEF ReadNoRows
  <2>. HIDE DEF f
  <2>3. job'[j] = f /\ \A i \in Jobs \ {j} : job'[i] = job[i]
    BY <2>1, BecomesTyped
  <2>4. LockHeld' /\ NewPagesUnread' /\ Live' = {}
    <3>1. LockHeld'
      BY <2>1, <2>2, <2>3, LockKept DEF InSection
    <3>. QED
      BY <2>2, <3>1 DEF NewPagesUnread, Live
  <2>5. \A i \in Jobs : job'[i].pc # "sort"
    <3>1. section = j /\ \A i \in Jobs : job[i].pc = "sort" => section = i
      BY <2>1 DEF LockHeld, InSection
    <3>. QED
      BY <2>1, <2>3, <3>1
  <2>. QED
    BY <2>4, <2>5 DEF SortsLive, Tended, Grouped
<1>8. CASE WriteSheet(j)
  <2>. DEFINE p == Min(e.todo)
              f == [e EXCEPT !.todo = @ \ {p}]
              k == e.kind[p]
  <2>1. e.pc = "sort" /\ e.todo # {} /\ e.todo \in SUBSET Pages
    BY <1>8, <1>a DEF WriteSheet, JobRow
  <2>2. p \in e.todo /\ p \in e.live
    <3>1. p \in e.todo
      BY <2>1, MinIsIn
    <3>. QED
      BY <2>1, <3>1 DEF SortsLive
  <2>3. /\ f \in JobRow /\ f.pc = "sort" /\ f.live = e.live /\ f.kind = e.kind
        /\ f.todo = e.todo \ {p} /\ f.blank = e.blank
    BY <2>1, <1>a DEF JobRow
  <2>4. /\ Becomes(j, f) /\ UNCHANGED <<region, group, section, asked, gaveUp>>
        /\ page' = [page EXCEPT ![p].kind = k, ![p].source = SourceOf(k)]
    BY <1>8 DEF WriteSheet
  <2>5. k \in {NoKind, Filled(e.live, e.kind, p)}
    <3>1. e.live \in SUBSET Pages /\ e.kind \in [Pages -> AllKinds \cup {NoKind}]
      BY <1>a DEF JobRow, AllKinds
    <3>. QED
      BY <2>2, <3>1, FilledAsRead
  <2>6. /\ f.todo \in SUBSET e.todo /\ f.blank \in SUBSET e.blank
        /\ \A q \in e.todo \cup e.blank : q # p => q \in f.todo \cup f.blank
    BY <2>3
  <2>. HIDE DEF p, f, k
  <2>. QED
    BY <2>1, <2>2, <2>3, <2>4, <2>5, <2>6, WriteGroups, ZenonT(60)
<1>9. CASE WriteInherited(j)
  <2>. DEFINE p == Min(e.blank)
              f == [e EXCEPT !.blank = @ \ {p}]
              k == Filled(e.live, e.kind, p)
  <2>1. e.pc = "sort" /\ e.blank # {} /\ e.blank \in SUBSET Pages
    BY <1>9, <1>a DEF WriteInherited, JobRow
  <2>2. p \in e.blank /\ p \in e.live
    <3>1. p \in e.blank
      BY <2>1, MinIsIn
    <3>. QED
      BY <2>1, <3>1 DEF SortsLive
  <2>3. /\ f \in JobRow /\ f.pc = "sort" /\ f.live = e.live /\ f.kind = e.kind
        /\ f.todo = e.todo /\ f.blank = e.blank \ {p}
    BY <2>1, <1>a DEF JobRow
  <2>4. /\ Becomes(j, f) /\ UNCHANGED <<region, group, section, asked, gaveUp>>
        /\ page' = [page EXCEPT ![p].kind = k, ![p].source = "inherited"]
    BY <1>9 DEF WriteInherited
  <2>5. k \in {NoKind, Filled(f.live, f.kind, p)}
    BY <2>3
  <2>6. /\ f.todo \in SUBSET e.todo /\ f.blank \in SUBSET e.blank
        /\ \A q \in e.todo \cup e.blank : q # p => q \in f.todo \cup f.blank
    BY <2>3
  <2>. HIDE DEF p, f, k
  <2>. QED
    BY <2>1, <2>2, <2>3, <2>4, <2>5, <2>6, WriteGroups, ZenonT(60)
<1>10. CASE Group(j)
  <2>. DEFINE f == [e EXCEPT !.pc = "flag"]
  <2>1. f \in JobRow /\ f.pc = "flag" /\ e.pc = "sort" /\ Becomes(j, f)
    BY <1>10, <1>a DEF JobRow, Group
  <2>2. UNCHANGED <<region, page, asked, section, gaveUp>> /\ e.todo = {} /\ e.blank = {}
    BY <1>10 DEF Group
  <2>. HIDE DEF f
  <2>3. job'[j] = f /\ \A i \in Jobs \ {j} : job'[i] = job[i]
    BY <2>1, BecomesTyped
  <2>4. LockHeld' /\ NewPagesUnread' /\ Live' = Live
    <3>1. LockHeld'
      BY <2>1, <2>2, <2>3, LockKept DEF InSection
    <3>. QED
      BY <2>2, <3>1 DEF NewPagesUnread, Live
  <2>5. \A i \in Jobs : job'[i].pc # "sort"
    <3>1. section = j /\ \A i \in Jobs : job[i].pc = "sort" => section = i
      BY <2>1 DEF LockHeld, InSection
    <3>. QED
      BY <2>1, <2>3, <3>1
  <2>6. ASSUME ~Due' PROVE Grouped'
    <3>1. \A i \in Jobs : WillRead(job[i]) => WillRead(job[i])'
      BY <2>1, <2>2, <2>3 DEF WillRead
    <3>2. ~Due
      BY <2>2, <2>6, <3>1 DEF Due, Boxed
    <3>3. Sorting(e)
      BY <2>1, <3>2 DEF Tended
    <3>. SUFFICES ASSUME NEW p \in Live, page[p].kind # NoKind
                  PROVE  p \in group'[page[p].kind]
      BY <2>2, <2>4 DEF Grouped
    <3>4. p \in Pages /\ p \in e.live /\ page[p].kind = Filled(e.live, e.kind, p)
      BY <2>2, <3>3 DEF Sorting, Live
    <3>5. page[p].kind \in AllKinds
      BY <1>a, <3>4 DEF PageRow
    <3>6. group' = [k \in AllKinds |-> {q \in e.live : Filled(e.live, e.kind, q) = k}]
      BY <1>10 DEF Group
    <3>. QED
      BY <3>4, <3>5, <3>6
  <2>. QED
    BY <2>4, <2>5, <2>6 DEF SortsLive, Tended
<1>11. CASE Flag(j)
  <2>. DEFINE f == [e EXCEPT !.pc = "finish"]
  <2>1. f \in JobRow /\ f.pc = "finish" /\ e.pc = "flag" /\ Becomes(j, f)
    BY <1>11, <1>a DEF JobRow, Flag
  <2>2. UNCHANGED <<region, page, group, asked, gaveUp>>
    BY <1>11 DEF Flag
  <2>. HIDE DEF f
  <2>3. job'[j] = f /\ \A i \in Jobs \ {j} : job'[i] = job[i]
    BY <2>1, BecomesTyped
  <2>4. LockHeld'
    <3>1. section = j /\ \A i \in Jobs : InSection(job[i]) => section = i
      BY <2>1 DEF LockHeld, InSection
    <3>. QED
      BY <2>1, <2>3, <3>1 DEF LockHeld, InSection
  <2>5. ~WillRead(e)
    BY <2>1 DEF WillRead
  <2>. QED
    BY <2>1, <2>2, <2>4, <2>5, StepGroups
<1>12. CASE Finish(j)
  <2>1. /\ FreeJob.pc = "free" /\ Becomes(j, FreeJob) /\ e.pc = "finish"
        /\ UNCHANGED <<asked, group, page, section, gaveUp>> /\ SetStatus("completed")
    BY <1>12 DEF Finish, FreeJob
  <2>2. region'.version = region.version
    BY <2>1, StatusTyped
  <2>3. job'[j] = FreeJob /\ \A i \in Jobs \ {j} : job'[i] = job[i]
    BY <2>1, FreeJobTyped, BecomesTyped
  <2>4. LockHeld'
    BY <2>1, <2>3, LockKept DEF InSection
  <2>5. ~WillRead(e)
    BY <2>1 DEF WillRead
  <2>. QED
    BY <2>1, <2>2, <2>4, <2>5, FreeJobTyped, StepGroups
<1>. QED
  BY <1>1, <1>2, <1>3, <1>4, <1>5, <1>6, <1>7, <1>8, <1>9, <1>10, <1>11, <1>12 DEF Run

\* A job that was interrupted will read the rows after all, or has given up.
LEMMA FaultGroups ==
  ASSUME TypeOK, GroupInv, NEW j \in Jobs, Raise(j) \/ Crash(j)
  PROVE  GroupInv'
<1>. USE DEF GroupInv
<1>. DEFINE g == [Again(j) EXCEPT !.tries = job[j].tries, !.stalled = TRUE]
<1>1. UNCHANGED <<page, group>> /\ section' = Unlocked(j)
  BY DEF Raise, Crash
<1>2. job \in [Jobs -> JobRow] /\ job[j] \in JobRow
  BY DEF TypeOK
<1>3. PICK e : /\ Becomes(j, e) /\ e.pc \in {"free", "waiting"}
               /\ gaveUp' \/ (e.pc = "waiting" /\ (e.tries > 0 \/ e.stalled))
  <2>1. /\ FreeJob.pc = "free"
        /\ Again(j).pc = "waiting" /\ Again(j).tries = job[j].tries + 1
        /\ g.pc = "waiting" /\ g.stalled = TRUE
    BY DEF FreeJob, Again
  <2>2. job[j].tries \in Nat
    BY <1>2 DEF JobRow
  <2>3. \/ Becomes(j, FreeJob) /\ gaveUp'
        \/ Becomes(j, Again(j))
        \/ Becomes(j, g)
    BY DEF Raise, Crash
  <2>4. Again(j).tries > 0
    BY <2>1, <2>2
  <2>. HIDE DEF g
  <2>. QED
    BY <2>1, <2>3, <2>4
<1>4. job'[j] = e /\ \A i \in Jobs \ {j} : job'[i] = job[i]
  BY <1>2, <1>3 DEF Becomes
<1>5. Due'
  BY <1>3, <1>4 DEF Due, WillRead
<1>6. LockHeld'
  <2>. SUFFICES ASSUME NEW i \in Jobs, InSection(job'[i]) PROVE section' = i
    BY DEF LockHeld, InSection
  <2>1. i # j /\ InSection(job[i])
    BY <1>3, <1>4 DEF InSection
  <2>2. section = i
    BY <2>1 DEF LockHeld
  <2>. QED
    BY <1>1, <2>1, <2>2 DEF Unlocked
<1>7. NewPagesUnread' /\ Live' = Live
  BY <1>1 DEF NewPagesUnread, Live
<1>8. SortsLive'
  BY <1>3, <1>4, <1>7 DEF SortsLive
<1>. QED
  BY <1>5, <1>6, <1>7, <1>8 DEF Tended

\* When nothing is left to do, every page that has a kind is counted in the group
\* of that kind (PagesAreGrouped), however many reads, moves by hand, new boxes and
\* uploads were interleaved: scrape._classify_pages reads and writes under the
\* project lock, and every move or box that comes meanwhile has a read to come.
THEOREM GroupsHold == Spec => []PagesAreGrouped
<1>1. IInv /\ IInv' /\ GroupInv /\ [Next]_vars => GroupInv'
  <2>. SUFFICES ASSUME TypeOK, TypeOK', GroupInv, [Next]_vars PROVE GroupInv'
    BY DEF IInv
  <2>1. CASE Next
    BY <2>1, PersonGroups, RequestGroups, RunGroups, FaultGroups DEF Next
  <2>2. CASE UNCHANGED vars
    BY <2>2 DEF vars, GroupInv, LockHeld, InSection, NewPagesUnread, SortsLive, Live, Tended, Due,
                Boxed, WillRead, Sorting, Grouped
  <2>. QED
    BY <2>1, <2>2
<1>2. GroupInv => PagesAreGrouped
  <2>. SUFFICES ASSUME GroupInv, Quiet, Boxed, ~gaveUp PROVE Grouped
    BY DEF PagesAreGrouped, Grouped
  <2>1. asked.box = {} /\ asked.move = {} /\ \A j \in Jobs : job[j].pc = "free"
    BY DEF Quiet, NothingAsked
  <2>2. ~Due
    BY <2>1 DEF Due, WillRead
  <2>. QED
    BY <2>1, <2>2 DEF GroupInv, Tended
<1>. QED
  BY <1>1, <1>2, InitInv, NextInv, InitGroups, PTL DEF Spec
=============================================================================
