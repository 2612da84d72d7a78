------------------------ MODULE PortionSummaryProofs ------------------------
(* What holds of every portion summary, for all values of the constants. *)
EXTENDS PortionSummary, FiniteSetTheorems, WellFoundedInduction, TLAPS

Busy(w) == exec[w].pc # "free"
Working(w) == exec[w].pc \notin {"free", "invalidate"}

\* The types, with what a request, a job and an execution carry at each place.
RowTypes ==
  /\ row \in [Portions -> [status: {"none", "queued", "running", "ready", "stale", "failed"},
                           heart: {"beats", "silent"}]]
  /\ page \in [Pages -> [kind: Portions \cup {Elsewhere}, chunks: Nat \ {0}]]

StoreTypes ==
  /\ paged \in [Pages -> Seq(Nat)]
  /\ rollup \in [Portions -> Seq([level: {"section", "portion"}, of: SUBSET Pages])]
  /\ cache \in [is: {"empty", "filled"}, old: SUBSET Portions]
  /\ reader \in [Readers -> [pc: {"free", "fill"}, old: SUBSET Portions]]

QueueTypes ==
  /\ job \in [Jobs -> [state: {"none", "waiting", "active"},
                       portion: Portions \cup {Elsewhere},
                       holder: Workers \cup {NoWorker}, stalls: Nat]]
  /\ \A j \in Jobs :
       /\ job[j].state # "none" => job[j].portion \in Portions
       /\ job[j].state = "active" => job[j].holder \in Workers
  /\ press \in [Presses -> [pc: {"free", "job", "row", "cache"},
                            portion: Portions \cup {Elsewhere}, job: Jobs \cup {NoJob}]]
  /\ \A u \in Presses :
       /\ press[u].pc # "free" => press[u].portion \in Portions
       /\ press[u].pc = "row" => press[u].job \in Jobs

Fits(e) ==
  /\ e \in ExecRow
  /\ e.pc # "free" => e.portion \in Portions /\ e.job \in Jobs
  /\ e.pc = "free" => e = FreeExec
  /\ e.pc \in {"clear", "save"} => e.answer \in Pages
  /\ e.pc \notin {"clear", "save"} => e.answer = 0
  /\ e.pc \notin {"pages", "clear", "save"} => e.todo = {}

ExecTypes == exec \in [Workers -> ExecRow] /\ \A w \in Workers : Fits(exec[w])

CountTypes ==
  /\ pressed \in Nat /\ changes \in Nat /\ faults \in Nat
  /\ paid \in [Pages -> Nat] /\ lost \in [Pages -> Nat] /\ shared \subseteq Pages
  /\ doubled \subseteq Portions /\ orphaned \subseteq Portions /\ outdated \subseteq Portions

Types == RowTypes /\ StoreTypes /\ QueueTypes /\ ExecTypes /\ CountTypes

-----------------------------------------------------------------------------
LEMMA NoneOfAKind ==
  /\ Elsewhere \notin Portions /\ NoJob \notin Jobs /\ NoWorker \notin Workers
  /\ SectionSize \in Nat \ {0}
  BY PortionSummaryAssumption

LEMMA PageNumbers ==
  0 \in 0..NumPages /\ Pages \subseteq 0..NumPages /\ 0 \notin Pages /\ IsFiniteSet(Pages)
  BY FS_Interval, PortionSummaryAssumption DEF Pages

LEMMA FreeFits == Fits(FreeExec)
  BY PageNumbers DEF Fits, FreeExec, ExecRow

LEMMA ExecReplaced ==
  ASSUME ExecTypes, NEW w \in Workers, NEW e, Fits(e), exec' = [exec EXCEPT ![w] = e]
  PROVE  ExecTypes'
  BY DEF ExecTypes, Fits

LEMMA BusyHas ==
  ASSUME ExecTypes, NEW w \in Workers
  PROVE  /\ Fits(exec[w])
         /\ Busy(w) => exec[w].portion \in Portions /\ exec[w].job \in Jobs
  BY DEF ExecTypes, Fits, Busy

\* Sections share no page.
LEMMA SectionsApart ==
  ASSUME NEW covered \in SUBSET Pages
  PROVE  /\ Sections(covered) \in Seq(SUBSET Pages)
         /\ \A m, n \in DOMAIN Sections(covered) :
              m # n => Sections(covered)[m] \cap Sections(covered)[n] = {}
<1> DEFINE Section(p) == Cardinality({q \in covered : q < p}) \div SectionSize
           last == (Cardinality(covered) - 1) \div SectionSize
<1>1. last \in Int
  <2>1. Cardinality(covered) \in Nat
    BY PageNumbers, FS_Subset, FS_CardinalityType
  <2>2. QED
    BY <2>1, NoneOfAKind
<1>2. CASE last < 1
  BY <1>2 DEF Sections
<1>3. CASE ~(last < 1)
  <2> DEFINE s == [i \in 1..(last + 1) |-> {p \in covered : Section(p) = i - 1}]
  <2>1. Sections(covered) = s
    BY <1>3 DEF Sections
  <2>2. last + 1 \in Nat
    BY <1>1, <1>3
  <2>3. \A i \in 1..(last + 1) : {p \in covered : Section(p) = i - 1} \in SUBSET Pages
    OBVIOUS
  <2>4. s \in Seq(SUBSET Pages)
    <3> HIDE DEF Section, last
    <3>1. QED
      BY <2>2, <2>3
  <2>5. \A m, n \in 1..(last + 1) : m # n => s[m] \cap s[n] = {}
    <3> HIDE DEF Section, last
    <3>1. QED
      BY <1>1
  <2>6. QED
    BY <2>1, <2>4, <2>5
<1>4. QED
  BY <1>2, <1>3

LEMMA QuitsKeepsTypes ==
  ASSUME ExecTypes, NEW w \in Workers, Busy(w), Quits(w)
  PROVE  ExecTypes'
<1> DEFINE e == [FreeExec EXCEPT !.pc = "invalidate", !.portion = exec[w].portion,
                                 !.job = exec[w].job]
<1>1. exec' = [exec EXCEPT ![w] = e]
  BY DEF Quits
<1>2. Fits(exec[w]) /\ exec[w].portion \in Portions /\ exec[w].job \in Jobs
  BY BusyHas
<1>3. e \in ExecRow
  BY <1>2, FreeFits DEF Fits, ExecRow
<1>4. Fits(e)
  BY <1>2, <1>3, FreeFits DEF Fits, ExecRow, FreeExec
<1>5. QED
  BY <1>1, <1>4, ExecReplaced

LEMMA FailsKeepsTypes ==
  ASSUME ExecTypes, RowTypes, NEW w \in Workers, Busy(w), Fails(w), page' = page
  PROVE  ExecTypes' /\ RowTypes'
<1>1. ExecTypes'
  BY QuitsKeepsTypes DEF Fails
<1>2. RowTypes'
  BY BusyHas DEF RowTypes, Fails, SetStatus
<1>3. QED
  BY <1>1, <1>2

LEMMA CacheKept ==
  ASSUME StoreTypes, UNCHANGED <<paged, rollup, reader>>, cache' = NoCache \/ cache' = cache
  PROVE  StoreTypes'
<1>1. NoCache \in [is: {"empty", "filled"}, old: SUBSET Portions]
  BY DEF NoCache
<1>2. cache' \in [is: {"empty", "filled"}, old: SUBSET Portions]
  BY <1>1 DEF StoreTypes
<1>3. QED
  BY <1>2 DEF StoreTypes

LEMMA RewriteKeepsTypes ==
  ASSUME ExecTypes, StoreTypes, NEW w \in Workers, Busy(w),
         NEW rows \in Seq([level: {"section", "portion"}, of: SUBSET Pages]),
         Rewrite(exec[w].portion, rows), paged' = paged
  PROVE  StoreTypes'
<1>1. exec[w].portion \in Portions
  BY BusyHas
<1>2. cache' \in [is: {"empty", "filled"}, old: SUBSET Portions]
  BY <1>1 DEF StoreTypes, Rewrite
<1>3. reader' \in [Readers -> [pc: {"free", "fill"}, old: SUBSET Portions]]
  BY <1>1 DEF StoreTypes, Rewrite
<1>4. rollup' \in [Portions -> Seq([level: {"section", "portion"}, of: SUBSET Pages])]
  BY <1>1 DEF StoreTypes, Rewrite
<1>5. QED
  BY <1>2, <1>3, <1>4 DEF StoreTypes

LEMMA AnsweredFits ==
  ASSUME NEW e, Fits(e), e.pc = "pages", NEW p \in Pages, NEW of \in Nat
  PROVE  /\ Fits(Answered(e, p, of))
         /\ Answered(e, p, of).todo = e.todo \ {p} /\ Answered(e, p, of).answer = p
         /\ Answered(e, p, of).of = [e.of EXCEPT ![p] = of]
         /\ Answered(e, p, of).had = e.had
         /\ Answered(e, p, of).portion = e.portion /\ Answered(e, p, of).job = e.job
         /\ Answered(e, p, of).pc \in {"clear", "save"}
         /\ Answered(e, p, of).pc = "save" => p \notin e.had
<1> DEFINE a == Answered(e, p, of)
<1>1. e \in ExecRow /\ e.of \in [Pages -> Nat]
  BY DEF Fits, ExecRow
<1>2. [e.of EXCEPT ![p] = of] \in [Pages -> Nat]
  BY <1>1
<1>3. /\ a.todo = e.todo \ {p} /\ a.answer = p /\ a.of = [e.of EXCEPT ![p] = of]
      /\ a.had = e.had /\ a.portion = e.portion /\ a.job = e.job
      /\ a.pc = IF p \in e.had THEN "clear" ELSE "save"
  BY <1>1 DEF Answered, ExecRow
<1>4. a \in ExecRow
  BY <1>1, <1>2, PageNumbers DEF Answered, ExecRow
<1>5. Fits(a)
  BY <1>3, <1>4 DEF Fits, ExecRow, FreeExec
<1>6. QED
  BY <1>3, <1>5

\* The next page to summarise is one of those to do.
LEMMA LeastIsThere ==
  ASSUME ExecTypes, NEW w \in Workers, exec[w].todo # {}
  PROVE  (CHOOSE p \in exec[w].todo : \A o \in exec[w].todo : p <= o) \in exec[w].todo
<1>1. exec[w].todo \in SUBSET Nat
  BY BusyHas DEF Fits, ExecRow, Pages
<1>2. PICK p \in exec[w].todo : \A o \in exec[w].todo : ~(<<o, p>> \in OpToRel(<, Nat))
  BY <1>1, NatLessThanWellFounded, WFMin
<1>3. \A o \in exec[w].todo : ~(o < p)
  BY <1>1, <1>2 DEF OpToRel
<1>4. \A o \in exec[w].todo : p <= o
  BY <1>1, <1>3
<1>5. QED
  BY <1>4

LEMMA AnswersOne ==
  ASSUME ExecTypes, NEW w \in Workers, AnswerPage(w)
  PROVE  \E p \in exec[w].todo :
           /\ exec[w].pc = "pages" /\ p \in Pages
           /\ paid' = [paid EXCEPT ![p] = @ + 1]
           /\ \/ \E of \in {exec[w].of[p], Uncited} :
                   /\ exec' = [exec EXCEPT ![w] = Answered(exec[w], p, of)]
                   /\ \/ of = exec[w].of[p] /\ lost' = lost /\ faults' = faults
                      \/ /\ of = Uncited /\ faults' = faults + 1
                         /\ lost' = [lost EXCEPT ![p] = @ + 1]
              \/ /\ faults' = faults + 1
                 /\ exec' = [exec EXCEPT ![w].todo = @ \ {p}]
                 /\ lost' = [lost EXCEPT ![p] = @ + 1]
           /\ UNCHANGED <<row, page, paged, rollup, cache, job, press, reader, pressed, changes,
                          shared, doubled, orphaned, outdated>>
<1>1. exec[w].todo # {} /\ exec[w].todo \subseteq Pages
  BY BusyHas DEF AnswerPage, Fits, ExecRow
<1>2. (CHOOSE q \in exec[w].todo : \A o \in exec[w].todo : q <= o) \in exec[w].todo
  BY <1>1, LeastIsThere
<1>3. QED
  BY ONLY AnswerPage(w), <1>1, <1>2, Zenon DEF AnswerPage

\* Every step keeps the types.
LEMMA TypesNext ==
  ASSUME Types, [Next]_vars
  PROVE  Types'
<1>0. RowTypes /\ StoreTypes /\ QueueTypes /\ ExecTypes /\ CountTypes
  BY DEF Types
<1>1. ASSUME NEW u \in Presses, NEW k \in Portions, ReadForPress(u, k)
     PROVE  Types'
  <2>1. RowTypes' /\ StoreTypes' /\ ExecTypes'
    BY <1>0, <1>1
    DEF RowTypes, StoreTypes, ExecTypes, Fits, ReadForPress, requests, history,
        bounds, bought
  <2>2. QueueTypes'
    BY <1>0, <1>1, NoneOfAKind
    DEF QueueTypes, ReadForPress, MayStart
  <2>3. CountTypes'
    BY <1>0, <1>1, NoneOfAKind
    DEF CountTypes, ReadForPress, MayStart, bought, history, bounds
  <2>4. QED
    BY <2>1, <2>2, <2>3 DEF Types
<1>2. ASSUME NEW u \in Presses, AddJob(u)
     PROVE  Types'
  <2>1. RowTypes' /\ StoreTypes' /\ ExecTypes' /\ CountTypes'
    BY <1>0, <1>2
    DEF RowTypes, StoreTypes, ExecTypes, CountTypes, Fits, AddJob, requests,
        history, bounds, bought
  <2>2. QueueTypes'
    <3>1. PICK j \in Jobs :
            /\ job' = [job EXCEPT ![j].state = "waiting", ![j].portion = press[u].portion]
            /\ press' = [press EXCEPT ![u].pc = "row", ![u].job = j]
            /\ press[u].pc = "job" /\ press[u].portion \in Portions
      BY <1>0, <1>2 DEF AddJob, QueueTypes
    <3>2. job' \in [Jobs -> [state: {"none", "waiting", "active"},
                            portion: Portions \cup {Elsewhere},
                            holder: Workers \cup {NoWorker}, stalls: Nat]]
      <4> DEFINE e == [job[j] EXCEPT !.state = "waiting", !.portion = press[u].portion]
      <4>1. job' = [job EXCEPT ![j] = e]
        BY <1>0, <3>1 DEF QueueTypes
      <4>2. e \in [state: {"none", "waiting", "active"}, portion: Portions \cup {Elsewhere},
                   holder: Workers \cup {NoWorker}, stalls: Nat]
        <5>1. job[j] \in [state: {"none", "waiting", "active"}, portion: Portions \cup {Elsewhere},
                         holder: Workers \cup {NoWorker}, stalls: Nat]
          BY <1>0, <3>1 DEF QueueTypes
        <5>2. press[u].portion \in Portions
          BY <3>1
        <5>3. QED
          BY ONLY <5>1, <5>2
      <4>3. QED
        BY <1>0, <4>1, <4>2 DEF QueueTypes
    <3>3. \A i \in Jobs :
            /\ job'[i].state # "none" => job'[i].portion \in Portions
            /\ job'[i].state = "active" => job'[i].holder \in Workers
      BY <1>0, <3>1 DEF QueueTypes
    <3>4. press' \in [Presses -> [pc: {"free", "job", "row", "cache"},
                          portion: Portions \cup {Elsewhere}, job: Jobs \cup {NoJob}]]
      BY <1>0, <3>1 DEF QueueTypes
    <3>5. \A v \in Presses :
            /\ press'[v].pc # "free" => press'[v].portion \in Portions
            /\ press'[v].pc = "row" => press'[v].job \in Jobs
      BY <1>0, <3>1 DEF QueueTypes
    <3>6. QED
      BY ONLY <3>2, <3>3, <3>4, <3>5, SMT DEF QueueTypes
  <2>3. QED
    BY <2>1, <2>2 DEF Types
<1>3. ASSUME NEW u \in Presses, WriteQueued(u)
     PROVE  Types'
  <2>1. StoreTypes' /\ ExecTypes' /\ CountTypes'
    BY <1>0, <1>3
    DEF StoreTypes, ExecTypes, CountTypes, Fits, WriteQueued, SetStatus, requests,
        history, bounds, bought
  <2>2. RowTypes'
    BY <1>0, <1>3, NoneOfAKind
    DEF RowTypes, WriteQueued, SetStatus
  <2>3. QueueTypes'
    BY <1>0, <1>3, NoneOfAKind
    DEF QueueTypes, WriteQueued, SetStatus
  <2>4. QED
    BY <2>1, <2>2, <2>3 DEF Types
<1>4. ASSUME NEW u \in Presses, DropForPress(u)
     PROVE  Types'
  <2>1. RowTypes' /\ ExecTypes'
    <3>1. UNCHANGED <<row, page, exec>>
      BY <1>4 DEF DropForPress
    <3>2. QED
      BY <1>0, <3>1 DEF RowTypes, ExecTypes
  <2>2. StoreTypes'
    BY <1>0, <1>4, CacheKept DEF DropForPress, Drop, DropFails
  <2>3. QueueTypes'
    BY <1>0, <1>4, NoneOfAKind
    DEF QueueTypes, DropForPress, FreePress
  <2>4. CountTypes'
    BY <1>0, <1>4 DEF CountTypes, DropForPress, Drop, DropFails, Unreached, bought
  <2>5. QED
    BY <2>1, <2>2, <2>3, <2>4 DEF Types
<1>5. ASSUME NEW u \in Presses, LosePress(u)
     PROVE  Types'
  <2>1. RowTypes' /\ StoreTypes' /\ ExecTypes'
    BY <1>0, <1>5
    DEF RowTypes, StoreTypes, ExecTypes, Fits, LosePress, requests, history,
        bounds, bought
  <2>2. QueueTypes'
    BY <1>0, <1>5, NoneOfAKind
    DEF QueueTypes, LosePress, FreePress
  <2>3. CountTypes'
    BY <1>0, <1>5, NoneOfAKind
    DEF CountTypes, LosePress, FreePress, bought, history, bounds
  <2>4. QED
    BY <2>1, <2>2, <2>3 DEF Types
<1>6. ASSUME NEW r \in Readers, ReadRows(r)
     PROVE  Types'
  <2>1. RowTypes' /\ QueueTypes' /\ ExecTypes' /\ CountTypes'
    BY <1>0, <1>6
    DEF RowTypes, QueueTypes, ExecTypes, CountTypes, Fits, ReadRows, Unreached,
        history, bought
  <2>2. StoreTypes'
    BY <1>0, <1>6, NoneOfAKind
    DEF StoreTypes, ReadRows
  <2>3. QED
    BY <2>1, <2>2 DEF Types
<1>7. ASSUME NEW r \in Readers, Fill(r)
     PROVE  Types'
  <2>1. RowTypes' /\ QueueTypes' /\ ExecTypes'
    <3>1. UNCHANGED <<row, page, job, press, exec>>
      BY <1>7 DEF Fill
    <3>2. QED
      BY <1>0, <3>1 DEF RowTypes, QueueTypes, ExecTypes
  <2>2. StoreTypes'
    <3>1. cache' \in [is: {"empty", "filled"}, old: SUBSET Portions]
      BY <1>0, <1>7 DEF StoreTypes, Fill
    <3>2. reader' \in [Readers -> [pc: {"free", "fill"}, old: SUBSET Portions]]
      BY <1>0, <1>7 DEF StoreTypes, Fill, FreeReader
    <3>3. UNCHANGED <<paged, rollup>>
      BY <1>7 DEF Fill
    <3>4. QED
      BY <1>0, <3>1, <3>2, <3>3 DEF StoreTypes
  <2>3. CountTypes'
    <3>1. outdated' \subseteq Portions /\ faults' \in Nat
      BY <1>0, <1>7 DEF CountTypes, Fill, StoreTypes, Unreached
    <3>2. UNCHANGED <<pressed, changes, paid, lost, shared, doubled, orphaned>>
      BY <1>7 DEF Fill, bought
    <3>3. QED
      BY <1>0, <3>1, <3>2 DEF CountTypes
  <2>4. QED
    BY <2>1, <2>2, <2>3 DEF Types
<1>8. CASE Expire
  <2>1. RowTypes' /\ QueueTypes' /\ ExecTypes'
    BY <1>0, <1>8
    DEF RowTypes, QueueTypes, ExecTypes, Fits, Expire, Drop, requests, history,
        bounds, bought
  <2>2. StoreTypes'
    BY <1>0, <1>8, NoneOfAKind
    DEF StoreTypes, Expire, Drop, NoCache, requests
  <2>3. CountTypes'
    BY <1>0, <1>8, NoneOfAKind
    DEF CountTypes, Expire, Drop, NoCache, requests, bought, history, bounds
  <2>4. QED
    BY <2>1, <2>2, <2>3 DEF Types
<1>9. ASSUME NEW w \in Workers, NEW j \in Jobs, Take(w, j)
     PROVE  Types'
  <2>1. RowTypes' /\ StoreTypes'
    BY <1>0, <1>9
    DEF RowTypes, StoreTypes, Take, requests, history, bounds, bought
  <2>2. QueueTypes'
    BY <1>0, <1>9, NoneOfAKind, BusyHas, SMTT(30)
    DEF QueueTypes, Busy, Take, Requested, FreeJob
  <2>3. ExecTypes'
    <3> DEFINE e == [exec[w] EXCEPT !.pc = "begun", !.portion = job[j].portion, !.job = j]
    <3>1. CASE exec' = exec
      BY <1>0, <3>1 DEF ExecTypes, Fits
    <3>2. CASE exec' = [exec EXCEPT ![w].pc = "begun", ![w].portion = job[j].portion,
                                    ![w].job = j]
      <4>1. exec' = [exec EXCEPT ![w] = e]
        BY <1>0, <3>2 DEF ExecTypes
      <4>2. Fits(exec[w]) /\ exec[w] = FreeExec /\ job[j].portion \in Portions
        BY <1>0, <1>9, BusyHas DEF Take, Fits, QueueTypes
      <4>3. e \in ExecRow
        BY <4>2 DEF Fits, ExecRow
      <4>4. Fits(e)
        BY <4>2, <4>3 DEF Fits, ExecRow, FreeExec
      <4>5. QED
        BY <1>0, <4>1, <4>4, ExecReplaced
    <3>3. QED
      BY <1>9, <3>1, <3>2 DEF Take
  <2>4. CountTypes'
    <3>1. doubled' \subseteq Portions
      BY <1>0, <1>9, BusyHas
      DEF CountTypes, Take, QueueTypes
    <3>2. orphaned' \subseteq Portions
      BY <1>0, <1>9, BusyHas
      DEF CountTypes, Take, QueueTypes
    <3>3. UNCHANGED <<pressed, changes, faults, paid, lost, shared, outdated>>
      BY <1>9 DEF Take, bounds, history, bought
    <3>4. QED
      BY <1>0, <3>1, <3>2, <3>3 DEF CountTypes
  <2>5. QED
    BY <2>1, <2>2, <2>3, <2>4 DEF Types
<1>10. ASSUME NEW w \in Workers, SetRunning(w)
     PROVE  Types'
  <2>1. StoreTypes' /\ QueueTypes' /\ CountTypes'
    BY <1>0, <1>10
    DEF StoreTypes, QueueTypes, CountTypes, SetRunning, SetStatus, Goto, requests,
        history, bounds, bought
  <2>2. RowTypes'
    BY <1>0, <1>10, NoneOfAKind, BusyHas
    DEF RowTypes, Busy, SetRunning, SetStatus, Goto
  <2>3. ExecTypes'
    <3> DEFINE e == [exec[w] EXCEPT !.pc = "read"]
    <3>1. exec' = [exec EXCEPT ![w] = e]
      BY <1>0, <1>10 DEF SetRunning, Goto, ExecTypes
    <3>2. Fits(exec[w]) /\ Busy(w) /\ exec[w].portion \in Portions /\ exec[w].job \in Jobs
      BY <1>0, <1>10, BusyHas DEF SetRunning, Busy
    <3>3. e \in ExecRow
      BY <3>2, PageNumbers DEF Fits, ExecRow
    <3>4. Fits(e)
      BY <1>10, <3>2, <3>3, PageNumbers DEF Fits, SetRunning, ExecRow, FreeExec
    <3>5. QED
      BY <1>0, <3>1, <3>4, ExecReplaced
  <2>4. QED
    BY <2>1, <2>2, <2>3 DEF Types
<1>11. ASSUME NEW w \in Workers, ReadPages(w)
     PROVE  Types'
  <2>1. StoreTypes' /\ QueueTypes'
    BY <1>0, <1>11
    DEF StoreTypes, QueueTypes, ReadPages, Fails, SetStatus, requests, history,
        bounds, bought
  <2>2. ExecTypes' /\ RowTypes'
    <3>1. Busy(w) /\ Fits(exec[w]) /\ page' = page
      BY <1>0, <1>11, BusyHas DEF ReadPages, Busy
    <3>2. CASE Fails(w)
      BY <1>0, <3>1, <3>2, FailsKeepsTypes
    <3>3. CASE ~Fails(w)
      <4> DEFINE pages == PagesOf(exec[w].portion)
                 e == [exec[w] EXCEPT !.pc = "pages",
                         !.todo = {p \in pages : NeedsSummary(p)},
                         !.had = {p \in pages : paged[p] # <<>>},
                         !.of = [p \in Pages |-> page[p].chunks]]
      <4>1. exec' = [exec EXCEPT ![w] = e] /\ row' = row
        BY <1>0, <1>11, <3>3 DEF ReadPages, ExecTypes
      <4>2. [p \in Pages |-> page[p].chunks] \in [Pages -> Nat]
        BY <1>0 DEF RowTypes
      <4>3. pages \subseteq Pages
        BY DEF PagesOf
      <4>4. e \in ExecRow
        BY <3>1, <4>2, <4>3 DEF Fits, ExecRow
      <4>5. Fits(e)
        BY <1>11, <3>1, <4>4 DEF Fits, ReadPages, ExecRow, FreeExec
      <4>6. ExecTypes'
        BY <1>0, <4>1, <4>5, ExecReplaced
      <4>7. QED
        BY <1>0, <3>1, <4>1, <4>6 DEF RowTypes
    <3>4. QED
      BY <3>2, <3>3
  <2>3. CountTypes'
    <3>1. shared' \subseteq Pages
      BY <1>0, <1>11, BusyHas
      DEF CountTypes, ReadPages, PagesOf
    <3>2. UNCHANGED <<pressed, changes, faults, paid, lost, doubled, orphaned, outdated>>
      BY <1>11 DEF ReadPages, bounds, history, bought
    <3>3. QED
      BY <1>0, <3>1, <3>2 DEF CountTypes
  <2>4. QED
    BY <2>1, <2>2, <2>3 DEF Types
<1>12. ASSUME NEW w \in Workers, AnswerPage(w)
     PROVE  Types'
  <2>1. RowTypes' /\ StoreTypes' /\ QueueTypes'
    BY <1>0, <1>12
    DEF RowTypes, StoreTypes, QueueTypes, AnswerPage, requests, history, bounds,
        bought
  <2>2. ExecTypes'
    <3>1. PICK p \in exec[w].todo :
            /\ exec[w].pc = "pages" /\ p \in Pages
            /\ \/ \E of \in {exec[w].of[p], Uncited} :
                    exec' = [exec EXCEPT ![w] = Answered(exec[w], p, of)]
               \/ exec' = [exec EXCEPT ![w].todo = @ \ {p}]
      BY <1>0, <1>12, AnswersOne
    <3>2. Fits(exec[w]) /\ exec[w].pc = "pages" /\ p \in Pages
      BY <1>0, <3>1, BusyHas
    <3>3. CASE exec' = [exec EXCEPT ![w].todo = @ \ {p}]
      <4> DEFINE e == [exec[w] EXCEPT !.todo = @ \ {p}]
      <4>1. exec' = [exec EXCEPT ![w] = e]
        BY <1>0, <3>3 DEF ExecTypes
      <4>2. e \in ExecRow
        BY <3>2 DEF Fits, ExecRow
      <4>3. Fits(e)
        BY <3>2, <4>2 DEF Fits, ExecRow, FreeExec
      <4>4. QED
        BY <1>0, <4>1, <4>3, ExecReplaced
    <3>4. CASE exec' # [exec EXCEPT ![w].todo = @ \ {p}]
      <4>1. PICK of \in {exec[w].of[p], Uncited} :
              exec' = [exec EXCEPT ![w] = Answered(exec[w], p, of)]
        BY <3>1, <3>4
      <4>2. of \in Nat
        BY <3>2, <4>1 DEF Fits, ExecRow, Uncited
      <4>3. Fits(Answered(exec[w], p, of))
        BY <3>2, <4>2, AnsweredFits
      <4>4. QED
        BY <1>0, <4>1, <4>3, ExecReplaced
    <3>5. QED
      BY <3>3, <3>4
  <2>3. CountTypes'
    <3>1. PICK p \in Pages :
            /\ paid' = [paid EXCEPT ![p] = @ + 1]
            /\ lost' = lost \/ lost' = [lost EXCEPT ![p] = @ + 1]
            /\ faults' = faults \/ faults' = faults + 1
            /\ UNCHANGED <<pressed, changes, shared, doubled, orphaned, outdated>>
      BY <1>0, <1>12, AnswersOne
    <3>2. paid' \in [Pages -> Nat] /\ lost' \in [Pages -> Nat]
      BY <1>0, <3>1 DEF CountTypes
    <3>3. QED
      BY <1>0, <3>1, <3>2 DEF CountTypes
  <2>4. QED
    BY <2>1, <2>2, <2>3 DEF Types
<1>13. ASSUME NEW w \in Workers, ClearPage(w)
     PROVE  Types'
  <2>1. RowTypes' /\ QueueTypes' /\ CountTypes'
    BY <1>0, <1>13
    DEF RowTypes, QueueTypes, CountTypes, ClearPage, Goto, requests, history,
        bounds, bought
  <2>2. StoreTypes'
    <3>1. exec[w].answer \in Pages /\ exec[w].of \in [Pages -> Nat]
      BY <1>0, <1>13, BusyHas DEF ClearPage, Fits, ExecRow
    <3>2. <<>> \in Seq(Nat)
      BY <1>0, <3>1 DEF StoreTypes
    <3>3. paged' = [paged EXCEPT ![exec[w].answer] = <<>>]
      BY <1>0, <1>13 DEF ClearPage, StoreTypes
    <3>4. UNCHANGED <<rollup, cache, reader>>
      BY <1>13 DEF ClearPage
    <3>5. QED
      BY <1>0, <3>1, <3>2, <3>3, <3>4 DEF StoreTypes
  <2>3. ExecTypes'
    <3> DEFINE e == [exec[w] EXCEPT !.pc = "save"]
    <3>1. exec' = [exec EXCEPT ![w] = e]
      BY <1>0, <1>13 DEF ClearPage, Goto, ExecTypes
    <3>2. Fits(exec[w]) /\ Busy(w) /\ exec[w].portion \in Portions /\ exec[w].job \in Jobs
      BY <1>0, <1>13, BusyHas DEF ClearPage, Busy
    <3>3. e \in ExecRow
      BY <3>2, PageNumbers DEF Fits, ExecRow
    <3>4. Fits(e)
      BY <1>13, <3>2, <3>3, PageNumbers DEF Fits, ClearPage, ExecRow, FreeExec
    <3>5. QED
      BY <1>0, <3>1, <3>4, ExecReplaced
  <2>4. QED
    BY <2>1, <2>2, <2>3 DEF Types
<1>14. ASSUME NEW w \in Workers, SavePage(w)
     PROVE  Types'
  <2>1. RowTypes' /\ QueueTypes' /\ CountTypes'
    BY <1>0, <1>14
    DEF RowTypes, QueueTypes, CountTypes, SavePage, requests, history, bounds,
        bought
  <2>2. StoreTypes'
    <3>1. exec[w].answer \in Pages /\ exec[w].of \in [Pages -> Nat]
      BY <1>0, <1>14, BusyHas DEF SavePage, Fits, ExecRow
    <3>2. Append(paged[exec[w].answer], exec[w].of[exec[w].answer]) \in Seq(Nat)
      BY <1>0, <3>1 DEF StoreTypes
    <3>3. paged' = [paged EXCEPT ![exec[w].answer] = Append(paged[exec[w].answer], exec[w].of[exec[w].answer])]
      BY <1>0, <1>14 DEF SavePage, StoreTypes
    <3>4. UNCHANGED <<rollup, cache, reader>>
      BY <1>14 DEF SavePage
    <3>5. QED
      BY <1>0, <3>1, <3>2, <3>3, <3>4 DEF StoreTypes
  <2>3. ExecTypes'
    <3> DEFINE e == [exec[w] EXCEPT !.pc = "pages", !.answer = 0]
    <3>1. exec' = [exec EXCEPT ![w] = e]
      BY <1>0, <1>14 DEF SavePage, ExecTypes
    <3>2. Fits(exec[w]) /\ Busy(w) /\ exec[w].portion \in Portions /\ exec[w].job \in Jobs
      BY <1>0, <1>14, BusyHas DEF SavePage, Busy
    <3>3. e \in ExecRow
      BY <3>2, PageNumbers DEF Fits, ExecRow
    <3>4. Fits(e)
      BY <1>14, <3>2, <3>3, PageNumbers DEF Fits, SavePage, ExecRow, FreeExec
    <3>5. QED
      BY <1>0, <3>1, <3>4, ExecReplaced
  <2>4. QED
    BY <2>1, <2>2, <2>3 DEF Types
<1>15. ASSUME NEW w \in Workers, Cover(w)
     PROVE  Types'
  <2>1. StoreTypes' /\ QueueTypes' /\ CountTypes'
    BY <1>0, <1>15
    DEF StoreTypes, QueueTypes, CountTypes, Cover, Fails, SetStatus, requests,
        history, bounds, bought
  <2>2. ExecTypes' /\ RowTypes'
    <3>1. Busy(w) /\ Fits(exec[w]) /\ page' = page
      BY <1>0, <1>15, BusyHas DEF Cover, Busy
    <3>2. CASE Fails(w)
      BY <1>0, <3>1, <3>2, FailsKeepsTypes
    <3>3. CASE ~Fails(w)
      <4> DEFINE covered == {p \in PagesOf(exec[w].portion) : paged[p] # <<>>}
                 e == [exec[w] EXCEPT !.pc = "delete", !.covered = covered, !.had = {},
                                      !.of = FreeExec.of]
      <4>1. exec' = [exec EXCEPT ![w] = e] /\ row' = row
        BY <1>0, <1>15, <3>3 DEF Cover, ExecTypes
      <4>2. FreeExec.of \in [Pages -> Nat]
        BY DEF FreeExec
      <4>3. covered \subseteq Pages
        BY DEF PagesOf
      <4>4. e \in ExecRow
        BY <3>1, <4>2, <4>3 DEF Fits, ExecRow
      <4>5. Fits(e)
        BY <1>15, <3>1, <4>4 DEF Fits, Cover, ExecRow, FreeExec
      <4>6. ExecTypes'
        BY <1>0, <4>1, <4>5, ExecReplaced
      <4>7. QED
        BY <1>0, <3>1, <4>1, <4>6 DEF RowTypes
    <3>4. QED
      BY <3>2, <3>3
  <2>3. QED
    BY <2>1, <2>2 DEF Types
<1>16. ASSUME NEW w \in Workers, DeleteRollups(w)
     PROVE  Types'
  <2>1. RowTypes' /\ QueueTypes' /\ CountTypes'
    BY <1>0, <1>16
    DEF RowTypes, QueueTypes, CountTypes, DeleteRollups, Rewrite, requests,
        history, bounds, bought
  <2>2. StoreTypes'
    <3>1. Busy(w) /\ Rewrite(exec[w].portion, <<>>) /\ paged' = paged
      BY <1>16 DEF DeleteRollups, Busy
    <3>2. <<>> \in Seq([level: {"section", "portion"}, of: SUBSET Pages])
      OBVIOUS
    <3>3. QED
      BY <1>0, <3>1, <3>2, RewriteKeepsTypes
  <2>3. ExecTypes'
    <3> DEFINE e == [exec[w] EXCEPT !.pc = "rollup", !.left = Sections(exec[w].covered)]
    <3>1. exec' = [exec EXCEPT ![w] = e]
      BY <1>0, <1>16 DEF DeleteRollups, ExecTypes
    <3>2. Fits(exec[w]) /\ Busy(w) /\ exec[w].portion \in Portions /\ exec[w].job \in Jobs
      BY <1>0, <1>16, BusyHas DEF DeleteRollups, Busy
    <3>3. Sections(exec[w].covered) \in Seq(SUBSET Pages)
      BY <3>2, SectionsApart DEF Fits, ExecRow
    <3>4. e \in ExecRow
      BY <3>2, PageNumbers, <3>3 DEF Fits, ExecRow
    <3>5. Fits(e)
      BY <1>16, <3>2, <3>4, PageNumbers DEF Fits, DeleteRollups, ExecRow, FreeExec
    <3>6. QED
      BY <1>0, <3>1, <3>5, ExecReplaced
  <2>4. QED
    BY <2>1, <2>2, <2>3 DEF Types
<1>17. ASSUME NEW w \in Workers, WriteSection(w)
     PROVE  Types'
  <2>1. RowTypes' /\ QueueTypes' /\ CountTypes'
    BY <1>0, <1>17
    DEF RowTypes, QueueTypes, CountTypes, WriteSection, Insert, Rewrite, requests,
        history, bounds, bought
  <2>2. StoreTypes'
    <3> DEFINE rows == Append(rollup[exec[w].portion], [level |-> "section", of |-> Head(exec[w].left)])
    <3>1. Busy(w) /\ Rewrite(exec[w].portion, rows) /\ paged' = paged
      BY <1>17 DEF WriteSection, Busy, Insert
    <3>2. Head(exec[w].left) \in SUBSET Pages
      BY <1>0, <1>17, BusyHas DEF WriteSection, Fits, ExecRow
    <3>3. rollup[exec[w].portion] \in Seq([level: {"section", "portion"}, of: SUBSET Pages])
      BY <1>0, <3>1, BusyHas DEF StoreTypes
    <3>4. rows \in Seq([level: {"section", "portion"}, of: SUBSET Pages])
      BY <3>2, <3>3
    <3>5. QED
      BY <1>0, <3>1, <3>4, RewriteKeepsTypes
  <2>3. ExecTypes'
    <3> DEFINE e == [exec[w] EXCEPT !.left = Tail(exec[w].left)]
    <3>1. exec' = [exec EXCEPT ![w] = e]
      BY <1>0, <1>17 DEF WriteSection, ExecTypes
    <3>2. Fits(exec[w]) /\ Busy(w) /\ exec[w].portion \in Portions /\ exec[w].job \in Jobs
      BY <1>0, <1>17, BusyHas DEF WriteSection, Busy
    <3>3. Tail(exec[w].left) \in Seq(SUBSET Pages)
      BY <1>17, <3>2 DEF WriteSection, Fits, ExecRow
    <3>4. e \in ExecRow
      BY <3>2, PageNumbers, <3>3 DEF Fits, ExecRow
    <3>5. Fits(e)
      BY <1>17, <3>2, <3>4, PageNumbers DEF Fits, WriteSection, ExecRow, FreeExec
    <3>6. QED
      BY <1>0, <3>1, <3>5, ExecReplaced
  <2>4. QED
    BY <2>1, <2>2, <2>3 DEF Types
<1>18. ASSUME NEW w \in Workers, NoSection(w)
     PROVE  Types'
  <2>1. RowTypes' /\ StoreTypes' /\ QueueTypes'
    BY <1>0, <1>18
    DEF RowTypes, StoreTypes, QueueTypes, NoSection, requests, history, bounds,
        bought
  <2>2. ExecTypes'
    <3> DEFINE e == [exec[w] EXCEPT !.left = Tail(exec[w].left), !.covered = @ \ Head(exec[w].left)]
    <3>1. exec' = [exec EXCEPT ![w] = e]
      BY <1>0, <1>18 DEF NoSection, ExecTypes
    <3>2. Fits(exec[w]) /\ Busy(w) /\ exec[w].portion \in Portions /\ exec[w].job \in Jobs
      BY <1>0, <1>18, BusyHas DEF NoSection, Busy
    <3>3. Tail(exec[w].left) \in Seq(SUBSET Pages)
      BY <1>18, <3>2 DEF NoSection, Fits, ExecRow
    <3>4. e \in ExecRow
      BY <3>2, PageNumbers, <3>3 DEF Fits, ExecRow
    <3>5. Fits(e)
      BY <1>18, <3>2, <3>4, PageNumbers DEF Fits, NoSection, ExecRow, FreeExec
    <3>6. QED
      BY <1>0, <3>1, <3>5, ExecReplaced
  <2>3. CountTypes'
    <3>1. faults' \in Nat
      BY <1>0, <1>18, BusyHas
      DEF CountTypes, NoSection
    <3>2. UNCHANGED <<pressed, changes, paid, lost, shared, doubled, orphaned, outdated>>
      BY <1>18 DEF NoSection, bounds, history, bought
    <3>3. QED
      BY <1>0, <3>1, <3>2 DEF CountTypes
  <2>4. QED
    BY <2>1, <2>2, <2>3 DEF Types
<1>19. ASSUME NEW w \in Workers, WriteRollup(w)
     PROVE  Types'
  <2>1. RowTypes' /\ QueueTypes' /\ CountTypes'
    BY <1>0, <1>19
    DEF RowTypes, QueueTypes, CountTypes, WriteRollup, Insert, Rewrite, requests,
        history, bounds, bought
  <2>2. StoreTypes'
    <3> DEFINE rows == Append(rollup[exec[w].portion], [level |-> "portion", of |-> exec[w].covered])
    <3>1. Busy(w) /\ Rewrite(exec[w].portion, rows) /\ paged' = paged
      BY <1>19 DEF WriteRollup, Busy, Insert
    <3>2. exec[w].covered \in SUBSET Pages
      BY <1>0, <1>19, BusyHas DEF WriteRollup, Fits, ExecRow
    <3>3. rollup[exec[w].portion] \in Seq([level: {"section", "portion"}, of: SUBSET Pages])
      BY <1>0, <3>1, BusyHas DEF StoreTypes
    <3>4. rows \in Seq([level: {"section", "portion"}, of: SUBSET Pages])
      BY <3>2, <3>3
    <3>5. QED
      BY <1>0, <3>1, <3>4, RewriteKeepsTypes
  <2>3. ExecTypes'
    <3> DEFINE e == [exec[w] EXCEPT !.pc = "ready", !.covered = {}]
    <3>1. exec' = [exec EXCEPT ![w] = e]
      BY <1>0, <1>19 DEF WriteRollup, ExecTypes
    <3>2. Fits(exec[w]) /\ Busy(w) /\ exec[w].portion \in Portions /\ exec[w].job \in Jobs
      BY <1>0, <1>19, BusyHas DEF WriteRollup, Busy
    <3>3. e \in ExecRow
      BY <3>2, PageNumbers DEF Fits, ExecRow
    <3>4. Fits(e)
      BY <1>19, <3>2, <3>3, PageNumbers DEF Fits, WriteRollup, ExecRow, FreeExec
    <3>5. QED
      BY <1>0, <3>1, <3>4, ExecReplaced
  <2>4. QED
    BY <2>1, <2>2, <2>3 DEF Types
<1>20. ASSUME NEW w \in Workers, NoRollup(w)
     PROVE  Types'
  <2>1. StoreTypes' /\ QueueTypes'
    BY <1>0, <1>20
    DEF StoreTypes, QueueTypes, NoRollup, Fails, SetStatus, requests, history,
        bounds, bought
  <2>2. ExecTypes' /\ RowTypes'
    <3>1. Busy(w) /\ Fails(w) /\ page' = page
      BY <1>20 DEF NoRollup, Busy
    <3>2. QED
      BY <1>0, <3>1, FailsKeepsTypes
  <2>3. CountTypes'
    BY <1>0, <1>20, NoneOfAKind, BusyHas
    DEF CountTypes, Busy, NoRollup, Fails, SetStatus, FreeExec, bought, history,
        bounds
  <2>4. QED
    BY <2>1, <2>2, <2>3 DEF Types
<1>21. ASSUME NEW w \in Workers, WriteReady(w)
     PROVE  Types'
  <2>1. StoreTypes' /\ QueueTypes' /\ CountTypes'
    BY <1>0, <1>21
    DEF StoreTypes, QueueTypes, CountTypes, WriteReady, SetStatus, Goto, requests,
        history, bounds, bought
  <2>2. RowTypes'
    BY <1>0, <1>21, NoneOfAKind, BusyHas
    DEF RowTypes, Busy, WriteReady, SetStatus, Goto
  <2>3. ExecTypes'
    <3> DEFINE e == [exec[w] EXCEPT !.pc = "invalidate"]
    <3>1. exec' = [exec EXCEPT ![w] = e]
      BY <1>0, <1>21 DEF WriteReady, Goto, ExecTypes
    <3>2. Fits(exec[w]) /\ Busy(w) /\ exec[w].portion \in Portions /\ exec[w].job \in Jobs
      BY <1>0, <1>21, BusyHas DEF WriteReady, Busy
    <3>3. e \in ExecRow
      BY <3>2, PageNumbers DEF Fits, ExecRow
    <3>4. Fits(e)
      BY <1>21, <3>2, <3>3, PageNumbers DEF Fits, WriteReady, ExecRow, FreeExec
    <3>5. QED
      BY <1>0, <3>1, <3>4, ExecReplaced
  <2>4. QED
    BY <2>1, <2>2, <2>3 DEF Types
<1>22. ASSUME NEW w \in Workers, Invalidate(w)
     PROVE  Types'
  <2>1. RowTypes'
    BY <1>0, <1>22 DEF RowTypes, Invalidate
  <2>2. StoreTypes'
    BY <1>0, <1>22, CacheKept DEF Invalidate, Drop, DropFails
  <2>3. QueueTypes'
    BY <1>0, <1>22, NoneOfAKind, BusyHas
    DEF QueueTypes, Busy, Invalidate, Ended, FreeExec, FreeJob
  <2>4. ExecTypes'
    BY <1>0, <1>22, FreeFits, ExecReplaced DEF Invalidate, Ended
  <2>5. CountTypes'
    <3>1. outdated' \subseteq Portions
      BY <1>0, <1>22, BusyHas DEF CountTypes, StoreTypes, Invalidate, Drop, DropFails
    <3>2. faults' \in Nat
      BY <1>0, <1>22 DEF CountTypes, Invalidate, DropFails, Unreached
    <3>3. UNCHANGED <<pressed, changes, paid, lost, shared, doubled, orphaned>>
      BY <1>22 DEF Invalidate, bought
    <3>4. QED
      BY <1>0, <3>1, <3>2, <3>3 DEF CountTypes
  <2>6. QED
    BY <2>1, <2>2, <2>3, <2>4, <2>5 DEF Types
<1>23. ASSUME NEW w \in Workers, Raise(w)
     PROVE  Types'
  <2>1. StoreTypes' /\ QueueTypes'
    BY <1>0, <1>23 DEF StoreTypes, QueueTypes, Raise
  <2>2. ExecTypes' /\ RowTypes'
    <3>1. Busy(w) /\ page' = page /\ (Fails(w) \/ (Quits(w) /\ row' = row))
      BY <1>23 DEF Raise, Busy, InTry
    <3>2. CASE Fails(w)
      BY <1>0, <3>1, <3>2, FailsKeepsTypes
    <3>3. CASE Quits(w) /\ row' = row
      BY <1>0, <3>1, <3>3, QuitsKeepsTypes DEF RowTypes
    <3>4. QED
      BY <3>1, <3>2, <3>3
  <2>3. CountTypes'
    <3>1. lost' \in [Pages -> Nat]
      BY <1>0, <1>23, BusyHas
      DEF CountTypes, Raise, Wasted, Fits
    <3>2. faults' \in Nat
      BY <1>0, <1>23, BusyHas
      DEF CountTypes, Raise
    <3>3. orphaned' \subseteq Portions
      BY <1>0, <1>23, BusyHas DEF CountTypes, Raise, Busy, InTry
    <3>4. UNCHANGED <<pressed, changes, paid, shared, doubled, outdated>>
      BY <1>23 DEF Raise
    <3>5. QED
      BY <1>0, <3>1, <3>2, <3>3, <3>4 DEF CountTypes
  <2>4. QED
    BY <2>1, <2>2, <2>3 DEF Types
<1>24. ASSUME NEW w \in Workers, Crash(w)
     PROVE  Types'
  <2>1. RowTypes' /\ StoreTypes' /\ QueueTypes'
    BY <1>0, <1>24
    DEF RowTypes, StoreTypes, QueueTypes, Crash, requests, history, bounds, bought
  <2>2. ExecTypes'
    BY <1>0, <1>24, FreeFits, ExecReplaced DEF Crash
  <2>3. CountTypes'
    <3>1. lost' \in [Pages -> Nat]
      BY <1>0, <1>24, BusyHas
      DEF CountTypes, Crash, Wasted, Fits
    <3>2. faults' \in Nat
      BY <1>0, <1>24, BusyHas
      DEF CountTypes, Crash
    <3>3. outdated' \subseteq Portions
      BY <1>0, <1>24, BusyHas
      DEF CountTypes, Crash, Busy
    <3>4. orphaned' \subseteq Portions
      BY <1>0, <1>24, BusyHas
      DEF CountTypes, Crash, Busy
    <3>5. UNCHANGED <<pressed, changes, paid, shared, doubled>>
      BY <1>24 DEF Crash, bounds, history, bought
    <3>6. QED
      BY <1>0, <3>1, <3>2, <3>3, <3>4, <3>5 DEF CountTypes
  <2>4. QED
    BY <2>1, <2>2, <2>3 DEF Types
<1>25. ASSUME NEW w \in Workers, Beat(w)
     PROVE  Types'
  <2>1. StoreTypes' /\ QueueTypes' /\ ExecTypes' /\ CountTypes'
    BY <1>0, <1>25
    DEF StoreTypes, QueueTypes, ExecTypes, CountTypes, Fits, Beat, requests,
        history, bounds, bought
  <2>2. RowTypes'
    BY <1>0, <1>25, NoneOfAKind, BusyHas
    DEF RowTypes, Busy, Beat, InTry, requests
  <2>3. QED
    BY <2>1, <2>2 DEF Types
<1>26. ASSUME NEW j \in Jobs, StallJob(j)
     PROVE  Types'
  <2>1. RowTypes' /\ StoreTypes' /\ ExecTypes'
    BY <1>0, <1>26
    DEF RowTypes, StoreTypes, ExecTypes, Fits, StallJob, Stalled, requests,
        history, bounds, bought
  <2>2. QueueTypes'
    BY <1>0, <1>26, NoneOfAKind
    DEF QueueTypes, StallJob, Stalled, FreeJob
  <2>3. CountTypes'
    <3>1. orphaned' \subseteq Portions
      BY <1>0, <1>26, BusyHas
      DEF CountTypes, StallJob, Stalled, QueueTypes
    <3>2. UNCHANGED <<pressed, changes, faults, paid, lost, shared, doubled, outdated>>
      BY <1>26 DEF StallJob, bounds, history, bought
    <3>3. QED
      BY <1>0, <3>1, <3>2 DEF CountTypes
  <2>4. QED
    BY <2>1, <2>2, <2>3 DEF Types
<1>27. ASSUME NEW j \in Jobs, Lapse(j)
     PROVE  Types'
  <2>1. RowTypes' /\ StoreTypes' /\ ExecTypes'
    BY <1>0, <1>27
    DEF RowTypes, StoreTypes, ExecTypes, Fits, Lapse, Stalled, requests, history,
        bounds, bought
  <2>2. QueueTypes'
    BY <1>0, <1>27, NoneOfAKind
    DEF QueueTypes, Lapse, Stalled, FreeJob
  <2>3. CountTypes'
    <3>1. orphaned' \subseteq Portions
      BY <1>0, <1>27, BusyHas
      DEF CountTypes, Lapse, Stalled, QueueTypes
    <3>2. faults' \in Nat
      BY <1>0, <1>27, BusyHas
      DEF CountTypes, Lapse
    <3>3. UNCHANGED <<pressed, changes, paid, lost, shared, doubled, outdated>>
      BY <1>27 DEF Lapse, bounds, history, bought
    <3>4. QED
      BY <1>0, <3>1, <3>2, <3>3 DEF CountTypes
  <2>4. QED
    BY <2>1, <2>2, <2>3 DEF Types
<1>28. ASSUME NEW k \in Portions, GoSilent(k)
     PROVE  Types'
  <2>1. StoreTypes' /\ QueueTypes' /\ ExecTypes'
    BY <1>0, <1>28
    DEF StoreTypes, QueueTypes, ExecTypes, Fits, GoSilent, requests, history,
        bounds, bought
  <2>2. RowTypes'
    BY <1>0, <1>28, NoneOfAKind
    DEF RowTypes, GoSilent, requests
  <2>3. CountTypes'
    BY <1>0, <1>28, NoneOfAKind
    DEF CountTypes, GoSilent, requests, bought, history, bounds
  <2>4. QED
    BY <2>1, <2>2, <2>3 DEF Types
<1>29. ASSUME NEW p \in Pages, Reprocess(p)
     PROVE  Types'
  <2>1. StoreTypes' /\ QueueTypes' /\ ExecTypes'
    BY <1>0, <1>29
    DEF StoreTypes, QueueTypes, ExecTypes, Fits, Reprocess, requests, history,
        bounds, bought
  <2>2. RowTypes'
    BY <1>0, <1>29, NoneOfAKind
    DEF RowTypes, Reprocess, requests
  <2>3. CountTypes'
    BY <1>0, <1>29, NoneOfAKind
    DEF CountTypes, Reprocess, requests, bought, history, bounds
  <2>4. QED
    BY <2>1, <2>2, <2>3 DEF Types
<1>30. ASSUME NEW p \in Pages, NEW k \in Portions \cup {Elsewhere}, MovePage(p, k)
     PROVE  Types'
  <2>1. QueueTypes' /\ ExecTypes'
    BY <1>0, <1>30 DEF QueueTypes, ExecTypes, Fits, MovePage, requests
  <2>2. RowTypes'
    BY <1>0, <1>30, NoneOfAKind DEF RowTypes, MovePage
  <2>3. StoreTypes'
    BY <1>0, <1>30, CacheKept DEF MovePage, Drop, DropFails, requests
  <2>4. CountTypes'
    BY <1>0, <1>30 DEF CountTypes, MovePage, Drop, DropFails, Unreached, bought
  <2>5. QED
    BY <2>1, <2>2, <2>3, <2>4 DEF Types
<1>31. CASE UNCHANGED vars
  BY <1>0, <1>31
  DEF Types, RowTypes, StoreTypes, QueueTypes, ExecTypes, CountTypes, vars, requests, bounds,
      history, bought, Fits
<1>32. ASSUME NEW w \in Workers, RaiseEarly(w)
     PROVE  Types'
  <2>1. RowTypes' /\ StoreTypes'
    BY <1>0, <1>32 DEF RowTypes, StoreTypes, RaiseEarly
  <2>2. QueueTypes'
    BY <1>0, <1>32, NoneOfAKind, BusyHas
    DEF QueueTypes, Busy, RaiseEarly, Ended, FreeExec, FreeJob
  <2>3. ExecTypes'
    BY <1>0, <1>32, FreeFits, ExecReplaced DEF RaiseEarly, Ended
  <2>4. CountTypes'
    BY <1>0, <1>32, BusyHas DEF CountTypes, RaiseEarly, Busy, bought
  <2>5. QED
    BY <2>1, <2>2, <2>3, <2>4 DEF Types
<1>33. QED
  BY <1>32, <1>1, <1>2, <1>3, <1>4, <1>5, <1>6, <1>7, <1>8, <1>9, <1>10, <1>11, <1>12, <1>13, <1>14, <1>15, <1>16, <1>17, <1>18, <1>19, <1>20, <1>21, <1>22, <1>23, <1>24, <1>25, <1>26, <1>27, <1>28, <1>29, <1>30, <1>31, Zenon DEF Next, Serve, Work

LEMMA InitTypes == Init => Types
<1>. SUFFICES ASSUME Init PROVE Types
  OBVIOUS
<1>1. RowTypes
  BY DEF Init, RowTypes
<1>2. StoreTypes
  BY DEF Init, StoreTypes, NoCache, FreeReader
<1>3. QueueTypes
  BY NoneOfAKind DEF Init, QueueTypes, FreeJob, FreePress
<1>4. ExecTypes
  BY FreeFits DEF Init, ExecTypes, Fits
<1>5. CountTypes
  BY DEF Init, CountTypes
<1>6. QED
  BY <1>1, <1>2, <1>3, <1>4, <1>5 DEF Types

\* The types of the module and the shape of its records.
LEMMA TypesAreTypes == Types => TypeOK
  BY DEF Types, TypeOK, RowTypes, StoreTypes, QueueTypes, ExecTypes, CountTypes

-----------------------------------------------------------------------------
(* Kinds of steps.                                                         *)

SameHands ==
  \A v \in Workers : exec'[v].portion = exec[v].portion /\ exec'[v].job = exec[v].job

\* An execution goes on,
Goes(w) ==
  /\ Working(w) /\ Working(w)' /\ exec'[w].pc # "begun"
  /\ SameHands /\ \A v \in Workers \ {w} : exec'[v] = exec[v]
  /\ \/ row' = row
     \/ row' = [row EXCEPT ![exec[w].portion] = [status |-> "running", heart |-> "beats"]]
  /\ UNCHANGED <<job, press, doubled, orphaned, outdated>>

\* has its end written, or fails to write it,
Ends(w) ==
  /\ Working(w) /\ exec[w].pc # "begun" /\ exec'[w].pc = "invalidate"
  /\ SameHands /\ \A v \in Workers \ {w} : exec'[v] = exec[v]
  /\ \/ /\ \E s \in {"failed", "ready"} :
             /\ row' = [row EXCEPT ![exec[w].portion] = [status |-> s, heart |-> "beats"]]
             /\ s = "ready" => exec[w].pc = "ready"
        /\ orphaned' = orphaned
     \/ row' = row /\ orphaned' = orphaned \cup {exec[w].portion}
  /\ UNCHANGED <<rollup, cache, reader, job, press, doubled, outdated>>

\* or leaves.
Leaves(w) == Invalidate(w) \/ Crash(w) \/ RaiseEarly(w)

\* What everybody but the executions does.
Around ==
  \/ \E u \in Presses : \/ \E k \in Portions : ReadForPress(u, k)
                        \/ Serve(u) \/ LosePress(u)
  \/ \E r \in Readers : ReadRows(r) \/ Fill(r)
  \/ Expire
  \/ \E w \in Workers : Beat(w)
  \/ \E j \in Jobs : StallJob(j) \/ Lapse(j)
  \/ \E k \in Portions : GoSilent(k)
  \/ \E p \in Pages : Reprocess(p) \/ \E k \in Portions \cup {Elsewhere} : MovePage(p, k)
  \/ UNCHANGED vars

LEMMA FailsEnds ==
  ASSUME Types, NEW w \in Workers, Working(w), exec[w].pc # "begun",
         \/ Fails(w) /\ orphaned' = orphaned
         \/ Quits(w) /\ row' = row /\ orphaned' = orphaned \cup {exec[w].portion},
         UNCHANGED <<rollup, cache, reader, job, press, doubled, outdated>>
  PROVE  Ends(w)
<1>1. exec \in [Workers -> ExecRow] /\ Quits(w)
  BY DEF Types, ExecTypes, Fails
<1>2. /\ exec'[w].pc = "invalidate" /\ SameHands
      /\ \A v \in Workers \ {w} : exec'[v] = exec[v]
  BY <1>1 DEF ExecRow, Quits, SameHands, FreeExec
<1>3. \/ /\ row' = [row EXCEPT ![exec[w].portion] = [status |-> "failed", heart |-> "beats"]]
         /\ orphaned' = orphaned
      \/ row' = row /\ orphaned' = orphaned \cup {exec[w].portion}
  BY DEF Fails, SetStatus
<1>4. QED
  BY <1>2, <1>3 DEF Ends

LEMMA WorkMoves ==
  ASSUME Types, NEW w \in Workers,
         \/ SetRunning(w) \/ ReadPages(w) \/ AnswerPage(w) \/ ClearPage(w) \/ SavePage(w)
         \/ Cover(w) \/ DeleteRollups(w) \/ WriteSection(w) \/ NoSection(w)
         \/ WriteRollup(w) \/ NoRollup(w) \/ WriteReady(w) \/ Raise(w)
  PROVE  Goes(w) \/ Ends(w)
<1>0. ExecTypes /\ exec \in [Workers -> ExecRow] /\ exec[w] \in ExecRow
  BY DEF Types, ExecTypes
<1>1. CASE SetRunning(w)
  BY <1>0, <1>1
  DEF SetRunning, SetStatus, Goto, Goes, SameHands, Working, ExecRow, history, bounds
<1>2. CASE ReadPages(w)
  <2>1. CASE Fails(w)
    BY <1>2, <2>1, FailsEnds DEF ReadPages, Working, history, bought
  <2>2. CASE ~Fails(w)
    <3> DEFINE e == [exec[w] EXCEPT !.pc = "pages", !.todo = {p \in PagesOf(exec[w].portion) : NeedsSummary(p)},
                     !.had = {p \in PagesOf(exec[w].portion) : paged[p] # <<>>},
                     !.of = [p \in Pages |-> page[p].chunks]]
    <3>1. exec' = [exec EXCEPT ![w] = e] /\ row' = row /\ exec[w].pc # "free"
      BY <1>0, <1>2, <2>2 DEF ReadPages
    <3>2. e.pc = "pages" /\ e.portion = exec[w].portion /\ e.job = exec[w].job
      BY <1>0 DEF ExecRow
    <3>3. UNCHANGED <<job, press, doubled, orphaned, outdated>>
      BY <1>2 DEF ReadPages, history
    <3>4. Working(w)
      BY <1>2 DEF ReadPages, Working
    <3>5. QED
      BY <1>0, <3>1, <3>2, <3>3, <3>4 DEF Goes, SameHands, Working
  <2>3. QED
    BY <2>1, <2>2
<1>3. CASE AnswerPage(w)
  <2>1. PICK p \in exec[w].todo :
          /\ exec[w].pc = "pages" /\ p \in Pages
          /\ \/ \E of \in {exec[w].of[p], Uncited} :
                  exec' = [exec EXCEPT ![w] = Answered(exec[w], p, of)]
             \/ exec' = [exec EXCEPT ![w].todo = @ \ {p}]
          /\ UNCHANGED <<row, job, press, doubled, orphaned, outdated>>
    BY <1>0, <1>3, AnswersOne
  <2>2. Working(w)
    BY <2>1 DEF Working
  <2>3. \A v \in Workers \ {w} : exec'[v] = exec[v]
    BY <1>0, <2>1
  <2>4. /\ exec'[w].pc \in {"pages", "clear", "save"}
        /\ exec'[w].portion = exec[w].portion /\ exec'[w].job = exec[w].job
    <3>1. CASE exec' = [exec EXCEPT ![w].todo = @ \ {p}]
      BY <1>0, <2>1, <3>1 DEF ExecRow
    <3>2. ASSUME NEW of \in {exec[w].of[p], Uncited},
                 exec' = [exec EXCEPT ![w] = Answered(exec[w], p, of)]
          PROVE  /\ exec'[w].pc \in {"pages", "clear", "save"}
                 /\ exec'[w].portion = exec[w].portion /\ exec'[w].job = exec[w].job
      <4>1. of \in Nat /\ Fits(exec[w])
        BY <1>0, <2>1, <3>2, BusyHas DEF ExecRow, Uncited
      <4>2. /\ Answered(exec[w], p, of).pc \in {"clear", "save"}
            /\ Answered(exec[w], p, of).portion = exec[w].portion
            /\ Answered(exec[w], p, of).job = exec[w].job
        <5>1. exec[w].pc = "pages" /\ p \in Pages
          BY <2>1
        <5>2. Answered(exec[w], p, of).pc \in {"clear", "save"}
          BY <4>1, <5>1, AnsweredFits
        <5>3. Answered(exec[w], p, of).portion = exec[w].portion
          BY <4>1 DEF Answered, Fits, ExecRow
        <5>4. Answered(exec[w], p, of).job = exec[w].job
          BY <4>1 DEF Answered, Fits, ExecRow
        <5>5. QED
          BY <5>2, <5>3, <5>4
      <4>3. exec'[w] = Answered(exec[w], p, of)
        BY <1>0, <3>2
      <4>4. QED
        BY <4>2, <4>3
    <3>3. QED
      BY <2>1, <3>1, <3>2
  <2>5. QED
    BY <2>1, <2>2, <2>3, <2>4 DEF Goes, SameHands, Working
<1>4. CASE ClearPage(w)
  BY <1>0, <1>4 DEF ClearPage, Goto, Goes, SameHands, Working, ExecRow, history
<1>5. CASE SavePage(w)
  BY <1>0, <1>5 DEF SavePage, Goes, SameHands, Working, ExecRow, history
<1>6. CASE Cover(w)
  <2>1. CASE Fails(w)
    BY <1>6, <2>1, FailsEnds DEF Cover, Working, history, bought
  <2>2. CASE ~Fails(w)
    <3> DEFINE e == [exec[w] EXCEPT !.pc = "delete",
                     !.covered = {p \in PagesOf(exec[w].portion) : paged[p] # <<>>},
                     !.had = {}, !.of = FreeExec.of]
    <3>1. exec' = [exec EXCEPT ![w] = e] /\ row' = row /\ exec[w].pc # "free"
      BY <1>0, <1>6, <2>2 DEF Cover
    <3>2. e.pc = "delete" /\ e.portion = exec[w].portion /\ e.job = exec[w].job
      BY <1>0 DEF ExecRow
    <3>3. UNCHANGED <<job, press, doubled, orphaned, outdated>>
      BY <1>6 DEF Cover, history
    <3>4. Working(w)
      BY <1>6 DEF Cover, Working
    <3>5. QED
      BY <1>0, <3>1, <3>2, <3>3, <3>4 DEF Goes, SameHands, Working
  <2>3. QED
    BY <2>1, <2>2
<1>7. CASE DeleteRollups(w)
  BY <1>0, <1>7 DEF DeleteRollups, Goes, SameHands, Working, ExecRow, history
<1>8. CASE WriteSection(w)
  BY <1>0, <1>8 DEF WriteSection, Goes, SameHands, Working, ExecRow, history
<1>9. CASE NoSection(w)
  BY <1>0, <1>9 DEF NoSection, Goes, SameHands, Working, ExecRow, history
<1>10. CASE WriteRollup(w)
  BY <1>0, <1>10 DEF WriteRollup, Goes, SameHands, Working, ExecRow, history
<1>11. CASE NoRollup(w)
  BY <1>11, FailsEnds DEF NoRollup, Working, history, bought
<1>12. CASE WriteReady(w)
  BY <1>0, <1>12
  DEF WriteReady, SetStatus, Goto, Ends, SameHands, Working, ExecRow, history
<1>13. CASE Raise(w)
  BY <1>13, FailsEnds DEF Raise, InTry, Working, history, bought
<1>14. QED
  BY <1>1, <1>2, <1>3, <1>4, <1>5, <1>6, <1>7, <1>8, <1>9, <1>10, <1>11, <1>12, <1>13

LEMMA StepsAreOfAKind ==
  ASSUME Types, [Next]_vars
  PROVE  \/ Around
         \/ \E w \in Workers : \/ \E j \in Jobs : Take(w, j)
                               \/ Goes(w) \/ Ends(w) \/ Leaves(w)
  BY WorkMoves, Zenon DEF Next, Work, Around, Leaves

\* What everybody else leaves alone.
LEMMA AroundLeaves ==
  ASSUME Around
  PROVE  UNCHANGED <<rollup, exec, doubled>>
<1>1. CASE \E u \in Presses : (\E k \in Portions : ReadForPress(u, k)) \/ LosePress(u)
  BY <1>1 DEF ReadForPress, LosePress, history
<1>2. CASE \E u \in Presses : Serve(u)
  BY <1>2 DEF Serve, AddJob, WriteQueued, DropForPress, history
<1>3. CASE \E r \in Readers : ReadRows(r) \/ Fill(r)
  BY <1>3 DEF ReadRows, Fill, history
<1>4. CASE Expire \/ (\E w \in Workers : Beat(w)) \/ (\E k \in Portions : GoSilent(k))
  BY <1>4 DEF Expire, Beat, GoSilent, requests, history
<1>5. CASE \E j \in Jobs : StallJob(j) \/ Lapse(j)
  BY <1>5 DEF StallJob, Lapse
<1>6. CASE \E p \in Pages : Reprocess(p) \/ \E k \in Portions \cup {Elsewhere} : MovePage(p, k)
  BY <1>6 DEF Reprocess, MovePage, requests, history
<1>7. CASE UNCHANGED vars
  BY <1>7 DEF vars, requests, history
<1>8. QED
  BY <1>1, <1>2, <1>3, <1>4, <1>5, <1>6, <1>7, Zenon DEF Around

-----------------------------------------------------------------------------
(* RequestsAreServed.                                                      *)

\* A job and the execution that holds it are of one portion.
HandsAgree ==
  \A w \in Workers :
    Busy(w) /\ Holds(w) => job[exec[w].job].portion = exec[w].portion

\* A job about to end with its execution.
Closing(j) ==
  /\ job[j].state = "active" /\ exec[job[j].holder].job = j
  /\ exec[job[j].holder].pc = "invalidate"

\* Somebody will still say how the run of a portion ended.
Useful(k) ==
  \/ \E w \in Workers : Working(w) /\ exec[w].portion = k
  \/ \E j \in Jobs : job[j].state # "none" /\ job[j].portion = k /\ ~Closing(j)

RowsServed == \A k \in Portions \ orphaned : InFlight(k) => Useful(k)

\* A request about to write "queued" has its job waiting.
PressesServed ==
  \A u \in Presses :
    press[u].pc = "row" /\ press[u].portion \notin orphaned =>
      /\ job[press[u].job].state = "waiting"
      /\ job[press[u].job].portion = press[u].portion

\* What a step by anybody else does to jobs.
JobsAround ==
  \/ job' = job
  \/ \E j \in Jobs : job[j].state = "none" /\ job' = [job EXCEPT ![j] = job'[j]] /\ job'[j].state = "waiting"
  \/ \E j \in Jobs : job[j].state = "active" /\ job' = [job EXCEPT ![j] = job'[j]] /\ job'[j].state # "active"

LEMMA JobsMoveAround ==
  ASSUME Types, Around
  PROVE  JobsAround
<1>1. CASE \E u \in Presses : (\E k \in Portions : ReadForPress(u, k)) \/ LosePress(u)
  BY <1>1 DEF ReadForPress, LosePress, JobsAround
<1>2. CASE \E u \in Presses : AddJob(u)
  <2>1. PICK u \in Presses, j \in Jobs :
          /\ job[j].state = "none"
          /\ job' = [job EXCEPT ![j].state = "waiting", ![j].portion = press[u].portion]
    BY <1>2, Zenon DEF AddJob
  <2>2. job' = [job EXCEPT ![j] = job'[j]] /\ job'[j].state = "waiting"
    BY <2>1 DEF Types, QueueTypes
  <2>3. QED
    BY <2>1, <2>2 DEF JobsAround
<1>3. CASE \E u \in Presses : WriteQueued(u) \/ DropForPress(u)
  BY <1>3 DEF WriteQueued, DropForPress, JobsAround
<1>4. CASE \E r \in Readers : ReadRows(r) \/ Fill(r)
  BY <1>4 DEF ReadRows, Fill, JobsAround
<1>5. CASE Expire \/ (\E w \in Workers : Beat(w)) \/ (\E k \in Portions : GoSilent(k))
  BY <1>5 DEF Expire, Beat, GoSilent, requests, JobsAround
<1>6. CASE \E j \in Jobs : StallJob(j) \/ Lapse(j)
  <2>1. PICK j \in Jobs : job[j].state = "active" /\ Stalled(j)
    BY <1>6 DEF StallJob, Lapse
  <2>2. job' = [job EXCEPT ![j] = job'[j]] /\ job'[j].state # "active"
    BY <2>1 DEF Types, QueueTypes, Stalled, FreeJob
  <2>3. QED
    BY <2>1, <2>2 DEF JobsAround
<1>7. CASE \E p \in Pages : Reprocess(p) \/ \E k \in Portions \cup {Elsewhere} : MovePage(p, k)
  BY <1>7 DEF Reprocess, MovePage, requests, JobsAround
<1>8. CASE UNCHANGED vars
  BY <1>8 DEF vars, requests, JobsAround
<1>9. QED
  BY <1>1, <1>2, <1>3, <1>4, <1>5, <1>6, <1>7, <1>8, Zenon DEF Around, Serve

LEMMA HandsAgreeNext ==
  ASSUME Types, HandsAgree, [Next]_vars
  PROVE  HandsAgree'
<1>0. /\ exec \in [Workers -> ExecRow] /\ ExecTypes /\ \A w \in Workers : Busy(w) => exec[w].job \in Jobs
      /\ DOMAIN job = Jobs /\ QueueTypes
  BY BusyHas DEF Types, ExecTypes, QueueTypes
<1>1. CASE Around
  <2>1. exec' = exec /\ JobsAround
    BY <1>1, AroundLeaves, JobsMoveAround
  <2>2. QED
    BY <1>0, <2>1 DEF HandsAgree, Holds, Busy, JobsAround
<1>2. ASSUME NEW w \in Workers, Goes(w) \/ Ends(w)
      PROVE  HandsAgree'
  BY <1>2 DEF HandsAgree, Holds, Busy, Goes, Ends, SameHands, Working
<1>3. ASSUME NEW w \in Workers, NEW j \in Jobs, Take(w, j)
      PROVE  HandsAgree'
  <2>1. CASE exec' = exec /\ job' = [job EXCEPT ![j] = FreeJob]
    BY <1>0, <2>1 DEF HandsAgree, Holds, Busy, FreeJob
  <2>2. CASE /\ exec' = [exec EXCEPT ![w].pc = "begun", ![w].portion = job[j].portion,
                                     ![w].job = j]
             /\ job' = [job EXCEPT ![j].state = "active", ![j].holder = w]
    <3> SUFFICES ASSUME NEW v \in Workers, Busy(v)', Holds(v)'
                 PROVE  job'[exec'[v].job].portion = exec'[v].portion
      BY DEF HandsAgree
    <3>1. CASE v = w
      BY <1>0, <2>2, <3>1 DEF QueueTypes, ExecRow
    <3>2. CASE v # w
      <4>1. exec'[v] = exec[v]
        BY <1>0, <2>2, <3>2
      <4>2. exec[v].job # j
        BY <1>0, <2>2, <3>2, <4>1 DEF Holds, QueueTypes
      <4>3. QED
        BY <1>0, <2>2, <4>1, <4>2 DEF Holds, Busy, HandsAgree
    <3>3. QED
      BY <3>1, <3>2
  <2>3. QED
    BY <1>3, <2>1, <2>2 DEF Take
<1>4. ASSUME NEW w \in Workers, Leaves(w)
      PROVE  HandsAgree'
  <2>1. exec' = [exec EXCEPT ![w] = FreeExec]
    BY <1>4 DEF Leaves, Invalidate, RaiseEarly, Ended, Crash
  <2>2. job' = job \/ job' = [job EXCEPT ![exec[w].job] = FreeJob]
    BY <1>4 DEF Leaves, Invalidate, RaiseEarly, Ended, Crash
  <2>3. QED
    BY <1>0, <2>1, <2>2 DEF HandsAgree, Holds, Busy, FreeExec, FreeJob
<1>5. QED
  BY <1>1, <1>2, <1>3, <1>4, StepsAreOfAKind

LEMMA PressesServedNext ==
  ASSUME Types, PressesServed, [Next]_vars
  PROVE  PressesServed'
<1>0. QueueTypes /\ DOMAIN job = Jobs /\ DOMAIN press = Presses
  BY DEF Types, QueueTypes
<1>1. ASSUME NEW u \in Presses, (\E k \in Portions : ReadForPress(u, k)) \/ LosePress(u)
      PROVE  PressesServed'
  BY <1>0, <1>1 DEF ReadForPress, LosePress, history, PressesServed, FreePress
<1>2. ASSUME NEW u \in Presses, AddJob(u)
      PROVE  PressesServed'
  <2>1. PICK j \in Jobs :
          /\ job[j].state = "none" /\ orphaned' = orphaned
          /\ job' = [job EXCEPT ![j].state = "waiting", ![j].portion = press[u].portion]
          /\ press' = [press EXCEPT ![u].pc = "row", ![u].job = j]
    BY <1>2, Zenon DEF AddJob, history
  <2>2. QED
    BY <1>0, <2>1 DEF PressesServed, QueueTypes
<1>3. ASSUME NEW u \in Presses, WriteQueued(u) \/ DropForPress(u)
      PROVE  PressesServed'
  <2>1. UNCHANGED <<job, orphaned>>
    BY <1>3 DEF WriteQueued, DropForPress, history
  <2>2. \A v \in Presses \ {u} : press'[v] = press[v]
    BY <1>0, <1>3 DEF WriteQueued, DropForPress
  <2>3. press'[u].pc # "row"
    <3>1. CASE WriteQueued(u)
      BY <1>0, <3>1 DEF WriteQueued, QueueTypes
    <3>2. CASE DropForPress(u)
      BY <1>0, <3>2 DEF DropForPress, FreePress
    <3>3. QED
      BY <1>3, <3>1, <3>2
  <2>4. QED
    BY <2>1, <2>2, <2>3 DEF PressesServed
<1>4. CASE UNCHANGED <<press, job, orphaned>>
  BY <1>4 DEF PressesServed
<1>5. CASE \E r \in Readers : ReadRows(r) \/ Fill(r)
  BY <1>4, <1>5 DEF ReadRows, Fill, history
<1>6. CASE Expire \/ (\E w \in Workers : Beat(w)) \/ (\E k \in Portions : GoSilent(k))
  BY <1>4, <1>6 DEF Expire, Beat, GoSilent, requests, history
<1>7. ASSUME NEW j \in Jobs, StallJob(j) \/ Lapse(j)
      PROVE  PressesServed'
  <2>1. job[j].state = "active" /\ Stalled(j) /\ press' = press
    BY <1>7 DEF StallJob, Lapse
  <2>2. orphaned \subseteq orphaned'
    BY <2>1 DEF Stalled
  <2>3. \A i \in Jobs \ {j} : job'[i] = job[i]
    BY <1>0, <2>1 DEF Stalled
  <2>4. QED
    BY <1>0, <2>1, <2>2, <2>3 DEF PressesServed, QueueTypes
<1>8. CASE \E p \in Pages : Reprocess(p) \/ \E k \in Portions \cup {Elsewhere} : MovePage(p, k)
  BY <1>4, <1>8 DEF Reprocess, MovePage, requests, history
<1>9. CASE UNCHANGED vars
  BY <1>4, <1>9 DEF vars, requests, history
<1>10. CASE Around
  BY <1>1, <1>2, <1>3, <1>5, <1>6, <1>7, <1>8, <1>9, <1>10, Zenon DEF Around, Serve
<1>11. ASSUME NEW w \in Workers, Goes(w) \/ Ends(w)
       PROVE  PressesServed'
  BY <1>11 DEF Goes, Ends, PressesServed
<1>12. ASSUME NEW w \in Workers, NEW j \in Jobs, Take(w, j)
       PROVE  PressesServed'
  <2>1. /\ press' = press /\ \A i \in Jobs \ {j} : job'[i] = job[i]
        /\ orphaned \subseteq orphaned'
        /\ (\E u \in Presses : press[u].pc = "row" /\ press[u].job = j) =>
             job[j].portion \in orphaned'
        /\ job[j].state = "waiting"
    BY <1>0, <1>12 DEF Take
  <2>2. QED
    BY <1>0, <2>1 DEF PressesServed, QueueTypes
<1>13. ASSUME NEW w \in Workers, Leaves(w)
       PROVE  PressesServed'
  <2>1. CASE Crash(w)
    BY <2>1 DEF Crash, PressesServed
  <2>2. CASE Invalidate(w)
    BY <1>0, <2>2 DEF Invalidate, Ended, Holds, PressesServed, QueueTypes
  <2>3. CASE RaiseEarly(w)
    BY <1>0, <2>3 DEF RaiseEarly, Ended, Holds, PressesServed, QueueTypes
  <2>4. QED
    BY <1>13, <2>1, <2>2, <2>3 DEF Leaves
<1>14. QED
  BY <1>10, <1>11, <1>12, <1>13, StepsAreOfAKind

\* A portion stays served when its executions at work and the jobs not about to end do.
LEMMA UsefulStays ==
  ASSUME NEW k,
         \A w \in Workers : Working(w) /\ exec[w].portion = k =>
           Working(w)' /\ exec'[w].portion = k,
         \A j \in Jobs : job[j].state # "none" /\ job[j].portion = k /\ ~Closing(j) =>
           job'[j].state # "none" /\ job'[j].portion = k /\ ~Closing(j)',
         Useful(k)
  PROVE  Useful(k)'
  BY DEF Useful

LEMMA RowsServedNext ==
  ASSUME Types, HandsAgree, PressesServed, RowsServed, [Next]_vars
  PROVE  RowsServed'
<1>0. /\ QueueTypes /\ ExecTypes /\ RowTypes /\ DOMAIN job = Jobs /\ DOMAIN press = Presses
      /\ DOMAIN exec = Workers /\ DOMAIN row = Portions
  BY DEF Types, QueueTypes, ExecTypes, RowTypes
<1>. SUFFICES ASSUME NEW k \in Portions, k \notin orphaned', InFlight(k)'
               PROVE  Useful(k)'
  BY DEF RowsServed
<1>1. ASSUME NEW u \in Presses, (\E l \in Portions : ReadForPress(u, l)) \/ LosePress(u)
      PROVE  Useful(k)'
  <2>1. UNCHANGED <<row, job, exec, orphaned>>
    BY <1>1 DEF ReadForPress, LosePress, history
  <2>2. QED
    BY <2>1 DEF RowsServed, InFlight, Useful, Working, Closing
<1>2. ASSUME NEW u \in Presses, AddJob(u)
      PROVE  Useful(k)'
  <2>1. PICK j \in Jobs :
          /\ job[j].state = "none" /\ UNCHANGED <<row, exec, orphaned>>
          /\ job' = [job EXCEPT ![j].state = "waiting", ![j].portion = press[u].portion]
    BY <1>2, Zenon DEF AddJob, history
  <2>2. Useful(k)
    BY <2>1 DEF RowsServed, InFlight
  <2>3. \A i \in Jobs \ {j} : job'[i] = job[i]
    BY <1>0, <2>1
  <2>4. QED
    BY <2>1, <2>2, <2>3, UsefulStays DEF Closing, Working
<1>3. ASSUME NEW u \in Presses, WriteQueued(u)
      PROVE  Useful(k)'
  <2>1. /\ press[u].pc = "row" /\ press[u].portion \in Portions /\ press[u].job \in Jobs
        /\ UNCHANGED <<job, exec, orphaned>>
        /\ row' = [row EXCEPT ![press[u].portion] = [status |-> "queued", heart |-> "beats"]]
    BY <1>0, <1>3 DEF WriteQueued, SetStatus, history, QueueTypes
  <2>2. CASE k = press[u].portion
    BY <2>1, <2>2 DEF PressesServed, Useful, Closing
  <2>3. CASE k # press[u].portion
    BY <1>0, <2>1, <2>3 DEF RowsServed, InFlight, Useful, Working, Closing
  <2>4. QED
    BY <2>2, <2>3
<1>4. CASE UNCHANGED <<row, job, exec, orphaned>>
  BY <1>4 DEF RowsServed, InFlight, Useful, Working, Closing
<1>5. CASE Expire \/ \E r \in Readers : ReadRows(r) \/ Fill(r)
  BY <1>4, <1>5 DEF Expire, ReadRows, Fill, requests, history
<1>6. ASSUME NEW u \in Presses, DropForPress(u)
      PROVE  Useful(k)'
  BY <1>4, <1>6 DEF DropForPress
<1>7. CASE (\E w \in Workers : Beat(w)) \/ \E l \in Portions : GoSilent(l)
  <2>1. UNCHANGED <<job, exec, orphaned>>
    BY <1>7 DEF Beat, GoSilent, requests, history
  <2>2. PICK l : row' = [row EXCEPT ![l].heart = "beats"] \/ row' = [row EXCEPT ![l].heart = "silent"]
    BY <1>7 DEF Beat, GoSilent
  <2>3. row'[k].status = row[k].status
    BY <1>0, <2>2 DEF RowTypes
  <2>4. QED
    BY <2>1, <2>3 DEF RowsServed, InFlight, Useful, Working, Closing
<1>8. ASSUME NEW j \in Jobs, StallJob(j) \/ Lapse(j)
      PROVE  Useful(k)'
  <2>1. job[j].state = "active" /\ Stalled(j) /\ UNCHANGED <<row, exec>>
    BY <1>8 DEF StallJob, Lapse
  <2>2. Useful(k)
    BY <2>1 DEF RowsServed, InFlight, Stalled
  <2>3. CASE job' = [job EXCEPT ![j].state = "waiting", ![j].holder = NoWorker,
                                ![j].stalls = @ + 1]
    <3>1. \A i \in Jobs : /\ job'[i].portion = job[i].portion
                          /\ i # j => job'[i] = job[i]
                          /\ i = j => job'[i].state = "waiting"
      BY <1>0, <2>3 DEF QueueTypes
    <3>2. QED
      BY <2>1, <2>2, <3>1, UsefulStays DEF Closing, Working
  <2>4. CASE job' = [job EXCEPT ![j] = FreeJob] /\ orphaned' = orphaned \cup {job[j].portion}
    <3>1. job[j].portion # k /\ \A i \in Jobs \ {j} : job'[i] = job[i]
      BY <1>0, <2>4
    <3>2. QED
      BY <2>1, <2>2, <3>1, UsefulStays DEF Closing, Working
  <2>5. QED
    BY <2>1, <2>3, <2>4 DEF Stalled
<1>9. ASSUME NEW p \in Pages, NEW l \in Portions \cup {Elsewhere}, MovePage(p, l)
      PROVE  Useful(k)'
  <2>1. UNCHANGED <<job, exec, orphaned>>
    BY <1>9 DEF MovePage, requests
  <2>2. InFlight(k)
    BY <1>0, <1>9 DEF MovePage, InFlight, RowTypes
  <2>3. QED
    BY <2>1, <2>2 DEF RowsServed, Useful, Working, Closing
<1>10. CASE (\E p \in Pages : Reprocess(p)) \/ UNCHANGED vars
  BY <1>4, <1>10 DEF Reprocess, vars, requests, history
<1>11. CASE Around
  BY <1>1, <1>2, <1>3, <1>5, <1>6, <1>7, <1>8, <1>9, <1>10, <1>11, Zenon DEF Around, Serve
<1>12. ASSUME NEW w \in Workers, Goes(w)
       PROVE  Useful(k)'
  <2>1. CASE k = exec[w].portion
    BY <1>12, <2>1 DEF Goes, SameHands, Useful
  <2>2. CASE k # exec[w].portion
    <3>1. InFlight(k)
      BY <1>0, <1>12, <2>2 DEF Goes, InFlight
    <3>2. Useful(k)
      BY <1>12, <3>1 DEF Goes, RowsServed
    <3>3. \A v \in Workers : Working(v) => Working(v)' /\ exec'[v].portion = exec[v].portion
      BY <1>12 DEF Goes, SameHands, Working
    <3>4. \A j \in Jobs : Closing(j)' => Closing(j)
      <4>1. \A v \in Workers : exec'[v].pc = "invalidate" => exec[v].pc = "invalidate"
        BY <1>12 DEF Goes, Working
      <4>2. QED
        BY <1>0, <1>12, <4>1 DEF Goes, SameHands, Closing, QueueTypes
    <3>5. QED
      BY <1>12, <3>2, <3>3, <3>4, UsefulStays DEF Goes
  <2>3. QED
    BY <2>1, <2>2
<1>13. ASSUME NEW w \in Workers, Ends(w)
       PROVE  Useful(k)'
  <2>1. exec[w].portion \in Portions /\ exec[w].job \in Jobs /\ Busy(w)
    BY <1>0, <1>13, BusyHas DEF Ends, Working, Busy
  <2>2. k # exec[w].portion
    BY <1>0, <1>13, <2>1 DEF Ends, InFlight
  <2>3. InFlight(k) /\ job' = job /\ orphaned \subseteq orphaned'
    BY <1>0, <1>13, <2>2 DEF Ends, InFlight
  <2>4. Useful(k)
    BY <2>3 DEF RowsServed
  <2>5. \A v \in Workers : Working(v) /\ exec[v].portion = k =>
          Working(v)' /\ exec'[v].portion = k
    BY <1>13, <2>2 DEF Ends, SameHands, Working
  <2>6. \A j \in Jobs : job[j].state # "none" /\ job[j].portion = k /\ ~Closing(j) => ~Closing(j)'
    <3>1. SUFFICES ASSUME NEW j \in Jobs, job[j].portion = k, Closing(j)'
                   PROVE  Closing(j)
      OBVIOUS
    <3>2. /\ job[j].state = "active" /\ job[j].holder \in Workers
          /\ exec[job[j].holder].job = j
      BY <1>0, <1>13, <2>3, <3>1 DEF Ends, SameHands, Closing, QueueTypes
    <3>3. job[j].holder # w
      BY <2>1, <2>2, <3>1, <3>2 DEF HandsAgree, Holds
    <3>4. QED
      BY <1>13, <2>3, <3>1, <3>2, <3>3 DEF Ends, Closing
  <2>7. QED
    BY <2>3, <2>4, <2>5, <2>6, UsefulStays
<1>14. ASSUME NEW w \in Workers, NEW j \in Jobs, Take(w, j)
       PROVE  Useful(k)'
  <2>0. row' = row /\ orphaned \subseteq orphaned' /\ exec[w] = FreeExec /\ job[j].state = "waiting"
    BY <1>0, <1>14, BusyHas DEF Take, Fits
  <2>1. Useful(k) /\ InFlight(k)
    BY <2>0 DEF RowsServed, InFlight
  <2>2. CASE exec' = exec /\ job' = [job EXCEPT ![j] = FreeJob] /\ ~Requested(job[j].portion)
    <3>1. job[j].portion # k /\ \A i \in Jobs \ {j} : job'[i] = job[i]
      BY <1>0, <2>1, <2>2 DEF Requested
    <3>2. QED
      BY <2>1, <2>2, <3>1, UsefulStays DEF Closing, Working
  <2>3. CASE /\ exec' = [exec EXCEPT ![w].pc = "begun", ![w].portion = job[j].portion,
                                     ![w].job = j]
             /\ job' = [job EXCEPT ![j].state = "active", ![j].holder = w]
    <3>1. /\ \A v \in Workers \ {w} : exec'[v] = exec[v]
          /\ exec'[w].pc = "begun" /\ exec'[w].portion = job[j].portion /\ exec'[w].job = j
      BY <1>0, <2>3 DEF ExecRow, ExecTypes
    <3>2. /\ \A i \in Jobs \ {j} : job'[i] = job[i]
          /\ job'[j].portion = job[j].portion /\ job'[j].state = "active"
          /\ job'[j].holder = w
      BY <1>0, <2>3 DEF QueueTypes
    <3>3. \A v \in Workers : Working(v) /\ exec[v].portion = k =>
            Working(v)' /\ exec'[v].portion = k
      BY <2>0, <3>1 DEF Working, FreeExec
    <3>4. \A i \in Jobs : ~Closing(i) => ~Closing(i)'
      BY <1>0, <2>0, <3>1, <3>2 DEF Closing, QueueTypes
    <3>5. QED
      BY <2>1, <3>2, <3>3, <3>4, UsefulStays
  <2>4. QED
    BY <1>14, <2>2, <2>3 DEF Take
<1>15. ASSUME NEW w \in Workers, Invalidate(w)
       PROVE  Useful(k)'
  <2>1. /\ exec' = [exec EXCEPT ![w] = FreeExec] /\ exec[w].pc = "invalidate"
        /\ UNCHANGED <<row, orphaned>>
    BY <1>15 DEF Invalidate, Ended
  <2>2. Useful(k)
    BY <2>1 DEF RowsServed, InFlight
  <2>3. \A v \in Workers : Working(v) => exec'[v] = exec[v]
    BY <1>0, <2>1 DEF Working
  <2>4. \A j \in Jobs : ~Closing(j) => job'[j] = job[j]
    BY <1>0, <1>15, BusyHas DEF Invalidate, Ended, Holds, Closing, Busy
  <2>5. \A j \in Jobs : ~Closing(j) => ~Closing(j)'
    BY <1>0, <2>1, <2>4 DEF Closing, FreeExec, QueueTypes
  <2>6. QED
    BY <2>2, <2>3, <2>4, <2>5, UsefulStays DEF Working
<1>16. ASSUME NEW w \in Workers, Crash(w)
       PROVE  Useful(k)'
  <2>1. /\ exec' = [exec EXCEPT ![w] = FreeExec] /\ Busy(w)
        /\ UNCHANGED <<row, job>> /\ orphaned \subseteq orphaned'
        /\ Holds(w) \/ exec[w].portion \in orphaned'
    BY <1>16 DEF Crash, Busy
  <2>2. Useful(k)
    BY <2>1 DEF RowsServed, InFlight
  <2>3. \A j \in Jobs : Closing(j)' => Closing(j)
    BY <1>0, <2>1, NoneOfAKind DEF Closing, FreeExec, QueueTypes
  <2>4. CASE k # exec[w].portion
    <3>1. \A v \in Workers : Working(v) /\ exec[v].portion = k => exec'[v] = exec[v]
      BY <1>0, <2>1, <2>4
    <3>2. QED
      BY <2>1, <2>2, <2>3, <3>1, UsefulStays DEF Working
  <2>5. CASE k = exec[w].portion
    <3>1. PICK j \in Jobs : j = exec[w].job
      BY <1>0, <2>1, BusyHas
    <3>2. job[j].portion = k /\ job[j].state = "active" /\ job[j].holder = w
      BY <2>1, <2>5, <3>1 DEF HandsAgree, Holds
    <3>3. exec'[w].pc = "free"
      BY <1>0, <2>1 DEF FreeExec
    <3>4. ~Closing(j)'
      BY <2>1, <3>2, <3>3 DEF Closing
    <3>5. QED
      BY <2>1, <3>2, <3>4 DEF Useful
  <2>6. QED
    BY <2>4, <2>5
<1>17. ASSUME NEW w \in Workers, RaiseEarly(w)
       PROVE  Useful(k)'
  <2>1. /\ exec' = [exec EXCEPT ![w] = FreeExec] /\ exec[w].pc = "begun"
        /\ row' = row /\ orphaned' = orphaned \cup {exec[w].portion}
    BY <1>17 DEF RaiseEarly, Ended
  <2>2. Useful(k) /\ k # exec[w].portion
    BY <2>1 DEF RowsServed, InFlight
  <2>3. \A v \in Workers : Working(v) /\ exec[v].portion = k => exec'[v] = exec[v]
    BY <1>0, <2>1, <2>2
  <2>4. \A j \in Jobs : job[j].portion = k => job'[j] = job[j]
    BY <1>0, <1>17, <2>1, <2>2, BusyHas DEF RaiseEarly, Ended, Holds, HandsAgree, Busy
  <2>5. \A j \in Jobs : job[j].portion = k /\ ~Closing(j) => ~Closing(j)'
    BY <1>0, <2>1, <2>4 DEF Closing, FreeExec, QueueTypes
  <2>6. QED
    BY <2>2, <2>3, <2>4, <2>5, UsefulStays DEF Working
<1>18. QED
  BY <1>11, <1>12, <1>13, <1>14, <1>15, <1>16, <1>17, StepsAreOfAKind DEF Leaves


-----------------------------------------------------------------------------
(* One execution at a time, and what the cached list shows.                *)

OneInHand ==
  \A k \in Portions \ doubled : \A v, w \in Workers :
    Busy(v) /\ Busy(w) /\ exec[v].portion = k /\ exec[w].portion = k => v = w

LEMMA OneInHandNext ==
  ASSUME Types, OneInHand, [Next]_vars
  PROVE  OneInHand'
<1>0. exec \in [Workers -> ExecRow] /\ ExecTypes
  BY DEF Types, ExecTypes
<1>1. CASE Around
  BY <1>1, AroundLeaves DEF OneInHand, Busy
<1>2. ASSUME NEW w \in Workers, Goes(w) \/ Ends(w)
      PROVE  OneInHand'
  BY <1>2 DEF OneInHand, Busy, Goes, Ends, SameHands, Working
<1>3. ASSUME NEW w \in Workers, NEW j \in Jobs, Take(w, j)
      PROVE  OneInHand'
  <2>1. CASE exec' = exec /\ doubled' = doubled
    BY <2>1 DEF OneInHand, Busy
  <2>2. CASE /\ exec' = [exec EXCEPT ![w].pc = "begun", ![w].portion = job[j].portion,
                                     ![w].job = j]
             /\ doubled' = IF InHand(job[j].portion) = {} THEN doubled
                           ELSE doubled \cup {job[j].portion}
    <3>1. /\ \A v \in Workers \ {w} : exec'[v] = exec[v]
          /\ exec'[w].portion = job[j].portion
      BY <1>0, <2>2 DEF ExecRow
    <3>2. doubled \subseteq doubled'
      BY <2>2
    <3>3. job[j].portion \in doubled' \/ \A v \in Workers : Busy(v) => exec[v].portion # job[j].portion
      BY <2>2 DEF InHand, Busy
    <3>4. QED
      BY <3>1, <3>2, <3>3 DEF OneInHand, Busy
  <2>3. QED
    BY <1>3, <2>1, <2>2 DEF Take
<1>4. ASSUME NEW w \in Workers, Leaves(w)
      PROVE  OneInHand'
  <2>1. exec' = [exec EXCEPT ![w] = FreeExec] /\ doubled' = doubled
    BY <1>4 DEF Leaves, Invalidate, RaiseEarly, Ended, Crash
  <2>2. exec'[w].pc = "free" /\ \A v \in Workers \ {w} : exec'[v] = exec[v]
    BY <1>0, <2>1 DEF FreeExec
  <2>3. QED
    BY <2>1, <2>2 DEF OneInHand, Busy
<1>5. QED
  BY <1>1, <1>2, <1>3, <1>4, StepsAreOfAKind

\* An old entry of the cached list is about to go, or is known.
Tidies(w) == exec[w].pc \notin {"free", "begun"}
Shown ==
  cache.is = "filled" =>
    \A k \in cache.old : k \in outdated \/ \E w \in Workers : Tidies(w) /\ exec[w].portion = k

LEMMA ShownNext ==
  ASSUME Types, Shown, [Next]_vars
  PROVE  Shown'
<1>0. exec \in [Workers -> ExecRow] /\ ExecTypes /\ StoreTypes
  BY DEF Types, ExecTypes
<1>1. CASE cache' = NoCache
  BY <1>1 DEF Shown, NoCache
<1>2. CASE UNCHANGED <<cache, outdated>> /\ \A v \in Workers : Tidies(v) => Tidies(v)' /\ exec'[v].portion = exec[v].portion
  BY <1>2 DEF Shown
<1>3. ASSUME NEW r \in Readers, Fill(r)
      PROVE  Shown'
  BY <1>2, <1>3 DEF Fill, Shown, Tidies
<1>4. CASE \/ \E u \in Presses : \/ \E k \in Portions : ReadForPress(u, k)
                                 \/ AddJob(u) \/ WriteQueued(u) \/ LosePress(u)
           \/ \E r \in Readers : ReadRows(r)
           \/ \E w \in Workers : Beat(w)
           \/ \E j \in Jobs : StallJob(j) \/ Lapse(j)
           \/ \E k \in Portions : GoSilent(k)
           \/ \E p \in Pages : Reprocess(p)
           \/ UNCHANGED vars
  <2>1. UNCHANGED <<cache, outdated, exec>>
    BY <1>4 DEF ReadForPress, AddJob, WriteQueued, LosePress, ReadRows, Beat, StallJob,
                Lapse, GoSilent, Reprocess, vars, requests, history
  <2>2. QED
    BY <1>2, <2>1 DEF Tidies
<1>5. CASE \/ \E u \in Presses : DropForPress(u)
           \/ Expire
           \/ \E p \in Pages, k \in Portions \cup {Elsewhere} : MovePage(p, k)
  <2>1. cache' = NoCache \/ UNCHANGED <<cache, outdated, exec>>
    BY <1>5 DEF DropForPress, Expire, MovePage, Drop, DropFails, requests
  <2>2. QED
    BY <1>1, <1>2, <2>1 DEF Tidies
<1>6. CASE Around
  BY <1>3, <1>4, <1>5, <1>6, Zenon DEF Around, Serve
<1>7. ASSUME NEW w \in Workers, Goes(w) \/ Ends(w), UNCHANGED cache
      PROVE  Shown'
  <2>1. \A v \in Workers : Tidies(v) => Tidies(v)' /\ exec'[v].portion = exec[v].portion
    <3>1. \A v \in Workers \ {w} : exec'[v] = exec[v]
      BY <1>7 DEF Goes, Ends
    <3>2. exec'[w].portion = exec[w].portion /\ (Tidies(w) => Tidies(w)')
      BY <1>7 DEF Goes, Ends, SameHands, Tidies, Working
    <3>3. QED
      BY <3>1, <3>2 DEF Tidies
  <2>2. QED
    BY <1>2, <1>7, <2>1 DEF Goes, Ends
<1>8. ASSUME NEW w \in Workers, NEW j \in Jobs, Take(w, j)
      PROVE  Shown'
  <2>1. CASE exec' = exec
    BY <1>2, <1>8, <2>1 DEF Take, Tidies
  <2>2. CASE exec' = [exec EXCEPT ![w].pc = "begun", ![w].portion = job[j].portion, ![w].job = j]
    <3>1. ~Tidies(w) /\ \A v \in Workers \ {w} : exec'[v] = exec[v]
      BY <1>0, <1>8, <2>2 DEF Take, Tidies
    <3>2. QED
      BY <1>2, <1>8, <3>1 DEF Take, Tidies
  <2>3. QED
    BY <1>8, <2>1, <2>2 DEF Take
<1>9. ASSUME NEW w \in Workers, Crash(w)
      PROVE  Shown'
  <2>1. \A v \in Workers \ {w} : exec'[v] = exec[v]
    BY <1>0, <1>9 DEF Crash
  <2>2. cache' = cache /\ outdated' = outdated \cup {exec[w].portion}
    BY <1>9 DEF Crash
  <2>3. QED
    BY <2>1, <2>2 DEF Shown, Tidies
<1>10. ASSUME NEW w \in Workers, NEW rows, Rewrite(exec[w].portion, rows), Goes(w)
       PROVE  Shown'
  <2>1. cache'.is = "filled" => cache.is = "filled" /\ cache'.old = cache.old \cup {exec[w].portion}
    BY <1>0, <1>10 DEF Rewrite, StoreTypes
  <2>2. Tidies(w)' /\ exec'[w].portion = exec[w].portion /\ outdated' = outdated
    BY <1>10 DEF Goes, SameHands, Tidies, Working
  <2>3. \A v \in Workers : Tidies(v) => Tidies(v)' /\ exec'[v].portion = exec[v].portion
    BY <1>10, <2>2 DEF Goes, Tidies
  <2>4. QED
    BY <2>1, <2>2, <2>3 DEF Shown
<1>11. ASSUME NEW w \in Workers,
              \/ SetRunning(w) \/ ReadPages(w) \/ AnswerPage(w) \/ ClearPage(w) \/ SavePage(w)
              \/ Cover(w) \/ NoSection(w) \/ NoRollup(w) \/ WriteReady(w) \/ Raise(w)
       PROVE  Shown'
  <2>1. Goes(w) \/ Ends(w)
    BY <1>11, WorkMoves
  <2>2. UNCHANGED cache
    BY <1>11 DEF SetRunning, ReadPages, AnswerPage, ClearPage, SavePage, Cover, NoSection,
                 NoRollup, WriteReady, Raise
  <2>3. QED
    BY <1>7, <2>1, <2>2
<1>12. ASSUME NEW w \in Workers, DeleteRollups(w) \/ WriteSection(w) \/ WriteRollup(w)
       PROVE  Shown'
  <2>1. \E rows : Rewrite(exec[w].portion, rows)
    BY <1>12, Zenon DEF DeleteRollups, WriteSection, WriteRollup, Insert
  <2>2. Goes(w) \/ Ends(w)
    BY <1>12, WorkMoves
  <2>3. exec'[w].pc # "invalidate"
    <3>1. CASE DeleteRollups(w)
      BY <1>0, <3>1 DEF DeleteRollups
    <3>2. CASE WriteSection(w)
      BY <1>0, <3>2 DEF WriteSection
    <3>3. CASE WriteRollup(w)
      BY <1>0, <3>3 DEF WriteRollup
    <3>4. QED
      BY <1>12, <3>1, <3>2, <3>3
  <2>4. QED
    BY <1>10, <2>1, <2>2, <2>3 DEF Ends
<1>13. ASSUME NEW w \in Workers, Invalidate(w)
       PROVE  Shown'
  <2>1. \A v \in Workers \ {w} : exec'[v] = exec[v]
    BY <1>0, <1>13 DEF Invalidate, Ended
  <2>2. \/ cache' = NoCache
        \/ /\ cache' = cache
           /\ outdated' = outdated \cup ({exec[w].portion} \cap cache.old)
    BY <1>13 DEF Invalidate, Drop, DropFails
  <2>3. QED
    BY <1>1, <2>1, <2>2 DEF Shown, Tidies
<1>14. ASSUME NEW w \in Workers, RaiseEarly(w)
       PROVE  Shown'
  <2>1. /\ exec[w].pc = "begun" /\ \A v \in Workers \ {w} : exec'[v] = exec[v]
        /\ UNCHANGED <<cache, outdated>>
    BY <1>0, <1>14 DEF RaiseEarly, Ended
  <2>2. QED
    BY <2>1 DEF Shown, Tidies
<1>15. QED
  BY <1>5, <1>6, <1>8, <1>9, <1>11, <1>12, <1>13, <1>14, Zenon DEF Next, Work, Around

-----------------------------------------------------------------------------
(* The rollups of a portion, from the delete to the last insert.           *)

Sectioned(rows, left) ==
  /\ \A i \in DOMAIN rows : rows[i].level = "section"
  /\ \A i, j \in DOMAIN rows : i # j => rows[i].of \cap rows[j].of = {}
  /\ \A i \in DOMAIN rows, m \in DOMAIN left : rows[i].of \cap left[m] = {}
  /\ \A m, n \in DOMAIN left : m # n => left[m] \cap left[n] = {}

\* What the rollups of a portion are at each place of its run.
Rolled ==
  \A k \in Portions \ doubled :
    /\ row[k].status \in {"ready", "stale"} => WellRolled(rollup[k])
    /\ \A w \in Workers : exec[w].portion = k =>
         /\ Working(w) => InFlight(k)
         /\ exec[w].pc = "rollup" => Sectioned(rollup[k], exec[w].left)
         /\ exec[w].pc = "ready" => WellRolled(rollup[k])

Rollups == Seq([level: {"section", "portion"}, of: SUBSET Pages])

LEMMA SectionSkipped ==
  ASSUME NEW rows, NEW left \in Seq(SUBSET Pages), left # <<>>, Sectioned(rows, left)
  PROVE  Sectioned(rows, Tail(left))
<1>1. \A m \in DOMAIN Tail(left) : m + 1 \in DOMAIN left /\ Tail(left)[m] = left[m + 1]
  OBVIOUS
<1>2. DOMAIN Tail(left) \subseteq Int
  OBVIOUS
<1>3. \A m, n \in DOMAIN Tail(left) : m # n => m + 1 # n + 1
  BY <1>2
<1>4. QED
  BY <1>1, <1>3 DEF Sectioned

LEMMA SectionAdded ==
  ASSUME NEW rows \in Rollups, NEW left \in Seq(SUBSET Pages), left # <<>>,
         Sectioned(rows, left)
  PROVE  Sectioned(Append(rows, [level |-> "section", of |-> Head(left)]), Tail(left))
<1> DEFINE more == Append(rows, [level |-> "section", of |-> Head(left)])
<1>1. \A m \in DOMAIN Tail(left) : /\ m + 1 \in DOMAIN left /\ Tail(left)[m] = left[m + 1]
                                   /\ m + 1 # 1
  OBVIOUS
<1>2. 1 \in DOMAIN left /\ Head(left) = left[1]
  OBVIOUS
<1>3. \A i \in DOMAIN more :
        \/ i \in DOMAIN rows /\ more[i] = rows[i]
        \/ i = Len(rows) + 1 /\ more[i].level = "section" /\ more[i].of = left[1]
  BY <1>2 DEF Rollups
<1>4. Sectioned(rows, Tail(left))
  BY SectionSkipped
<1>5. \A m \in DOMAIN Tail(left) : left[1] \cap Tail(left)[m] = {}
  BY <1>1, <1>2 DEF Sectioned
<1>6. \A i \in DOMAIN rows : rows[i].of \cap left[1] = {}
  BY <1>2 DEF Sectioned
<1>7. \A i \in DOMAIN more : more[i].level = "section"
  BY <1>3 DEF Sectioned
<1>8. \A i, j \in DOMAIN more : i # j => more[i].of \cap more[j].of = {}
  <2>1. TAKE i, j \in DOMAIN more
  <2>2. HAVE i # j
  <2>3. CASE i \in DOMAIN rows /\ j \in DOMAIN rows /\ more[i] = rows[i] /\ more[j] = rows[j]
    BY <2>2, <2>3 DEF Sectioned
  <2>4. CASE i \in DOMAIN rows /\ more[i] = rows[i] /\ more[j].of = left[1]
    BY <1>6, <2>4
  <2>5. CASE j \in DOMAIN rows /\ more[j] = rows[j] /\ more[i].of = left[1]
    BY <1>6, <2>5
  <2>6. QED
    BY <1>3, <2>2, <2>3, <2>4, <2>5
<1>9. \A i \in DOMAIN more, m \in DOMAIN Tail(left) : more[i].of \cap Tail(left)[m] = {}
  BY <1>3, <1>4, <1>5 DEF Sectioned
<1>10. \A m, n \in DOMAIN Tail(left) : m # n => Tail(left)[m] \cap Tail(left)[n] = {}
  BY <1>4 DEF Sectioned
<1>11. QED
  BY <1>7, <1>8, <1>9, <1>10, Zenon DEF Sectioned

LEMMA PortionAdded ==
  ASSUME NEW rows \in Rollups, NEW left, Sectioned(rows, left), NEW pages
  PROVE  WellRolled(Append(rows, [level |-> "portion", of |-> pages]))
<1> DEFINE more == Append(rows, [level |-> "portion", of |-> pages])
<1>1. \A i \in DOMAIN more :
        \/ i \in DOMAIN rows /\ more[i] = rows[i] /\ i # Len(rows) + 1
        \/ i = Len(rows) + 1 /\ more[i].level = "portion"
  BY DEF Rollups
<1>2. Len(rows) + 1 \in DOMAIN more
  BY DEF Rollups
<1>3. \A j \in DOMAIN more : more[j].level = "portion" <=> j = Len(rows) + 1
  BY <1>1 DEF Sectioned
<1>4. \A i, j \in DOMAIN more :
        i # j /\ more[i].level = "section" /\ more[j].level = "section" =>
          more[i].of \cap more[j].of = {}
  BY <1>1, <1>3 DEF Sectioned
<1>5. QED
  BY <1>2, <1>3, <1>4, Zenon DEF WellRolled

\* A step of one execution, seen from the portions it has in hand.
LEMMA RolledByOne ==
  ASSUME Types, OneInHand, Rolled, NEW w \in Workers, Busy(w),
         doubled' = doubled, \A v \in Workers \ {w} : exec'[v] = exec[v],
         exec'[w].portion = exec[w].portion \/ exec'[w] = FreeExec,
         \A l \in Portions \ {exec[w].portion} : row'[l] = row[l] /\ rollup'[l] = rollup[l],
         NEW k, k = exec[w].portion,
         k \notin doubled =>
           /\ row'[k].status \in {"ready", "stale"} => WellRolled(rollup'[k])
           /\ Working(w)' => InFlight(k)'
           /\ exec'[w].pc = "rollup" => Sectioned(rollup'[k], exec'[w].left)
           /\ exec'[w].pc = "ready" => WellRolled(rollup'[k])
  PROVE  Rolled'
<1>1. SUFFICES ASSUME NEW l \in Portions \ doubled
               PROVE  /\ row'[l].status \in {"ready", "stale"} => WellRolled(rollup'[l])
                      /\ \A v \in Workers : exec'[v].portion = l =>
                           /\ Working(v)' => row'[l].status \in {"queued", "running"}
                           /\ exec'[v].pc = "rollup" => Sectioned(rollup'[l], exec'[v].left)
                           /\ exec'[v].pc = "ready" => WellRolled(rollup'[l])
  BY DEF Rolled, InFlight
<1>2. CASE l = exec[w].portion
  <2>1. \A v \in Workers \ {w} : exec'[v].portion = l => exec'[v].pc = "free"
    BY <1>1, <1>2 DEF OneInHand, Busy
  <2>2. Working(w)' => row'[l].status \in {"queued", "running"}
    BY <1>1, <1>2 DEF InFlight
  <2>3. QED
    BY <1>1, <1>2, <2>1, <2>2 DEF Working
<1>3. CASE l # exec[w].portion
  <2>1. row'[l] = row[l] /\ rollup'[l] = rollup[l]
    BY <1>1, <1>3
  <2>2. exec'[w].portion = l => exec'[w].pc = "free"
    BY <1>3 DEF FreeExec
  <2>3. row[l].status \in {"ready", "stale"} => WellRolled(rollup[l])
    BY <1>1 DEF Rolled
  <2>4. \A v \in Workers \ {w} : exec'[v].portion = l =>
          /\ Working(v)' => row[l].status \in {"queued", "running"}
          /\ exec'[v].pc = "rollup" => Sectioned(rollup[l], exec'[v].left)
          /\ exec'[v].pc = "ready" => WellRolled(rollup[l])
    BY <1>1 DEF Rolled, InFlight, Working
  <2>5. QED
    BY <2>1, <2>2, <2>3, <2>4 DEF Working
<1>4. QED
  BY <1>2, <1>3

\* Everybody else neither ends a run nor gives a portion a summary.
LEMMA RowsMoveAround ==
  ASSUME Types, Around, NEW k \in Portions
  PROVE  /\ row'[k].status \in {"ready", "stale"} => row[k].status \in {"ready", "stale"}
         /\ row[k].status \in {"queued", "running"} => row'[k].status \in {"queued", "running"}
<1>0. RowTypes /\ QueueTypes /\ DOMAIN row = Portions
  BY DEF Types, RowTypes
<1>1. CASE \E u \in Presses : WriteQueued(u)
  BY <1>0, <1>1 DEF WriteQueued, SetStatus
<1>2. CASE (\E w \in Workers : Beat(w)) \/ \E l \in Portions : GoSilent(l)
  <2>1. PICK l : row' = [row EXCEPT ![l].heart = "beats"] \/ row' = [row EXCEPT ![l].heart = "silent"]
    BY <1>2 DEF Beat, GoSilent
  <2>2. row'[k].status = row[k].status
    BY <1>0, <2>1 DEF RowTypes
  <2>3. QED
    BY <2>2
<1>3. ASSUME NEW p \in Pages, NEW l \in Portions \cup {Elsewhere}, MovePage(p, l)
      PROVE  row'[k].status = row[k].status \/ (row[k].status = "ready" /\ row'[k].status = "stale")
  <2>1. PICK changed : row' = [i \in Portions |-> IF i \in changed /\ row[i].status = "ready"
                                  THEN [row[i] EXCEPT !.status = "stale"] ELSE row[i]]
    BY <1>3 DEF MovePage
  <2>2. row'[k] = row[k] \/ (row[k].status = "ready" /\ row'[k] = [row[k] EXCEPT !.status = "stale"])
    BY <2>1
  <2>3. QED
    BY <1>0, <2>2 DEF RowTypes
<1>4. CASE \/ \E u \in Presses : \/ \E l \in Portions : ReadForPress(u, l)
                                 \/ AddJob(u) \/ DropForPress(u) \/ LosePress(u)
           \/ \E r \in Readers : ReadRows(r) \/ Fill(r)
           \/ Expire
           \/ \E j \in Jobs : StallJob(j) \/ Lapse(j)
           \/ \E p \in Pages : Reprocess(p)
           \/ UNCHANGED vars
  <2>1. row' = row
    BY <1>4 DEF ReadForPress, AddJob, DropForPress, LosePress, ReadRows, Fill, Expire,
                StallJob, Lapse, Reprocess, vars
  <2>2. QED
    BY <2>1
<1>5. QED
  BY <1>1, <1>2, <1>3, <1>4, Zenon DEF Around, Serve

LEMMA PcAfter ==
  ASSUME ExecTypes, NEW w \in Workers,
         \/ SetRunning(w) \/ ReadPages(w) \/ AnswerPage(w) \/ ClearPage(w) \/ SavePage(w)
         \/ Cover(w) \/ NoRollup(w) \/ WriteReady(w) \/ Raise(w)
  PROVE  exec'[w].pc \notin {"rollup", "ready"}
<1>0. exec \in [Workers -> ExecRow] /\ exec[w] \in ExecRow
  BY DEF ExecTypes
<1>1. CASE Quits(w)
  BY <1>0, <1>1 DEF Quits, FreeExec
<1>2. CASE SetRunning(w) \/ ClearPage(w) \/ WriteReady(w)
  <2>1. PICK pc \in {"read", "save", "invalidate"} : exec' = [exec EXCEPT ![w].pc = pc]
    BY <1>2 DEF SetRunning, ClearPage, WriteReady, Goto
  <2>2. QED
    BY <1>0, <2>1 DEF ExecRow
<1>3. CASE ReadPages(w) /\ ~Fails(w)
  <2>1. PICK todo, had, of : exec' = [exec EXCEPT ![w].pc = "pages", ![w].todo = todo,
                                        ![w].had = had, ![w].of = of]
    BY <1>3 DEF ReadPages
  <2>2. QED
    BY <1>0, <2>1 DEF ExecRow
<1>4. CASE AnswerPage(w)
  <2>1. PICK p \in exec[w].todo :
          /\ exec[w].pc = "pages" /\ p \in Pages
          /\ \/ \E of \in {exec[w].of[p], Uncited} :
                  exec' = [exec EXCEPT ![w] = Answered(exec[w], p, of)]
             \/ exec' = [exec EXCEPT ![w].todo = @ \ {p}]
    BY <1>4, AnswersOne
  <2>2. CASE exec' = [exec EXCEPT ![w].todo = @ \ {p}]
    BY <1>0, <2>1, <2>2 DEF ExecRow
  <2>3. ASSUME NEW of \in {exec[w].of[p], Uncited},
               exec' = [exec EXCEPT ![w] = Answered(exec[w], p, of)]
        PROVE  exec'[w].pc \notin {"rollup", "ready"}
    <3>1. of \in Nat /\ Fits(exec[w])
      BY <1>0, <2>1, <2>3, BusyHas DEF ExecRow, Uncited
    <3>2. QED
      BY <1>0, <2>1, <2>3, <3>1, AnsweredFits
  <2>4. QED
    BY <2>1, <2>2, <2>3
<1>5. CASE SavePage(w)
  BY <1>0, <1>5 DEF SavePage, ExecRow
<1>6. CASE Cover(w) /\ ~Fails(w)
  <2>1. PICK covered : exec' = [exec EXCEPT ![w].pc = "delete", ![w].covered = covered,
                                  ![w].had = {}, ![w].of = FreeExec.of]
    BY <1>6 DEF Cover
  <2>2. QED
    BY <1>0, <2>1 DEF ExecRow
<1>7. QED
  BY <1>1, <1>2, <1>3, <1>4, <1>5, <1>6 DEF Fails, NoRollup, Raise

LEMMA RolledNext ==
  ASSUME Types, OneInHand, Rolled, [Next]_vars
  PROVE  Rolled'
<1>0. /\ exec \in [Workers -> ExecRow] /\ ExecTypes /\ StoreTypes /\ RowTypes
      /\ DOMAIN row = Portions /\ DOMAIN rollup = Portions
  BY DEF Types, ExecTypes, StoreTypes, RowTypes
<1>1. CASE Around
  <2>1. UNCHANGED <<rollup, exec, doubled>>
    BY <1>1, AroundLeaves
  <2>2. \A k \in Portions : row'[k].status \in {"ready", "stale"} =>
          row[k].status \in {"ready", "stale"}
    BY <1>1, RowsMoveAround
  <2>3. \A k \in Portions : row[k].status \in {"queued", "running"} =>
          row'[k].status \in {"queued", "running"}
    BY <1>1, RowsMoveAround
  <2>4. QED
    BY <2>1, <2>2, <2>3 DEF Rolled, InFlight, Working
<1>2. ASSUME NEW w \in Workers, NEW j \in Jobs, Take(w, j)
      PROVE  Rolled'
  <2>1. UNCHANGED <<row, rollup>> /\ doubled \subseteq doubled'
    BY <1>2 DEF Take
  <2>2. CASE exec' = exec
    BY <2>1, <2>2 DEF Rolled, InFlight, Working
  <2>3. CASE /\ exec' = [exec EXCEPT ![w].pc = "begun", ![w].portion = job[j].portion,
                                     ![w].job = j]
             /\ Requested(job[j].portion)
    <3>1. /\ \A v \in Workers \ {w} : exec'[v] = exec[v]
          /\ exec'[w].pc = "begun" /\ exec'[w].portion = job[j].portion
      BY <1>0, <2>3 DEF ExecRow
    <3>2. InFlight(job[j].portion)
      BY <2>3 DEF Requested
    <3>3. QED
      BY <2>1, <3>1, <3>2 DEF Rolled, InFlight, Working
  <2>4. QED
    BY <1>2, <2>2, <2>3 DEF Take
<1>3. ASSUME NEW w \in Workers, Leaves(w)
      PROVE  Rolled'
  <2>1. exec' = [exec EXCEPT ![w] = FreeExec] /\ UNCHANGED <<row, rollup, doubled>>
    BY <1>3 DEF Leaves, Invalidate, RaiseEarly, Ended, Crash
  <2>2. exec'[w].pc = "free" /\ \A v \in Workers \ {w} : exec'[v] = exec[v]
    BY <1>0, <2>1 DEF FreeExec
  <2>3. QED
    BY <2>1, <2>2 DEF Rolled, InFlight, Working
<1>4. ASSUME NEW w \in Workers, Ends(w)
      PROVE  Rolled'
  <2>1. PICK k \in Portions : k = exec[w].portion /\ Busy(w)
    BY <1>0, <1>4, BusyHas DEF Ends, Working, Busy
  <2>2. /\ \/ row'[k].status = "failed"
           \/ row'[k].status = "ready" /\ exec[w].pc = "ready"
           \/ row'[k] = row[k]
        /\ \A l \in Portions \ {k} : row'[l] = row[l]
    BY <1>0, <1>4, <2>1 DEF Ends
  <2>4. rollup' = rollup /\ doubled' = doubled /\ exec'[w].pc = "invalidate"
        /\ exec'[w].portion = exec[w].portion /\ \A v \in Workers \ {w} : exec'[v] = exec[v]
    BY <1>4 DEF Ends, SameHands
  <2>5. k \notin doubled /\ row'[k].status \in {"ready", "stale"} => WellRolled(rollup'[k])
    BY <2>1, <2>2, <2>4 DEF Rolled
  <2>6. QED
    BY <2>1, <2>2, <2>4, <2>5, RolledByOne DEF Working
<1>5. ASSUME NEW w \in Workers, Goes(w), NEW k \in Portions, k = exec[w].portion,
             \A l \in Portions \ {k} : rollup'[l] = rollup[l],
             k \notin doubled =>
               /\ exec'[w].pc = "rollup" => Sectioned(rollup'[k], exec'[w].left)
               /\ exec'[w].pc = "ready" => WellRolled(rollup'[k])
      PROVE  Rolled'
  <2>1. Busy(w)
    BY <1>5 DEF Goes, Working, Busy
  <2>2. doubled' = doubled /\ exec'[w].portion = exec[w].portion
        /\ \A v \in Workers \ {w} : exec'[v] = exec[v]
    BY <1>5 DEF Goes, SameHands
  <2>3. \A l \in Portions \ {k} : row'[l] = row[l]
    BY <1>0, <1>5 DEF Goes
  <2>4. k \notin doubled => row'[k].status \in {"queued", "running"}
    <3>1. k \notin doubled => row[k].status \in {"queued", "running"}
      BY <1>5 DEF Goes, Rolled, InFlight
    <3>2. QED
      BY <1>0, <1>5, <3>1 DEF Goes
  <2>5. k \notin doubled => InFlight(k)' /\ row'[k].status \notin {"ready", "stale"}
    BY <2>4 DEF InFlight
  <2>6. QED
    BY <1>5, <2>1, <2>2, <2>3, <2>5, RolledByOne
<1>6. ASSUME NEW w \in Workers, Goes(w), rollup' = rollup,
             exec'[w].pc \notin {"rollup", "ready"}
      PROVE  Rolled'
  <2>1. exec[w].portion \in Portions
    BY <1>0, <1>6, BusyHas DEF Goes, Working, Busy
  <2>2. QED
    BY <1>5, <1>6, <2>1
<1>7. ASSUME NEW w \in Workers,
             \/ SetRunning(w) \/ ReadPages(w) \/ AnswerPage(w) \/ ClearPage(w) \/ SavePage(w)
             \/ Cover(w) \/ NoRollup(w) \/ WriteReady(w) \/ Raise(w)
      PROVE  Rolled'
  <2>1. Goes(w) \/ Ends(w)
    BY <1>7, WorkMoves
  <2>2. rollup' = rollup
    BY <1>7 DEF SetRunning, ReadPages, AnswerPage, ClearPage, SavePage, Cover, NoRollup,
                WriteReady, Raise
  <2>3. exec'[w].pc \notin {"rollup", "ready"}
    BY <1>0, <1>7, PcAfter
  <2>4. QED
    BY <1>4, <1>6, <2>1, <2>2, <2>3
<1>8. ASSUME NEW w \in Workers, DeleteRollups(w)
      PROVE  Rolled'
  <2>1. Goes(w) \/ Ends(w)
    BY <1>8, WorkMoves
  <2>2. PICK k \in Portions : k = exec[w].portion
    BY <1>0, <1>8, BusyHas DEF DeleteRollups, Busy
  <2>3. exec'[w].pc = "rollup" /\ exec'[w].left = Sections(exec[w].covered)
    BY <1>0, <1>8 DEF DeleteRollups, ExecRow
  <2>4. rollup'[k] = <<>> /\ \A l \in Portions \ {k} : rollup'[l] = rollup[l]
    BY <1>0, <1>8, <2>2 DEF DeleteRollups, Rewrite
  <2>5. Sectioned(<<>>, Sections(exec[w].covered))
    BY <1>0, SectionsApart DEF Sectioned, ExecRow
  <2>6. Goes(w)
    BY <2>1, <2>3 DEF Ends
  <2>7. QED
    BY <1>5, <2>2, <2>3, <2>4, <2>5, <2>6
<1>9. ASSUME NEW w \in Workers, WriteSection(w)
      PROVE  Rolled'
  <2>1. Goes(w) \/ Ends(w)
    BY <1>9, WorkMoves
  <2>2. PICK k \in Portions : k = exec[w].portion
    BY <1>0, <1>9, BusyHas DEF WriteSection, Busy
  <2>3. /\ exec'[w].pc = "rollup" /\ exec'[w].left = Tail(exec[w].left)
        /\ exec[w].left # <<>> /\ exec[w].left \in Seq(SUBSET Pages) /\ exec[w].pc = "rollup"
    BY <1>0, <1>9 DEF WriteSection, ExecRow
  <2>4. /\ rollup'[k] = Append(rollup[k], [level |-> "section", of |-> Head(exec[w].left)])
        /\ \A l \in Portions \ {k} : rollup'[l] = rollup[l]
    BY <1>0, <1>9, <2>2 DEF WriteSection, Insert, Rewrite
  <2>5. k \notin doubled => Sectioned(rollup'[k], exec'[w].left)
    <3>1. rollup[k] \in Rollups
      BY <1>0, <2>2 DEF StoreTypes, Rollups
    <3>2. k \notin doubled => Sectioned(rollup[k], exec[w].left)
      BY <2>2, <2>3 DEF Rolled
    <3>3. QED
      BY <2>3, <2>4, <3>1, <3>2, SectionAdded
  <2>6. Goes(w)
    BY <2>1, <2>3 DEF Ends
  <2>7. QED
    BY <1>5, <2>2, <2>3, <2>4, <2>5, <2>6
<1>10. ASSUME NEW w \in Workers, NoSection(w)
       PROVE  Rolled'
  <2>1. Goes(w) \/ Ends(w)
    BY <1>10, WorkMoves
  <2>2. PICK k \in Portions : k = exec[w].portion
    BY <1>0, <1>10, BusyHas DEF NoSection, Busy
  <2>3. /\ exec'[w].pc = "rollup" /\ exec'[w].left = Tail(exec[w].left)
        /\ exec[w].left # <<>> /\ exec[w].left \in Seq(SUBSET Pages) /\ exec[w].pc = "rollup"
    BY <1>0, <1>10 DEF NoSection, ExecRow
  <2>4. rollup' = rollup
    BY <1>10 DEF NoSection
  <2>5. k \notin doubled => Sectioned(rollup'[k], exec'[w].left)
    <3>1. k \notin doubled => Sectioned(rollup[k], exec[w].left)
      BY <2>2, <2>3 DEF Rolled
    <3>2. QED
      BY <2>3, <2>4, <3>1, SectionSkipped
  <2>6. Goes(w)
    BY <2>1, <2>3 DEF Ends
  <2>7. QED
    BY <1>5, <2>2, <2>3, <2>4, <2>5, <2>6
<1>11. ASSUME NEW w \in Workers, WriteRollup(w)
       PROVE  Rolled'
  <2>1. Goes(w) \/ Ends(w)
    BY <1>11, WorkMoves
  <2>2. PICK k \in Portions : k = exec[w].portion
    BY <1>0, <1>11, BusyHas DEF WriteRollup, Busy
  <2>3. exec'[w].pc = "ready" /\ exec[w].pc = "rollup"
    BY <1>0, <1>11 DEF WriteRollup, ExecRow
  <2>4. /\ rollup'[k] = Append(rollup[k], [level |-> "portion", of |-> exec[w].covered])
        /\ \A l \in Portions \ {k} : rollup'[l] = rollup[l]
    BY <1>0, <1>11, <2>2 DEF WriteRollup, Insert, Rewrite
  <2>5. k \notin doubled => WellRolled(rollup'[k])
    <3>1. rollup[k] \in Rollups
      BY <1>0, <2>2 DEF StoreTypes, Rollups
    <3>2. k \notin doubled => Sectioned(rollup[k], exec[w].left)
      BY <2>2, <2>3 DEF Rolled
    <3>3. QED
      BY <2>4, <3>1, <3>2, PortionAdded
  <2>6. Goes(w)
    BY <2>1, <2>3 DEF Ends
  <2>7. QED
    BY <1>5, <2>2, <2>3, <2>4, <2>5, <2>6
<1>12. QED
  BY <1>1, <1>2, <1>3, <1>7, <1>8, <1>9, <1>10, <1>11, Zenon DEF Next, Work, Around, Leaves

-----------------------------------------------------------------------------
(* What a page was paid for.                                               *)

OneBuys ==
  /\ \A w \in Workers : exec[w].answer \notin exec[w].todo
  /\ \A p \in Pages \ shared : \A v, w \in Workers :
       Buying(v, p) /\ Buying(w, p) => v = w

\* What a page can still be paid for without a loss, but once more: what is on file, ...
Version(p) ==
  IF paged[p] = <<>> \/ paged[p][1] = Uncited THEN page[p].chunks ELSE 1 + paged[p][1]

\* ... what an execution took its chunks for, ...
Ordered(w, p) == IF exec[w].of[p] = Uncited THEN page[p].chunks ELSE exec[w].of[p]

\* ... and an answer in hand.
Due(p) == IF \E w \in Workers : exec[w].answer = p /\ exec[w].of[p] # Uncited THEN 1 ELSE 0

\* What was paid for a page, by what is on file, in hand and lost.
PageBought(p) ==
  /\ Len(paged[p]) <= 1
  /\ paged[p] # <<>> => paged[p][1] <= page[p].chunks
  /\ paid[p] + 1 <= lost[p] + Due(p) + Version(p)
  /\ \A w \in Workers : Buying(w, p) =>
       /\ exec[w].of[p] <= page[p].chunks
       /\ exec[w].answer # p => exec[w].of[p] # Uncited
       /\ paid[p] + 1 <= lost[p] + Due(p) + Ordered(w, p)
       /\ p \notin exec[w].had => paged[p] = <<>>
       /\ exec[w].pc = "save" /\ exec[w].answer = p => paged[p] = <<>>

Bought == \A p \in Pages \ shared : PageBought(p)

LEMMA PageTypes ==
  ASSUME Types, NEW p \in Pages
  PROVE  /\ paged[p] \in Seq(Nat) /\ page[p].chunks \in Nat /\ paid[p] \in Nat /\ lost[p] \in Nat
         /\ Due(p) \in {0, 1} /\ \A w \in Workers : exec[w].of[p] \in Nat
         /\ paged[p] # <<>> => paged[p][1] \in Nat
         /\ Version(p) \in Nat /\ \A w \in Workers : Ordered(w, p) \in Nat
<1>1. /\ paged[p] \in Seq(Nat) /\ page[p].chunks \in Nat /\ paid[p] \in Nat /\ lost[p] \in Nat
  BY DEF Types, StoreTypes, RowTypes, CountTypes
<1>2. \A w \in Workers : exec[w].of[p] \in Nat
  BY DEF Types, ExecTypes, ExecRow
<1>3. paged[p] # <<>> => paged[p][1] \in Nat
  BY <1>1
<1>4. Due(p) \in {0, 1} /\ Version(p) \in Nat
  BY <1>1, <1>3 DEF Due, Version
<1>5. \A w \in Workers : Ordered(w, p) \in Nat
  BY <1>1, <1>2 DEF Ordered
<1>6. QED
  BY <1>1, <1>2, <1>3, <1>4, <1>5

\* A page nobody does anything about, but to have more chunks.
LEMMA PageLeft ==
  ASSUME Types, Types', NEW p \in Pages, PageBought(p),
         paged'[p] = paged[p], paid'[p] = paid[p], lost'[p] = lost[p],
         page'[p].chunks >= page[p].chunks,
         \A v \in Workers : exec'[v].answer = p <=> exec[v].answer = p,
         \A v \in Workers : Buying(v, p)' =>
           /\ Buying(v, p) /\ exec'[v].of[p] = exec[v].of[p]
           /\ p \in exec[v].had <=> p \in exec'[v].had
           /\ exec'[v].pc = "save" /\ exec'[v].answer = p => exec[v].pc = "save"
  PROVE  PageBought(p)'
<1>1. Due(p)' = Due(p)
  <2>1. \A v \in Workers : exec'[v].answer = p => exec'[v].of[p] = exec[v].of[p]
    BY DEF Buying
  <2>2. QED
    BY <2>1 DEF Due
<1>2. /\ page[p].chunks \in Nat /\ page'[p].chunks \in Nat /\ paid[p] \in Nat /\ lost[p] \in Nat
      /\ Due(p) \in Nat /\ \A v \in Workers : exec[v].of[p] \in Nat
      /\ paged[p] # <<>> => paged[p][1] \in Nat
  <2>1. page'[p].chunks \in Nat
    BY DEF Types, RowTypes
  <2>2. QED
    BY <2>1, PageTypes
<1>3. Version(p)' >= Version(p) /\ Version(p) \in Nat /\ Version(p)' \in Nat
  BY <1>2 DEF Version
<1>4. Len(paged'[p]) <= 1 /\ (paged'[p] # <<>> => paged'[p][1] <= page'[p].chunks)
  BY <1>2 DEF PageBought
<1>5. paid'[p] + 1 <= lost'[p] + Due(p)' + Version(p)'
  BY <1>1, <1>2, <1>3 DEF PageBought
<1>6. ASSUME NEW v \in Workers, Buying(v, p)'
      PROVE  /\ exec'[v].of[p] <= page'[p].chunks
             /\ exec'[v].answer # p => exec'[v].of[p] # Uncited
             /\ paid'[p] + 1 <= lost'[p] + Due(p)' + Ordered(v, p)'
             /\ p \notin exec'[v].had => paged'[p] = <<>>
             /\ exec'[v].pc = "save" /\ exec'[v].answer = p => paged'[p] = <<>>
  <2>1. Buying(v, p) /\ exec'[v].of[p] = exec[v].of[p]
    BY <1>6
  <2>2. /\ exec[v].of[p] <= page[p].chunks
        /\ exec[v].answer # p => exec[v].of[p] # Uncited
        /\ paid[p] + 1 <= lost[p] + Due(p) + Ordered(v, p)
    BY <2>1 DEF PageBought
  <2>3. Ordered(v, p)' >= Ordered(v, p) /\ Ordered(v, p) \in Nat /\ Ordered(v, p)' \in Nat
    BY <1>2, <2>1 DEF Ordered
  <2>4. paid'[p] + 1 <= lost'[p] + Due(p)' + Ordered(v, p)'
    BY <1>1, <1>2, <2>2, <2>3
  <2>5. /\ exec'[v].of[p] <= page'[p].chunks
        /\ exec'[v].answer # p => exec'[v].of[p] # Uncited
    BY <1>2, <2>1, <2>2
  <2>6. /\ p \notin exec'[v].had => paged'[p] = <<>>
        /\ exec'[v].pc = "save" /\ exec'[v].answer = p => paged'[p] = <<>>
    BY <1>6, <2>1 DEF PageBought
  <2>7. QED
    BY <2>4, <2>5, <2>6
<1>7. QED
  BY <1>4, <1>5, <1>6 DEF PageBought

\* An execution that goes on with the pages it has, or has none.
LEMMA PagesKept ==
  ASSUME Types, Types', OneBuys, Bought, NEW w \in Workers,
         \A v \in Workers \ {w} : exec'[v] = exec[v],
         exec'[w].todo = exec[w].todo, exec'[w].answer = exec[w].answer,
         \A p \in Pages : Buying(w, p) =>
           exec'[w].of = exec[w].of /\ exec'[w].had = exec[w].had,
         exec'[w].pc = "save" => exec[w].pc = "save",
         UNCHANGED <<page, paged, paid, lost, shared>>
  PROVE  OneBuys' /\ Bought'
<1>1. \A v \in Workers, p \in Pages : Buying(v, p)' <=> Buying(v, p)
  BY DEF Buying
<1>2. OneBuys'
  BY <1>1 DEF OneBuys
<1>3. ASSUME NEW p \in Pages \ shared
      PROVE  PageBought(p)'
  <2>1. PageBought(p)
    BY DEF Bought
  <2>2. page'[p].chunks >= page[p].chunks
    BY PageTypes
  <2>3. QED
    BY <1>1, <2>1, <2>2, PageLeft
<1>4. QED
  BY <1>2, <1>3 DEF Bought

\* An execution that lets go of its pages.
LEMMA PagesDropped ==
  ASSUME Types, Types', OneBuys, Bought, NEW w \in Workers,
         \A v \in Workers \ {w} : exec'[v] = exec[v],
         exec'[w].todo = {}, exec'[w].answer = 0, lost' = Wasted(w),
         UNCHANGED <<page, paged, paid, shared>>
  PROVE  OneBuys' /\ Bought'
<1>0. lost \in [Pages -> Nat] /\ Fits(exec[w])
  BY BusyHas DEF Types, CountTypes
<1>1. \A v \in Workers, p \in Pages : Buying(v, p)' => v # w /\ Buying(v, p)
  BY PageNumbers DEF Buying
<1>2. OneBuys'
  <2>1. \A v \in Workers : exec'[v].answer \notin exec'[v].todo
    BY DEF OneBuys
  <2>2. QED
    BY <1>1, <2>1 DEF OneBuys
<1>3. ASSUME NEW p \in Pages \ shared
      PROVE  PageBought(p)'
  <2>1. PageBought(p)
    BY DEF Bought
  <2>2. CASE exec[w].answer # p
    <3>1. lost'[p] = lost[p]
      BY <1>0, <2>2 DEF Wasted
    <3>2. \A v \in Workers : exec'[v].answer = p <=> exec[v].answer = p
      BY <2>2, PageNumbers
    <3>3. page'[p].chunks >= page[p].chunks
      BY PageTypes
    <3>4. \A v \in Workers : Buying(v, p)' => exec'[v] = exec[v] /\ Buying(v, p)
      BY <1>1
    <3>5. QED
      BY <2>1, <3>1, <3>2, <3>3, <3>4, PageLeft
  <2>3. CASE exec[w].answer = p
    <3>1. exec[w].pc \in {"clear", "save"}
      BY <1>0, <2>3, PageNumbers DEF Fits
    <3>2. Buying(w, p) /\ \A v \in Workers \ {w} : ~Buying(v, p)
      BY <2>3 DEF Buying, OneBuys
    <3>3. \A v \in Workers : ~Buying(v, p)'
      BY <1>1, <3>2
    <3>4. Due(p)' = 0
      BY <3>3 DEF Due, Buying
    <3>5. lost'[p] = lost[p] + Due(p)
      <4>1. CASE Cited(w)
        <5>1. Due(p) = 1
          BY <2>3, <4>1 DEF Due, Cited
        <5>2. QED
          BY <1>0, <2>3, <3>1, <4>1, <5>1 DEF Wasted
      <4>2. CASE ~Cited(w)
        <5>1. \A v \in Workers : ~(exec[v].answer = p /\ exec[v].of[p] # Uncited)
          BY <2>3, <3>2, <4>2 DEF Buying, Cited
        <5>2. Due(p) = 0
          BY <5>1 DEF Due
        <5>3. QED
          BY <1>0, <4>2, <5>2 DEF Wasted
      <4>3. QED
        BY <4>1, <4>2
    <3>6. Version(p)' = Version(p)
      BY DEF Version
    <3>7. paid'[p] + 1 <= lost'[p] + Due(p)' + Version(p)'
      BY <2>1, <3>4, <3>5, <3>6, PageTypes DEF PageBought
    <3>8. QED
      BY <2>1, <3>3, <3>7 DEF PageBought
  <2>4. QED
    BY <2>2, <2>3
<1>4. QED
  BY <1>2, <1>3 DEF Bought

LEMMA PagesRead ==
  ASSUME Types, Types', OneBuys, Bought, NEW w \in Workers, ReadPages(w)
  PROVE  OneBuys' /\ Bought'
<1>0. /\ exec \in [Workers -> ExecRow] /\ exec[w] \in ExecRow /\ Fits(exec[w])
      /\ exec[w].pc = "read" /\ exec[w].todo = {} /\ exec[w].answer = 0
      /\ UNCHANGED <<page, paged, paid, lost>>
  BY BusyHas DEF Types, ExecTypes, ReadPages, Fits
<1>1. CASE Fails(w) /\ shared' = shared
  <2>1. /\ \A v \in Workers \ {w} : exec'[v] = exec[v]
        /\ exec'[w].todo = {} /\ exec'[w].answer = 0
    BY <1>0, <1>1 DEF Fails, Quits, FreeExec
  <2>2. QED
    BY <1>0, <1>1, <2>1, PagesDropped DEF Wasted
<1> DEFINE pages == PagesOf(exec[w].portion)
           todo == {p \in pages : NeedsSummary(p)}
           had == {p \in pages : paged[p] # <<>>}
           of == [p \in Pages |-> page[p].chunks]
<1>2. CASE /\ exec' = [exec EXCEPT ![w].pc = "pages", ![w].todo = todo, ![w].had = had,
                                   ![w].of = of]
           /\ shared' = shared \cup {p \in todo : \E v \in Workers \ {w} : Buying(v, p)}
  <2>1. /\ \A v \in Workers \ {w} : exec'[v] = exec[v]
        /\ exec'[w].todo = todo /\ exec'[w].had = had /\ exec'[w].of = of
        /\ exec'[w].pc = "pages" /\ exec'[w].answer = 0
    <3> HIDE DEF todo, had, of
    <3>1. QED
      BY <1>0, <1>2 DEF ExecRow
  <2>2. \A p \in Pages : Buying(w, p)' <=> p \in todo
    BY <2>1, PageNumbers DEF Buying
  <2>3. \A p \in Pages : ~Buying(w, p)
    BY <1>0, PageNumbers DEF Buying
  <2>4. \A p \in Pages, v \in Workers \ {w} : Buying(v, p)' <=> Buying(v, p)
    BY <2>1 DEF Buying
  <2>5. \A p \in todo \ shared' : \A v \in Workers \ {w} : ~Buying(v, p)
    BY <1>2
  <2>6. shared \subseteq shared'
    BY <1>2
  <2>7. OneBuys'
    <3>1. \A v \in Workers : exec'[v].answer \notin exec'[v].todo
      BY <2>1, PageNumbers DEF OneBuys, PagesOf
    <3>2. \A p \in Pages \ shared' : \A v, u \in Workers : Buying(v, p)' /\ Buying(u, p)' => v = u
      BY <2>2, <2>4, <2>5, <2>6 DEF OneBuys
    <3>3. QED
      BY <3>1, <3>2 DEF OneBuys
  <2>8. ASSUME NEW p \in Pages \ shared'
        PROVE  PageBought(p)'
    <3>1. PageBought(p)
      BY <2>6 DEF Bought
    <3>2. Due(p)' = Due(p) /\ Version(p)' = Version(p)
      <4>1. \A v \in Workers : exec'[v].answer = exec[v].answer
        BY <1>0, <2>1
      <4>2. \A v \in Workers : exec'[v].answer = p => exec'[v] = exec[v]
        BY <1>0, <2>1, PageNumbers
      <4>3. QED
        BY <1>0, <4>1, <4>2 DEF Due, Version
    <3>3. p \in todo => paid[p] + 1 <= lost[p] + Due(p) + page[p].chunks
      <4>1. CASE paged[p] = <<>>
        BY <3>1, <4>1 DEF PageBought, Version
      <4>2. CASE paged[p] # <<>> /\ p \in todo
        <5>1. paged[p] \in Seq(Nat) /\ Len(paged[p]) <= 1
          BY <3>1, PageTypes DEF PageBought
        <5>2. Len(paged[p]) = 1
          <6>1. \A s \in Seq(Nat) : s # <<>> => Len(s) # 0 /\ Len(s) \in Nat
            OBVIOUS
          <6>2. Len(paged[p]) # 0 /\ Len(paged[p]) \in Nat
            BY <4>2, <5>1, <6>1
          <6>3. \A n \in Nat : n # 0 /\ n <= 1 => n = 1
            OBVIOUS
          <6>4. QED
            BY <5>1, <6>2, <6>3, Zenon
        <5>3. paged[p][1] # page[p].chunks
          BY <4>2, <5>2 DEF NeedsSummary
        <5>4. Version(p) <= page[p].chunks
          BY <3>1, <4>2, <5>3, PageTypes DEF PageBought, Version
        <5>5. QED
          BY <3>1, <5>4, PageTypes DEF PageBought
      <4>3. QED
        BY <4>1, <4>2
    <3>4. p \in todo => (p \notin had => paged[p] = <<>>)
      OBVIOUS
    <3>5. ASSUME NEW v \in Workers, Buying(v, p)'
          PROVE  /\ exec'[v].of[p] <= page'[p].chunks
                 /\ exec'[v].answer # p => exec'[v].of[p] # Uncited
                 /\ paid'[p] + 1 <= lost'[p] + Due(p)' + Ordered(v, p)'
                 /\ p \notin exec'[v].had => paged'[p] = <<>>
                 /\ exec'[v].pc = "save" /\ exec'[v].answer = p => paged'[p] = <<>>
      <4>1. CASE v = w
        <5>1. exec'[v].of[p] = page[p].chunks /\ p \in todo
          BY <2>1, <2>2, <3>5, <4>1
        <5>2. page[p].chunks \in Nat \ {0}
          BY DEF Types, RowTypes
        <5>3. Ordered(v, p)' = page[p].chunks /\ exec'[v].of[p] # Uncited
          BY <1>0, <5>1, <5>2 DEF Ordered, Uncited
        <5>4. QED
          BY <1>0, <2>1, <3>2, <3>3, <3>4, <4>1, <5>1, <5>2, <5>3
      <4>2. CASE v # w
        <5>1. Buying(v, p) /\ exec'[v] = exec[v] /\ Ordered(v, p)' = Ordered(v, p)
          BY <1>0, <2>1, <2>4, <3>5, <4>2 DEF Ordered
        <5>2. QED
          BY <1>0, <3>1, <3>2, <5>1 DEF PageBought
      <4>3. QED
        BY <4>1, <4>2
    <3>6. /\ Len(paged'[p]) <= 1
          /\ paged'[p] # <<>> => paged'[p][1] <= page'[p].chunks
          /\ paid'[p] + 1 <= lost'[p] + Due(p)' + Version(p)'
      BY <1>0, <3>1, <3>2 DEF PageBought
    <3>7. QED
      BY <3>5, <3>6 DEF PageBought
  <2>9. QED
    BY <2>7, <2>8 DEF Bought
<1>3. QED
  BY <1>1, <1>2 DEF ReadPages

LEMMA PageAnswered ==
  ASSUME Types, Types', OneBuys, Bought, NEW w \in Workers, AnswerPage(w)
  PROVE  OneBuys' /\ Bought'
<1>0. /\ exec \in [Workers -> ExecRow] /\ exec[w] \in ExecRow /\ Fits(exec[w]) /\ ExecTypes
      /\ paid \in [Pages -> Nat] /\ lost \in [Pages -> Nat]
  BY BusyHas DEF Types, ExecTypes, CountTypes
<1>1. PICK p \in exec[w].todo :
        /\ exec[w].pc = "pages" /\ p \in Pages
        /\ paid' = [paid EXCEPT ![p] = @ + 1]
        /\ \/ \E of \in {exec[w].of[p], Uncited} :
                /\ exec' = [exec EXCEPT ![w] = Answered(exec[w], p, of)]
                /\ \/ of = exec[w].of[p] /\ lost' = lost
                   \/ of = Uncited /\ lost' = [lost EXCEPT ![p] = @ + 1]
           \/ /\ exec' = [exec EXCEPT ![w].todo = @ \ {p}]
              /\ lost' = [lost EXCEPT ![p] = @ + 1]
        /\ UNCHANGED <<page, paged, shared>>
  BY <1>0, AnswersOne
<1>2. /\ \A v \in Workers \ {w} : exec'[v] = exec[v]
      /\ exec'[w].todo = exec[w].todo \ {p} /\ exec'[w].had = exec[w].had
      /\ \A q \in Pages \ {p} : exec'[w].of[q] = exec[w].of[q]
      /\ \/ /\ exec'[w].answer = p /\ (exec'[w].pc = "save" => p \notin exec[w].had)
            /\ \/ exec'[w].of[p] = exec[w].of[p] /\ lost' = lost
               \/ exec'[w].of[p] = Uncited /\ lost' = [lost EXCEPT ![p] = @ + 1]
         \/ /\ exec'[w].answer = 0 /\ lost' = [lost EXCEPT ![p] = @ + 1]
            /\ exec'[w].of[p] = exec[w].of[p]
  <2>0. exec[w].answer = 0 /\ exec[w].of \in [Pages -> Nat]
    BY <1>0, <1>1 DEF Fits, ExecRow
  <2>1. ASSUME NEW of \in {exec[w].of[p], Uncited},
               exec' = [exec EXCEPT ![w] = Answered(exec[w], p, of)]
        PROVE  /\ \A v \in Workers \ {w} : exec'[v] = exec[v]
               /\ exec'[w].todo = exec[w].todo \ {p} /\ exec'[w].had = exec[w].had
               /\ \A q \in Pages \ {p} : exec'[w].of[q] = exec[w].of[q]
               /\ exec'[w].answer = p /\ (exec'[w].pc = "save" => p \notin exec[w].had)
               /\ exec'[w].of[p] = of
    <3>1. of \in Nat
      BY <1>1, <2>0, <2>1 DEF Uncited
    <3>2. /\ Answered(exec[w], p, of).todo = exec[w].todo \ {p}
          /\ Answered(exec[w], p, of).answer = p
          /\ Answered(exec[w], p, of).of = [exec[w].of EXCEPT ![p] = of]
          /\ Answered(exec[w], p, of).had = exec[w].had
          /\ Answered(exec[w], p, of).pc = "save" => p \notin exec[w].had
      BY <1>0, <1>1, <3>1, AnsweredFits
    <3>3. exec'[w] = Answered(exec[w], p, of) /\ \A v \in Workers \ {w} : exec'[v] = exec[v]
      BY <1>0, <2>1
    <3>4. exec'[w].of = [exec[w].of EXCEPT ![p] = of]
      BY <3>2, <3>3
    <3>5. exec'[w].of[p] = of /\ \A q \in Pages \ {p} : exec'[w].of[q] = exec[w].of[q]
      BY <1>1, <2>0, <3>4
    <3>6. QED
      BY <3>2, <3>3, <3>5
  <2>2. CASE /\ exec' = [exec EXCEPT ![w].todo = @ \ {p}]
             /\ lost' = [lost EXCEPT ![p] = @ + 1]
    BY <1>0, <2>0, <2>2 DEF ExecRow
  <2>3. QED
    BY <1>1, <2>1, <2>2
<1>3. Buying(w, p) /\ exec[w].answer = 0
  BY <1>0, <1>1 DEF Buying, Fits
<1>4. \A q \in Pages, v \in Workers : Buying(v, q)' => Buying(v, q)
  BY <1>1, <1>2, PageNumbers DEF Buying
<1>5. OneBuys'
  <2>1. \A v \in Workers : exec'[v].answer \notin exec'[v].todo
    <3>1. exec'[w].answer \in {p, 0} /\ 0 \notin exec[w].todo
      BY <1>0, <1>2, PageNumbers DEF ExecRow
    <3>2. exec'[w].answer \notin exec'[w].todo
      BY <1>2, <3>1
    <3>3. QED
      BY <1>2, <3>2 DEF OneBuys
  <2>2. QED
    BY <1>1, <1>4, <2>1 DEF OneBuys
<1>6. ASSUME NEW q \in Pages \ shared
      PROVE  PageBought(q)'
  <2>1. PageBought(q)
    BY DEF Bought
  <2>2. CASE q # p
    <3>1. paid'[q] = paid[q] /\ lost'[q] = lost[q]
      BY <1>0, <1>1, <1>2, <2>2
    <3>2. \A v \in Workers : exec'[v].answer = q <=> exec[v].answer = q
      BY <1>2, <1>3, <2>2, PageNumbers
    <3>3. page'[q].chunks >= page[q].chunks /\ paged'[q] = paged[q]
      BY <1>1, PageTypes
    <3>4. \A v \in Workers : Buying(v, q)' =>
            /\ Buying(v, q) /\ exec'[v].of[q] = exec[v].of[q]
            /\ q \in exec[v].had <=> q \in exec'[v].had
            /\ exec'[v].pc = "save" /\ exec'[v].answer = q => exec[v].pc = "save"
      BY <1>2, <1>3, <1>4, <2>2, PageNumbers
    <3>5. QED
      BY <2>1, <3>1, <3>2, <3>3, <3>4, PageLeft
  <2>3. CASE q = p
    <3>1. \A v \in Workers \ {w} : ~Buying(v, p)
      BY <1>3, <2>3 DEF OneBuys
    <3>2. \A v \in Workers : exec[v].answer # p
      BY <1>1, <1>3, <3>1, PageNumbers DEF Buying
    <3>3. Due(p) = 0
      BY <3>2 DEF Due
    <3>4. paid'[p] = paid[p] + 1
      BY <1>0, <1>1
    <3>5. lost'[p] + Due(p)' = lost[p] + 1 /\ lost'[p] + Due(p)' \in Nat
      <4>0. exec[w].of[p] # Uncited
        BY <1>1, <1>3, <2>1, <2>3, PageNumbers DEF PageBought
      <4>1. CASE exec'[w].answer = p /\ exec'[w].of[p] = exec[w].of[p] /\ lost' = lost
        <5>1. Due(p)' = 1
          BY <4>0, <4>1 DEF Due
        <5>2. QED
          BY <1>0, <1>1, <4>1, <5>1
      <4>2. CASE /\ exec'[w].answer = 0 \/ exec'[w].of[p] = Uncited
                 /\ lost' = [lost EXCEPT ![p] = @ + 1]
        <5>1. \A v \in Workers : ~(exec'[v].answer = p /\ exec'[v].of[p] # Uncited)
          BY <1>1, <1>2, <3>2, <4>2, PageNumbers
        <5>2. Due(p)' = 0
          BY <5>1 DEF Due
        <5>3. QED
          BY <1>0, <1>1, <4>2, <5>2
      <4>3. QED
        BY <1>2, <4>1, <4>2
    <3>6. Version(p)' = Version(p)
      BY <1>1 DEF Version
    <3>7. paid[p] + 1 <= lost[p] + Version(p) /\ paid[p] + 1 <= lost[p] + Ordered(w, p)
      BY <1>3, <2>1, <2>3, <3>3, PageTypes DEF PageBought
    <3>8. paid'[p] + 1 <= lost'[p] + Due(p)' + Version(p)'
      BY <2>3, <3>4, <3>5, <3>6, <3>7, PageTypes
    <3>9. paid'[p] + 1 <= lost'[p] + Due(p)' + Ordered(w, p)'
      <4>1. exec[w].of[p] <= page[p].chunks /\ page'[p].chunks = page[p].chunks
        BY <1>1, <1>3, <2>1, <2>3 DEF PageBought
      <4>2. exec'[w].of[p] \in {exec[w].of[p], Uncited}
        BY <1>2
      <4>3. Ordered(w, p)' >= Ordered(w, p) /\ Ordered(w, p)' \in Nat /\ Ordered(w, p) \in Nat
        <5>1. page[p].chunks \in Nat /\ exec[w].of[p] \in Nat
          BY <1>1, PageTypes
        <5>2. QED
          BY <4>1, <4>2, <5>1 DEF Ordered
      <4>4. QED
        BY <2>3, <3>4, <3>5, <3>7, <4>3, PageTypes
    <3>10. \A v \in Workers : Buying(v, p)' => v = w
      BY <1>4, <3>1, <2>3
    <3>11. Buying(w, p)' =>
             /\ exec'[w].of[p] <= page'[p].chunks
             /\ exec'[w].answer # p => exec'[w].of[p] # Uncited
             /\ p \notin exec'[w].had => paged'[p] = <<>>
             /\ exec'[w].pc = "save" /\ exec'[w].answer = p => paged'[p] = <<>>
      <4>1. /\ exec[w].of[p] <= page[p].chunks /\ exec[w].of[p] # Uncited
            /\ p \notin exec[w].had => paged[p] = <<>>
        BY <1>1, <1>3, <2>1, <2>3, PageNumbers DEF PageBought
      <4>2. exec'[w].of[p] <= page'[p].chunks
        BY <1>1, <1>2, <4>1, PageTypes DEF Uncited
      <4>3. exec'[w].answer # p => exec'[w].of[p] # Uncited
        BY <1>2, <4>1
      <4>4. QED
        BY <1>1, <1>2, <4>1, <4>2, <4>3, PageNumbers
    <3>12. Len(paged'[p]) <= 1 /\ (paged'[p] # <<>> => paged'[p][1] <= page'[p].chunks)
      BY <1>1, <2>1, <2>3 DEF PageBought
    <3>13. QED
      BY <1>2, <2>3, <3>8, <3>9, <3>10, <3>11, <3>12 DEF PageBought
  <2>4. QED
    BY <2>2, <2>3
<1>7. QED
  BY <1>1, <1>5, <1>6 DEF Bought

LEMMA PageCleared ==
  ASSUME Types, Types', OneBuys, Bought, NEW w \in Workers, ClearPage(w)
  PROVE  OneBuys' /\ Bought'
<1>0. /\ exec \in [Workers -> ExecRow] /\ exec[w] \in ExecRow /\ exec[w].answer \in Pages
      /\ paged \in [Pages -> Seq(Nat)]
  BY BusyHas DEF Types, ExecTypes, StoreTypes, ClearPage, Fits
<1>1. PICK p \in Pages : p = exec[w].answer
  BY <1>0
<1>2. /\ \A v \in Workers \ {w} : exec'[v] = exec[v]
      /\ exec'[w].todo = exec[w].todo /\ exec'[w].of = exec[w].of /\ exec'[w].had = exec[w].had
      /\ exec'[w].answer = p
  BY <1>0, <1>1 DEF ClearPage, Goto, ExecRow
<1>3. /\ paged' = [paged EXCEPT ![p] = <<>>]
      /\ UNCHANGED <<page, paid, lost, shared>>
  BY <1>1 DEF ClearPage, bounds, history, bought
<1>4. \A q \in Pages, v \in Workers : Buying(v, q)' <=> Buying(v, q)
  BY <1>1, <1>2 DEF Buying
<1>5. OneBuys'
  BY <1>1, <1>2, <1>3, <1>4 DEF OneBuys
<1>6. \A v \in Workers : exec'[v].answer = exec[v].answer
  BY <1>1, <1>2
<1>7. ASSUME NEW q \in Pages \ shared
      PROVE  PageBought(q)'
  <2>1. PageBought(q)
    BY DEF Bought
  <2>2. CASE q # p
    <3>1. paged'[q] = paged[q] /\ paid'[q] = paid[q] /\ lost'[q] = lost[q]
      BY <1>0, <1>3, <2>2
    <3>2. page'[q].chunks >= page[q].chunks
      BY <1>3, PageTypes
    <3>3. \A v \in Workers : Buying(v, q)' =>
            /\ Buying(v, q) /\ exec'[v].of[q] = exec[v].of[q]
            /\ q \in exec[v].had <=> q \in exec'[v].had
            /\ exec'[v].pc = "save" /\ exec'[v].answer = q => exec[v].pc = "save"
      BY <1>2, <1>4, <2>2
    <3>4. QED
      BY <1>6, <2>1, <3>1, <3>2, <3>3, PageLeft
  <2>3. CASE q = p
    <3>1. Buying(w, p) /\ \A v \in Workers : Buying(v, p)' => v = w
      BY <1>1, <1>4, <2>3 DEF OneBuys, Buying
    <3>2. paged'[p] = <<>>
      BY <1>0, <1>3
    <3>3. Version(p)' = page[p].chunks /\ Due(p)' = Due(p)
      <4>1. \A v \in Workers : exec'[v].of = exec[v].of
        BY <1>2
      <4>2. QED
        BY <1>3, <1>6, <3>2, <4>1 DEF Version, Due
    <3>4. /\ paid[p] + 1 <= lost[p] + Due(p) + Ordered(w, p) /\ Ordered(w, p) <= page[p].chunks
          /\ exec[w].of[p] <= page[p].chunks /\ exec[w].answer = p
      BY <1>1, <2>1, <2>3, <3>1, PageTypes DEF PageBought, Ordered
    <3>5. paid'[p] + 1 <= lost'[p] + Due(p)' + Version(p)'
      BY <1>3, <2>3, <3>3, <3>4, PageTypes, SMTT(30)
    <3>6. Ordered(w, p)' = Ordered(w, p)
      BY <1>2, <1>3 DEF Ordered
    <3>7. QED
      BY <1>2, <1>3, <2>3, <3>1, <3>2, <3>3, <3>4, <3>5, <3>6 DEF PageBought
  <2>4. QED
    BY <2>2, <2>3
<1>8. QED
  BY <1>3, <1>5, <1>7 DEF Bought

LEMMA PageSaved ==
  ASSUME Types, Types', OneBuys, Bought, NEW w \in Workers, SavePage(w)
  PROVE  OneBuys' /\ Bought'
<1>0. /\ exec \in [Workers -> ExecRow] /\ exec[w] \in ExecRow /\ exec[w].answer \in Pages
      /\ paged \in [Pages -> Seq(Nat)]
  BY BusyHas DEF Types, ExecTypes, StoreTypes, SavePage, Fits
<1>1. PICK p \in Pages : p = exec[w].answer
  BY <1>0
<1>2. /\ \A v \in Workers \ {w} : exec'[v] = exec[v]
      /\ exec'[w].todo = exec[w].todo /\ exec'[w].of = exec[w].of /\ exec'[w].had = exec[w].had
      /\ exec'[w].answer = 0 /\ exec[w].pc = "save"
  BY <1>0 DEF SavePage, ExecRow
<1>3. /\ paged' = [paged EXCEPT ![p] = Append(@, exec[w].of[p])]
      /\ UNCHANGED <<page, paid, lost, shared>>
  BY <1>1 DEF SavePage, bounds, history, bought
<1>4. \A q \in Pages, v \in Workers : Buying(v, q)' => Buying(v, q)
  BY <1>1, <1>2, PageNumbers DEF Buying
<1>5. OneBuys'
  <2>1. \A v \in Workers : exec'[v].answer \notin exec'[v].todo
    BY <1>0, <1>2, PageNumbers DEF OneBuys, ExecRow
  <2>2. QED
    BY <1>3, <1>4, <2>1 DEF OneBuys
<1>6. p \notin exec[w].todo
  BY <1>1 DEF OneBuys
<1>7. ASSUME NEW q \in Pages \ shared
      PROVE  PageBought(q)'
  <2>1. PageBought(q)
    BY DEF Bought
  <2>2. CASE q # p
    <3>1. paged'[q] = paged[q] /\ paid'[q] = paid[q] /\ lost'[q] = lost[q]
      BY <1>0, <1>3, <2>2
    <3>2. page'[q].chunks >= page[q].chunks
      BY <1>3, PageTypes
    <3>3. \A v \in Workers : exec'[v].answer = q <=> exec[v].answer = q
      BY <1>1, <1>2, <2>2, PageNumbers
    <3>4. \A v \in Workers : Buying(v, q)' =>
            /\ Buying(v, q) /\ exec'[v].of[q] = exec[v].of[q]
            /\ q \in exec[v].had <=> q \in exec'[v].had
            /\ exec'[v].pc = "save" /\ exec'[v].answer = q => exec[v].pc = "save"
      BY <1>2, <1>4, <2>2, PageNumbers
    <3>5. QED
      BY <2>1, <3>1, <3>2, <3>3, <3>4, PageLeft
  <2>3. CASE q = p
    <3>1. Buying(w, p) /\ \A v \in Workers \ {w} : ~Buying(v, p)
      BY <1>1, <2>3 DEF OneBuys, Buying
    <3>2. \A v \in Workers : ~Buying(v, p)'
      BY <1>2, <1>4, <1>6, <3>1, PageNumbers DEF Buying
    <3>3. Due(p)' = 0
      BY <3>2 DEF Due, Buying
    <3>4. paged[p] = <<>> /\ exec[w].of[p] <= page[p].chunks
          /\ paid[p] + 1 <= lost[p] + Due(p) + Ordered(w, p)
      BY <1>1, <1>2, <2>1, <2>3, <3>1 DEF PageBought
    <3>5. exec[w].of[p] \in Nat
      BY PageTypes
    <3>6. paged'[p] = <<exec[w].of[p]>>
      <4>1. paged'[p] = Append(paged[p], exec[w].of[p])
        BY <1>0, <1>3
      <4>2. QED
        BY <3>4, <3>5, <4>1
    <3>7. Len(paged'[p]) = 1 /\ paged'[p] # <<>> /\ paged'[p][1] = exec[w].of[p]
      BY <3>6
    <3>8. Version(p)' = Due(p) + Ordered(w, p)
      <4>1. CASE exec[w].of[p] # Uncited
        <5>1. Due(p) = 1
          BY <1>1, <4>1 DEF Due
        <5>2. QED
          BY <3>5, <3>7, <4>1, <5>1 DEF Version, Ordered
      <4>2. CASE exec[w].of[p] = Uncited
        <5>1. \A v \in Workers : ~(exec[v].answer = p /\ exec[v].of[p] # Uncited)
          BY <3>1, <4>2 DEF Buying
        <5>2. Due(p) = 0
          BY <5>1 DEF Due
        <5>3. Version(p)' = page[p].chunks /\ Ordered(w, p) = page[p].chunks
          BY <1>3, <3>7, <4>2 DEF Version, Ordered
        <5>4. QED
          BY <5>2, <5>3, PageTypes
      <4>3. QED
        BY <4>1, <4>2
    <3>9. paid'[p] + 1 <= lost'[p] + Due(p)' + Version(p)'
      BY <1>3, <2>3, <3>3, <3>4, <3>8, PageTypes, SMTT(30)
    <3>10. QED
      BY <1>3, <2>3, <3>2, <3>4, <3>7, <3>9 DEF PageBought
  <2>4. QED
    BY <2>2, <2>3
<1>8. QED
  BY <1>3, <1>5, <1>7 DEF Bought

LEMMA BoughtAround ==
  ASSUME Types, Types', OneBuys, Bought, Around
  PROVE  OneBuys' /\ Bought'
<1>1. exec' = exec /\ UNCHANGED <<paged, paid, lost, shared>>
  <2>1. exec' = exec
    BY AroundLeaves
  <2>2. CASE \/ \E u \in Presses : \/ \E k \in Portions : ReadForPress(u, k)
                                   \/ AddJob(u) \/ WriteQueued(u) \/ DropForPress(u)
                                   \/ LosePress(u)
             \/ \E r \in Readers : ReadRows(r) \/ Fill(r)
    BY <2>1, <2>2 DEF ReadForPress, AddJob, WriteQueued, DropForPress, LosePress, ReadRows, Fill,
                history, bought
  <2>3. CASE \/ Expire
             \/ \E w \in Workers : Beat(w)
             \/ \E j \in Jobs : StallJob(j) \/ Lapse(j)
             \/ \E k \in Portions : GoSilent(k)
    BY <2>1, <2>3 DEF Expire, Beat, StallJob, Lapse, GoSilent, history, bought
  <2>4. CASE \/ \E p \in Pages : Reprocess(p) \/ \E k \in Portions \cup {Elsewhere} : MovePage(p, k)
             \/ UNCHANGED vars
    BY <2>1, <2>4 DEF Reprocess, MovePage, vars, history, bought
  <2>5. QED
    BY <2>1, <2>2, <2>3, <2>4, Zenon DEF Around, Serve
<1>2. ASSUME NEW q \in Pages PROVE page'[q].chunks >= page[q].chunks
  <2>0. page \in [Pages -> [kind: Portions \cup {Elsewhere}, chunks: Nat \ {0}]] /\ page[q].chunks \in Nat
    BY DEF Types, RowTypes
  <2>1. CASE page' = page
    BY <2>0, <2>1
  <2>2. ASSUME NEW p \in Pages, Reprocess(p)
        PROVE  page'[q].chunks >= page[q].chunks
    BY <2>0, <2>2 DEF Reprocess
  <2>3. ASSUME NEW p \in Pages, NEW k \in Portions \cup {Elsewhere}, MovePage(p, k)
        PROVE  page'[q].chunks >= page[q].chunks
    BY <2>0, <2>3 DEF MovePage
  <2>4. CASE \/ \E u \in Presses : \/ \E k \in Portions : ReadForPress(u, k)
                                   \/ AddJob(u) \/ WriteQueued(u) \/ DropForPress(u)
                                   \/ LosePress(u)
             \/ \E r \in Readers : ReadRows(r) \/ Fill(r)
    BY <2>1, <2>4 DEF ReadForPress, AddJob, WriteQueued, DropForPress, LosePress, ReadRows, Fill
  <2>5. CASE \/ Expire
             \/ \E w \in Workers : Beat(w)
             \/ \E j \in Jobs : StallJob(j) \/ Lapse(j)
             \/ \E k \in Portions : GoSilent(k)
             \/ UNCHANGED vars
    BY <2>1, <2>5 DEF Expire, Beat, StallJob, Lapse, GoSilent, vars
  <2>6. QED
    BY <2>2, <2>3, <2>4, <2>5, Zenon DEF Around, Serve
<1>3. \A v \in Workers, p \in Pages : Buying(v, p)' <=> Buying(v, p)
  BY <1>1 DEF Buying
<1>4. OneBuys'
  BY <1>1, <1>3 DEF OneBuys
<1>5. ASSUME NEW p \in Pages \ shared
      PROVE  PageBought(p)'
  <2>1. PageBought(p)
    BY DEF Bought
  <2>2. QED
    BY <1>1, <1>2, <1>3, <2>1, PageLeft
<1>6. QED
  BY <1>1, <1>4, <1>5 DEF Bought

LEMMA BoughtNext ==
  ASSUME Types, Types', OneBuys, Bought, [Next]_vars
  PROVE  OneBuys' /\ Bought'
<1>0. exec \in [Workers -> ExecRow] /\ ExecTypes /\ \A v \in Workers : exec[v] \in ExecRow /\ Fits(exec[v])
  BY DEF Types, ExecTypes
<1>1. CASE Around
  BY <1>1, BoughtAround
<1>2. ASSUME NEW w \in Workers, NEW j \in Jobs, Take(w, j)
      PROVE  OneBuys' /\ Bought'
  <2>0. UNCHANGED <<page, paged, paid, lost, shared>>
    BY <1>2 DEF Take, bought
  <2>1. CASE exec' = exec
    BY <2>0, <2>1, PagesKept
  <2>2. CASE exec' = [exec EXCEPT ![w].pc = "begun", ![w].portion = job[j].portion, ![w].job = j]
    <3>1. \A v \in Workers \ {w} : exec'[v] = exec[v]
      BY <1>0, <2>2
    <3>2. /\ exec'[w].todo = exec[w].todo /\ exec'[w].answer = exec[w].answer
          /\ exec'[w].of = exec[w].of /\ exec'[w].had = exec[w].had /\ exec'[w].pc = "begun"
      BY <1>0, <2>2 DEF ExecRow
    <3>3. QED
      BY <2>0, <3>1, <3>2, PagesKept
  <2>3. QED
    BY <1>2, <2>1, <2>2 DEF Take
<1>3. ASSUME NEW w \in Workers, Leaves(w)
      PROVE  OneBuys' /\ Bought'
  <2>1. exec' = [exec EXCEPT ![w] = FreeExec] /\ UNCHANGED <<page, paged, paid, shared>>
    BY <1>3 DEF Leaves, Invalidate, RaiseEarly, Ended, Crash, bought
  <2>2. lost' = Wasted(w)
    BY <1>3 DEF Leaves, Invalidate, RaiseEarly, Crash, Wasted, bought
  <2>3. /\ \A v \in Workers \ {w} : exec'[v] = exec[v]
        /\ exec'[w].todo = {} /\ exec'[w].answer = 0
    BY <1>0, <2>1 DEF FreeExec
  <2>4. QED
    BY <2>1, <2>2, <2>3, PagesDropped
<1>4. ASSUME NEW w \in Workers, Quits(w), lost' = Wasted(w), UNCHANGED <<page, paged, paid, shared>>
      PROVE  OneBuys' /\ Bought'
  <2>1. /\ \A v \in Workers \ {w} : exec'[v] = exec[v]
        /\ exec'[w].todo = {} /\ exec'[w].answer = 0
    BY <1>0, <1>4 DEF Quits, FreeExec
  <2>2. QED
    BY <1>4, <2>1, PagesDropped
<1>5. ASSUME NEW w \in Workers, Raise(w)
      PROVE  OneBuys' /\ Bought'
  BY <1>4, <1>5 DEF Raise, Fails
<1>6. ASSUME NEW w \in Workers, NoRollup(w)
      PROVE  OneBuys' /\ Bought'
  BY <1>4, <1>6 DEF NoRollup, Fails, Wasted, history, bought
<1>7. ASSUME NEW w \in Workers, Cover(w)
      PROVE  OneBuys' /\ Bought'
  <2>0. exec[w].pc = "pages" /\ exec[w].todo = {} /\ exec[w].answer = 0
        /\ UNCHANGED <<page, paged, paid, lost, shared>>
    BY <1>0, <1>7 DEF Cover, history, bought, Fits
  <2>1. CASE Fails(w)
    BY <1>4, <2>0, <2>1 DEF Fails, Wasted
  <2>2. CASE ~Fails(w)
    <3>1. PICK covered : exec' = [exec EXCEPT ![w].pc = "delete", ![w].covered = covered,
                                    ![w].had = {}, ![w].of = FreeExec.of]
      BY <1>7, <2>2 DEF Cover
    <3> DEFINE e == [exec[w] EXCEPT !.pc = "delete", !.covered = covered, !.had = {},
                                    !.of = FreeExec.of]
    <3>2. exec' = [exec EXCEPT ![w] = e]
      BY <1>0, <3>1
    <3>3. e.todo = {} /\ e.answer = 0 /\ e.pc = "delete"
      BY <1>0, <2>0 DEF ExecRow
    <3>4. \A v \in Workers \ {w} : exec'[v] = exec[v]
      BY <1>0, <3>2
    <3>5. exec'[w].todo = {} /\ exec'[w].answer = 0
      <4> HIDE DEF e
      <4>1. QED
        BY <1>0, <3>2, <3>3
    <3>6. QED
      BY <2>0, <3>4, <3>5, PagesDropped DEF Wasted
  <2>3. QED
    BY <2>1, <2>2
<1>8. ASSUME NEW w \in Workers,
             \/ SetRunning(w) \/ DeleteRollups(w) \/ WriteSection(w) \/ NoSection(w)
             \/ WriteRollup(w) \/ WriteReady(w)
      PROVE  OneBuys' /\ Bought'
  <2>0. UNCHANGED <<page, paged, paid, lost, shared>>
    BY <1>8 DEF SetRunning, DeleteRollups, WriteSection, NoSection, WriteRollup, WriteReady,
                history, bought
  <2>1. \A v \in Workers \ {w} : exec'[v] = exec[v]
    BY <1>0, <1>8 DEF SetRunning, DeleteRollups, WriteSection, NoSection, WriteRollup,
                      WriteReady, Goto
  <2>2. exec[w] \in ExecRow
    BY <1>0
  <2>3. /\ exec'[w].todo = exec[w].todo /\ exec'[w].answer = exec[w].answer
        /\ exec'[w].of = exec[w].of /\ exec'[w].had = exec[w].had
        /\ exec'[w].pc = "save" => exec[w].pc = "save"
    <3>1. CASE SetRunning(w)
      BY <1>0, <2>2, <3>1 DEF SetRunning, Goto, ExecRow
    <3>2. CASE DeleteRollups(w)
      BY <1>0, <2>2, <3>2 DEF DeleteRollups, Goto, ExecRow
    <3>3. CASE WriteSection(w)
      BY <1>0, <2>2, <3>3 DEF WriteSection, Goto, ExecRow
    <3>4. CASE NoSection(w)
      BY <1>0, <2>2, <3>4 DEF NoSection, Goto, ExecRow
    <3>5. CASE WriteRollup(w)
      BY <1>0, <2>2, <3>5 DEF WriteRollup, Goto, ExecRow
    <3>6. CASE WriteReady(w)
      BY <1>0, <2>2, <3>6 DEF WriteReady, Goto, ExecRow
    <3>7. QED
      BY <1>8, <3>1, <3>2, <3>3, <3>4, <3>5, <3>6
  <2>4. QED
    BY <2>0, <2>1, <2>3, PagesKept
<1>9. QED
  BY <1>1, <1>2, <1>3, <1>5, <1>6, <1>7, <1>8, PagesRead, PageAnswered, PageCleared, PageSaved,
     Zenon DEF Next, Work, Around, Leaves

-----------------------------------------------------------------------------
(* The invariant, and what it gives.                                       *)

IInv ==
  /\ Types /\ HandsAgree /\ RowsServed /\ PressesServed
  /\ OneInHand /\ Rolled /\ OneBuys /\ Bought /\ Shown

LEMMA InitHolds == Init => IInv
<1> SUFFICES ASSUME Init PROVE IInv
  OBVIOUS
<1>1. Types
  BY InitTypes
<1>2. \A w \in Workers : exec[w] = FreeExec
  BY DEF Init
<1>3. HandsAgree /\ OneInHand
  BY <1>2 DEF HandsAgree, OneInHand, Busy, FreeExec
<1>4. RowsServed
  BY DEF Init, RowsServed, InFlight
<1>5. PressesServed
  BY DEF Init, PressesServed, FreePress
<1>6. Rolled
  <2>1. \A w \in Workers : exec[w].pc = "free"
    BY <1>2 DEF FreeExec
  <2>2. QED
    BY <2>1 DEF Init, Rolled, Working
<1>7. OneBuys
  BY <1>2, PageNumbers DEF OneBuys, Buying, FreeExec
<1>8. Bought
  <2>1. \A w \in Workers, p \in Pages : ~Buying(w, p)
    BY <1>2, PageNumbers DEF Buying, FreeExec
  <2>2. ASSUME NEW p \in Pages PROVE PageBought(p)
    <3>1. paged[p] = <<>> /\ paid[p] = 0 /\ lost[p] = 0
      BY DEF Init
    <3>2. Version(p) = page[p].chunks /\ page[p].chunks \in Nat \ {0} /\ Due(p) \in Nat
      BY <1>1, <3>1, PageTypes DEF Types, RowTypes, Version
    <3>3. QED
      BY <2>1, <3>1, <3>2 DEF PageBought
  <2>3. QED
    BY <2>2 DEF Bought
<1>9. Shown
  BY DEF Init, Shown, NoCache
<1>10. QED
  BY <1>1, <1>3, <1>4, <1>5, <1>6, <1>7, <1>8, <1>9 DEF IInv

\* The invariant that the rest rests on holds of every state the system reaches.
THEOREM InvariantHolds == Spec => []IInv
<1>1. IInv /\ [Next]_vars => IInv'
  <2> SUFFICES ASSUME IInv, [Next]_vars PROVE IInv'
    OBVIOUS
  <2>1. Types'
    BY TypesNext DEF IInv
  <2>2. HandsAgree' /\ PressesServed' /\ OneInHand' /\ Shown'
    BY HandsAgreeNext, PressesServedNext, OneInHandNext, ShownNext DEF IInv
  <2>3. RowsServed' /\ Rolled'
    BY RowsServedNext, RolledNext DEF IInv
  <2>4. OneBuys' /\ Bought'
    BY <2>1, BoughtNext DEF IInv
  <2>5. QED
    BY <2>1, <2>2, <2>3, <2>4 DEF IInv
<1>2. QED
  BY InitHolds, <1>1, PTL DEF Spec

\* Every variable keeps to its type.
THEOREM TypesHold == Spec => []TypeOK
<1>1. IInv => TypeOK
  BY TypesAreTypes DEF IInv
<1>2. QED
  BY InvariantHolds, <1>1, PTL

\* A portion that people are told is queued or running has a job or an execution that
\* will say how it ended, but for the exemptions of the property (portions.ts:182).
THEOREM ServedHolds == Spec => []RequestsAreServed
<1>1. IInv => RequestsAreServed
  BY DEF IInv, RowsServed, RequestsAreServed, Useful, Served, InHand, Working
<1>2. QED
  BY InvariantHolds, <1>1, PTL

\* A portion that says it has a summary has one rollup and sections that share no page.
THEOREM OneSummaryHolds == Spec => []OneSummary
<1>1. IInv => OneSummary
  BY DEF IInv, Rolled, OneSummary
<1>2. QED
  BY InvariantHolds, <1>1, PTL

\* A page is paid for once for each version of its chunks, and once more for each
\* answer that was unusable, lost with its run or cites no chunk; and it has one
\* summary at most (summarize.py:533-546).
THEOREM BoughtHolds == Spec => []PagesBoughtOnce
<1>1. IInv => PagesBoughtOnce
  <2> SUFFICES ASSUME IInv, NEW p \in Pages \ shared
               PROVE  Len(paged[p]) <= 1 /\ paid[p] <= page[p].chunks + lost[p]
    BY DEF PagesBoughtOnce
  <2>1. PageBought(p) /\ Types
    BY DEF IInv, Bought
  <2>2. CASE \E w \in Workers : exec[w].answer = p /\ exec[w].of[p] # Uncited
    <3>1. PICK w \in Workers : exec[w].answer = p /\ exec[w].of[p] # Uncited
      BY <2>2
    <3>2. exec[w].of[p] <= page[p].chunks /\ paid[p] + 1 <= lost[p] + Due(p) + exec[w].of[p]
      BY <2>1, <3>1 DEF PageBought, Buying, Ordered
    <3>3. QED
      BY <2>1, <3>2, PageTypes, SMTT(30) DEF PageBought
  <2>3. CASE ~\E w \in Workers : exec[w].answer = p /\ exec[w].of[p] # Uncited
    <3>1. Due(p) = 0
      BY <2>3 DEF Due
    <3>2. Version(p) <= 1 + page[p].chunks
      BY <2>1, PageTypes DEF PageBought, Version
    <3>3. QED
      BY <2>1, <3>1, <3>2, PageTypes DEF PageBought
  <2>4. QED
    BY <2>2, <2>3
<1>2. QED
  BY InvariantHolds, <1>1, PTL

\* When no run is on, a reader is shown the summary of a portion that is on file, but
\* for the exemptions of the property (summaries.ts:44).
THEOREM ShownHolds == Spec => []ReadyIsShown
<1>1. IInv => ReadyIsShown
  BY DEF IInv, Shown, ReadyIsShown, InHand, Tidies
<1>2. QED
  BY InvariantHolds, <1>1, PTL
=============================================================================
