---------------------- MODULE DocumentProcessingProofs ----------------------
(***************************************************************************)
(* Theorems about DocumentProcessing, for every number of documents, pages,*)
(* worker slots and faults.                                                *)
(***************************************************************************)
EXTENDS DocumentProcessing, FiniteSetTheorems, TLAPS

USE SizesAssumption, SlotAssumption, KindAssumption, FlagAssumption,
    BoundAssumption

-----------------------------------------------------------------------------
(* The types of what the actions are built from.                           *)

\* The manifest's offset is a number.
LEMMA OffsetType ==
  ASSUME NEW d \in Docs, NEW live \in SUBSET Docs, counted \subseteq Docs
  PROVE  OffsetOf(d, live) \in Nat
<1> DEFINE before == {e \in live \cap counted : e < d}
<1>1. IsFiniteSet(Docs)
  BY FS_Interval DEF Docs
<1>2. before \subseteq Docs
  OBVIOUS
<1>3. IsFiniteSet(before)
  BY <1>1, <1>2, FS_Subset
<1>4. Cardinality(before) \in Nat
  BY <1>3, FS_CardinalityType
<1> QED BY <1>4 DEF OffsetOf

\* So is every page's number in the manifest.
LEMMA ManifestType ==
  ASSUME NEW pg \in Pages, counted \subseteq Docs
  PROVE  Manifest(pg, Live) \in Nat
<1>1. pg[1] \in Docs /\ pg[2] \in Nat
  BY DEF Pages, PageNos
<1>2. OffsetOf(pg[1], Live) \in Nat
  BY <1>1, OffsetType DEF Live
<1> QED BY <1>1, <1>2 DEF Manifest

\* Adding jobs leaves a queue of jobs.
LEMMA EnqueueType ==
  ASSUME NEW D, NEW dedup \in BOOLEAN, jobs \in [JobIds -> Job],
         Enqueue(D, dedup)
  PROVE  jobs' \in [JobIds -> Job]
BY DEF Enqueue, NewJob, FreeJob, Job

\* Releasing locks leaves every lock held by a slot or by nobody.
LEMMA UnlockedType ==
  ASSUME NEW s \in Slots, lock \in [Docs -> Slots \cup {NoSlot}]
  PROVE  Unlocked(s) \in [Docs -> Slots \cup {NoSlot}]
BY DEF Unlocked

\* Using up a bound counts.
LEMMA SpendType ==
  ASSUME NEW b \in Budgets, used \in [Budgets -> Nat], Spend(b)
  PROVE  used' \in [Budgets -> Nat]
BY DEF Spend

\* An execution works on a document, whose pages are pages.
LEMMA DocType == ASSUME NEW s \in Slots, job \in [Slots -> JobIds]
                 PROVE  Doc(s) \in Docs
BY DEF Doc, JobIds

\* A document's page number names a page.
LEMMA PageType == ASSUME NEW d \in Docs, NEW p \in PageNos
                  PROVE  <<d, p>> \in Pages
BY DEF Pages

\* There is a job id for an idle slot to name.
LEMMA FirstJob == <<1, 1>> \in JobIds
BY DEF JobIds, Docs

\* Clearing an execution's working state leaves it well-typed.
LEMMA ClearedType ==
  ASSUME TypeOK, NEW s \in Slots, ClearTask(s)
  PROVE  /\ round' \in [Slots -> Nat] /\ offset' \in [Slots -> Nat]
         /\ quickTodo' \in [Slots -> SUBSET PageNos]
         /\ fullTodo' \in [Slots -> SUBSET PageNos]
         /\ halfDone' \in [Slots -> SUBSET PageNos]
         /\ replaces' \in [Slots -> Docs \cup {NoDoc}]
         /\ toEmbed' \in [Slots -> SUBSET PageNos]
BY DEF TypeOK, ClearTask

\* What happens to a job leaves a job.
LEMMA JobUpdates ==
  ASSUME NEW j \in Job, NEW n \in Nat
  PROVE  /\ \A s \in Slots :
              [j EXCEPT !.state = "active", !.holder = s] \in Job
         /\ [j EXCEPT !.state = "waiting", !.holder = NoSlot,
                      !.attempts = n] \in Job
         /\ Stalled(j) \in Job
         /\ [j EXCEPT !.holder = NoSlot] \in Job
         /\ FreeJob \in Job
<1>1. \A s \in Slots : [j EXCEPT !.state = "active", !.holder = s] \in Job
  BY DEF Job
<1>2. [j EXCEPT !.state = "waiting", !.holder = NoSlot, !.attempts = n] \in Job
  BY DEF Job
<1>3. Stalled(j) \in Job
  <2>1. j.stalls + 1 \in Nat
    BY DEF Job
  <2> QED BY <2>1 DEF Stalled, Job, FreeJob
<1>4. [j EXCEPT !.holder = NoSlot] \in Job
  BY DEF Job
<1>5. FreeJob \in Job
  BY DEF Job, FreeJob
<1> QED BY <1>1, <1>2, <1>3, <1>4, <1>5

\* Every action keeps the types.
LEMMA TypesStay == ASSUME TypeOK, [Next]_vars PROVE TypeOK'
<1> USE DEF TypeOK, docVars, pageVars, indexVars, apiVars, slotVars, taskVars,
            sortVars, Goto
<1>1. ASSUME NEW d \in Docs, NEW p \in Docs \cup {NoDoc}, InitiateUpload(d, p)
      PROVE  TypeOK'
  BY <1>1 DEF InitiateUpload, Statuses
<1>2. ASSUME NEW d \in Docs, CompleteUpload(d) PROVE TypeOK'
  BY <1>2, EnqueueType DEF CompleteUpload, Statuses
<1>3. ASSUME NEW d \in Docs, Reprocess(d) PROVE TypeOK'
  BY <1>3, EnqueueType, SpendType DEF Reprocess, Request, Budgets, Statuses
<1>4. ASSUME NEW reembed \in BOOLEAN, Reindex(reembed) PROVE TypeOK'
  BY <1>4, SpendType DEF Reindex, Request, Budgets, Live
<1>5. ASSUME NEW d \in Docs, ReindexOne(d) PROVE TypeOK'
  BY <1>5, EnqueueType DEF ReindexOne, Statuses
<1>6. ASSUME NEW k \in Kinds, ChooseDisciplines(k) PROVE TypeOK'
  BY <1>6, EnqueueType, SpendType DEF ChooseDisciplines, QueueDue, Request,
     Budgets, Kinds
<1>7. ASSUME NEW d \in Docs, DeleteRow(d) PROVE TypeOK'
  BY <1>7, SpendType DEF DeleteRow, Request, Budgets, Statuses
<1>8. ASSUME NEW d \in Docs, CleanUpDeleted(d) PROVE TypeOK'
  BY <1>8 DEF CleanUpDeleted, Statuses, FreeJob, Job
<1>9. CASE ReadTitleBlocks
  BY <1>9 DEF ReadTitleBlocks, Kinds
<1>10. CASE ListenForSortedPages
  BY <1>10, EnqueueType DEF ListenForSortedPages, QueueDue
<1>11. ASSUME NEW s \in Slots, NEW id \in JobIds, TakeJob(s, id) PROVE TypeOK'
  <2>1. jobs' \in [JobIds -> Job]
    BY <1>11, JobUpdates DEF TakeJob
  <2>2. attempt' \in [Slots -> Nat]
    <3>1. jobs[id].attempts \in Nat
      BY DEF Job
    <3> QED BY <1>11, <3>1 DEF TakeJob
  <2> QED BY <1>11, <2>1, <2>2 DEF TakeJob, Labels
<1>12. ASSUME NEW id \in JobIds, StallJob(id) PROVE TypeOK'
  <2>1. jobs' \in [JobIds -> Job]
    BY <1>12, JobUpdates DEF StallJob
  <2>2. used' \in [Budgets -> Nat]
    BY <1>12, SpendType DEF StallJob, Budgets
  <2> QED BY <1>12, <2>1, <2>2 DEF StallJob
<1>13. ASSUME NEW s \in Slots, Crash(s) PROVE TypeOK'
  <2>1. jobs' \in [JobIds -> Job]
    BY <1>13, JobUpdates DEF Crash
  <2>2. used' \in [Budgets -> Nat]
    BY <1>13, SpendType DEF Crash, Budgets
  <2>3. lock' \in [Docs -> Slots \cup {NoSlot}] /\ job' \in [Slots -> JobIds]
    BY <1>13, UnlockedType, FirstJob DEF Crash
  <2> QED BY <1>13, <2>1, <2>2, <2>3, ClearedType DEF Crash, Labels
<1>14. ASSUME NEW s \in Slots, TryLock(s) PROVE TypeOK'
  BY <1>14, DocType DEF TryLock, Labels
<1>15. ASSUME NEW s \in Slots, Start(s) PROVE TypeOK'
  BY <1>15, DocType, UnlockedType, ZenonT(30) DEF Start, Labels, Statuses
<1>16. ASSUME NEW s \in Slots, OpenPdf(s) PROVE TypeOK'
  BY <1>16, DocType, OffsetType DEF OpenPdf, Labels, Live
<1>17. ASSUME NEW s \in Slots, PlanRound(s) PROVE TypeOK'
  <2>1. /\ QuickModes(Doc(s)) \subseteq PageNos
        /\ FullModes(Doc(s)) \subseteq PageNos
    BY DEF QuickModes, FullModes
  <2>2. /\ quickTodo' \in [Slots -> SUBSET PageNos]
        /\ fullTodo' \in [Slots -> SUBSET PageNos]
    BY <1>17, <2>1 DEF PlanRound
  <2>3. round' \in [Slots -> Nat]
    BY <1>17 DEF PlanRound
  <2> QED BY <1>17, <2>2, <2>3 DEF PlanRound, Labels
<1>18. ASSUME NEW s \in Slots, NEW p \in PageNos, QuickPage(s, p)
      PROVE  TypeOK'
  <2>1. <<Doc(s), p>> \in Pages /\ offset[s] + p \in Nat
    BY DocType, PageType DEF PageNos
  <2>2. combined' \in [Pages -> Nat] /\ pictured' \subseteq Pages
    BY <1>18, <2>1 DEF QuickPage
  <2>3. quickTodo' \in [Slots -> SUBSET PageNos]
    BY <1>18 DEF QuickPage
  <2> QED BY <1>18, <2>2, <2>3 DEF QuickPage
<1>19. ASSUME NEW s \in Slots, NEW p \in PageNos, ReplaceChunks(s, p)
      PROVE  TypeOK'
  BY <1>19, PageType DEF ReplaceChunks
<1>20. ASSUME NEW s \in Slots, NEW p \in PageNos, MarkFull(s, p) PROVE TypeOK'
  BY <1>20, PageType DEF MarkFull
<1>21. ASSUME NEW s \in Slots, NEW p \in PageNos, PageRaises(s, p)
      PROVE  TypeOK'
  BY <1>21, SpendType DEF PageRaises, Labels, Budgets
<1>22. ASSUME NEW s \in Slots, PoolDrained(s) PROVE TypeOK'
  <2>1. lock' \in [Docs -> Slots \cup {NoSlot}]
    BY <1>22, UnlockedType DEF PoolDrained
  <2> QED BY <1>22, <2>1, ClearedType DEF PoolDrained, Labels
<1>23. ASSUME NEW s \in Slots, Supersede(s) PROVE TypeOK'
  <2>1. lock' \in [Docs -> Slots \cup {NoSlot}]
    BY <1>23, UnlockedType DEF Supersede
  <2>2. superseded' \subseteq Docs
    BY <1>23, DocType DEF Supersede
  <2>3. replaces' \in [Slots -> Docs \cup {NoDoc}]
    BY <1>23, DocType, ClearedType DEF Supersede
  <2> QED BY <1>23, <2>1, <2>2, <2>3, ClearedType DEF Supersede, Labels
<1>24. ASSUME NEW s \in Slots, Renumber(s) PROVE TypeOK'
  BY <1>24, ManifestType DEF Renumber, Labels
<1>25. ASSUME NEW s \in Slots, ReadChunks(s) PROVE TypeOK'
  <2>1. lock' \in [Docs -> Slots \cup {NoSlot}]
    BY <1>25, UnlockedType DEF ReadChunks
  <2>2. toEmbed' \in [Slots -> SUBSET PageNos]
    <3>1. CASE Exists(Doc(s))
      <4>1. toEmbed' = [toEmbed EXCEPT ![s] =
                          {q \in PageNos : <<Doc(s), q>> \in chunks \ embedded}]
        BY <1>25, <3>1 DEF ReadChunks
      <4> QED BY <4>1
    <3>2. CASE ~Exists(Doc(s))
      BY <1>25, <3>2, ClearedType DEF ReadChunks
    <3> QED BY <3>1, <3>2
  <2> QED BY <1>25, <2>1, <2>2, ClearedType, SMTT(30) DEF ReadChunks, Labels
<1>26. ASSUME NEW s \in Slots, UpsertPoints(s) PROVE TypeOK'
  <2>1. \A q \in toEmbed[s] : <<Doc(s), q>> \in Pages
    BY DocType, PageType
  <2>2. points' \subseteq Pages
    BY <1>26, <2>1 DEF UpsertPoints
  <2> QED BY <1>26, <2>2 DEF UpsertPoints, Labels
<1>27. ASSUME NEW s \in Slots, DeleteOldPoints(s) PROVE TypeOK'
  BY <1>27 DEF DeleteOldPoints, Labels
<1>28. ASSUME NEW s \in Slots, MarkEmbedded(s) PROVE TypeOK'
  BY <1>28 DEF MarkEmbedded, Labels
<1>29. ASSUME NEW s \in Slots, Finalize(s) PROVE TypeOK'
  BY <1>29, DocType DEF Finalize, Labels, Statuses
<1>30. ASSUME NEW s \in Slots, Unlock(s) PROVE TypeOK'
  BY <1>30, UnlockedType DEF Unlock, ClearTask, Labels
<1>31. ASSUME NEW s \in Slots, Notify(s) PROVE TypeOK'
  BY <1>31 DEF Notify, Labels
<1>32. ASSUME NEW s \in Slots, CompleteJob(s) PROVE TypeOK'
  BY <1>32, FirstJob DEF CompleteJob, FreeJob, Job, Labels
<1>33. ASSUME NEW s \in Slots, Raise(s) PROVE TypeOK'
  BY <1>33, UnlockedType, SpendType DEF Raise, ClearTask, Labels, Budgets
<1>34. ASSUME NEW s \in Slots, HandleFailure(s) PROVE TypeOK'
  <2>1. jobs' \in [JobIds -> Job]
    <3>1. \A j \in Job : [j EXCEPT !.state = "waiting", !.holder = NoSlot,
                                   !.attempts = attempt[s]] \in Job
      BY JobUpdates
    <3>2. jobs[job[s]] \in Job /\ FreeJob \in Job
      BY JobUpdates
    <3> DEFINE again == [jobs[job[s]] EXCEPT !.state = "waiting",
                           !.holder = NoSlot, !.attempts = attempt[s]]
    <3>3. \/ jobs' = jobs
          \/ jobs' = [jobs EXCEPT ![job[s]] = again]
          \/ jobs' = [jobs EXCEPT ![job[s]] = FreeJob]
      BY <1>34 DEF HandleFailure
    <3>4. again \in Job /\ FreeJob \in Job
      BY <3>1, <3>2
    <3> QED BY <3>3, <3>4
  <2>2. used' \in [Budgets -> Nat]
    BY <1>34, SpendType DEF HandleFailure, Budgets
  <2>3. status' \in [Docs -> Statuses] /\ retrying' \subseteq Docs
    BY <1>34, DocType DEF HandleFailure, Statuses
  <2>4. /\ job' \in [Slots -> JobIds] /\ attempt' \in [Slots -> Nat]
        /\ pc' \in [Slots -> Labels]
    BY <1>34, FirstJob DEF HandleFailure, Labels
  <2> QED BY <1>34, <2>1, <2>2, <2>3, <2>4 DEF HandleFailure
<1>35. CASE UNCHANGED vars
  BY <1>35 DEF vars
<1> QED
  BY <1>1, <1>2, <1>3, <1>4, <1>5, <1>6, <1>7, <1>8, <1>9, <1>10, <1>11, <1>12,
     <1>13, <1>14, <1>15, <1>16, <1>17, <1>18, <1>19, <1>20, <1>21, <1>22,
     <1>23, <1>24, <1>25, <1>26, <1>27, <1>28, <1>29, <1>30, <1>31, <1>32,
     <1>33, <1>34, <1>35
  DEF Next, ApiStep, WorkStep, PageStep, FaultStep

\* The initial state is well-typed.
LEMMA TypesBegin == Init => TypeOK
<1> SUFFICES ASSUME Init PROVE TypeOK
  OBVIOUS
<1>1. jobs \in [JobIds -> Job]
  BY DEF Init, Job, FreeJob
<1>2. pc \in [Slots -> Labels] /\ job \in [Slots -> JobIds]
  BY FirstJob DEF Init, Labels
<1>3. status \in [Docs -> Statuses] /\ kind \in [Pages -> Kinds]
  BY DEF Init, Statuses, Kinds
<1> QED BY <1>1, <1>2, <1>3 DEF Init, TypeOK

\* Every variable always has its type, so in particular every job names a slot
\* that exists and every page list stays within the document.
THEOREM TypesHold == Spec => []TypeOK
<1>1. TypeOK /\ [Next]_vars => TypeOK'
  BY TypesStay
<1> QED BY <1>1, TypesBegin, PTL DEF Spec
-----------------------------------------------------------------------------
(* What no step takes back from a document that is not deleted.            *)

Kept(d) ==
  Exists(d)' =>
    /\ status[d] = "absent" \/ Exists(d)
    /\ d \in counted => d \in counted'
    /\ \A p \in PageNos : /\ <<d, p>> \in pictured => <<d, p>> \in pictured'
                          /\ <<d, p>> \in full => <<d, p>> \in full'
                          /\ <<d, p>> \in chunks => <<d, p>> \in chunks'

\* No action but DeleteRow takes a page, its chunks or its page count back.
LEMMA NothingTaken ==
  ASSUME TypeOK, [Next]_vars, NEW e \in Docs
  PROVE  Kept(e)
<1> USE DEF Kept, Exists, docVars, pageVars, indexVars, apiVars, slotVars,
            taskVars, sortVars
<1>t. status \in [Docs -> Statuses]
  BY DEF TypeOK
<1>1. ASSUME NEW d \in Docs, NEW p \in Docs \cup {NoDoc}, InitiateUpload(d, p)
      PROVE  Kept(e)
  BY <1>1, <1>t DEF InitiateUpload
<1>2. ASSUME NEW d \in Docs, CompleteUpload(d) PROVE Kept(e)
  BY <1>2, <1>t DEF CompleteUpload
<1>3. ASSUME NEW d \in Docs, Reprocess(d) PROVE Kept(e)
  BY <1>3, <1>t DEF Reprocess, Live
<1>4. ASSUME NEW reembed \in BOOLEAN, Reindex(reembed) PROVE Kept(e)
  BY <1>4 DEF Reindex
<1>5. ASSUME NEW d \in Docs, ReindexOne(d) PROVE Kept(e)
  BY <1>5, <1>t DEF ReindexOne
<1>6. ASSUME NEW k \in Kinds, ChooseDisciplines(k) PROVE Kept(e)
  BY <1>6 DEF ChooseDisciplines
<1>7. ASSUME NEW d \in Docs, DeleteRow(d) PROVE Kept(e)
  BY <1>7, <1>t DEF DeleteRow, PagesOf
<1>8. ASSUME NEW d \in Docs, CleanUpDeleted(d) PROVE Kept(e)
  BY <1>8, <1>t DEF CleanUpDeleted
<1>9. CASE ReadTitleBlocks
  BY <1>9 DEF ReadTitleBlocks
<1>10. CASE ListenForSortedPages
  BY <1>10 DEF ListenForSortedPages
<1>11. ASSUME NEW s \in Slots, NEW id \in JobIds, TakeJob(s, id) PROVE Kept(e)
  BY <1>11 DEF TakeJob
<1>12. ASSUME NEW id \in JobIds, StallJob(id) PROVE Kept(e)
  BY <1>12 DEF StallJob
<1>13. ASSUME NEW s \in Slots, Crash(s) PROVE Kept(e)
  BY <1>13 DEF Crash
<1>14. ASSUME NEW s \in Slots, TryLock(s) PROVE Kept(e)
  BY <1>14 DEF TryLock
<1>15. ASSUME NEW s \in Slots, Start(s) PROVE Kept(e)
  BY <1>15, <1>t DEF Start
<1>16. ASSUME NEW s \in Slots, OpenPdf(s) PROVE Kept(e)
  BY <1>16 DEF OpenPdf
<1>17. ASSUME NEW s \in Slots, PlanRound(s) PROVE Kept(e)
  BY <1>17 DEF PlanRound
<1>18. ASSUME NEW s \in Slots, NEW p \in PageNos, QuickPage(s, p)
      PROVE  Kept(e)
  BY <1>18 DEF QuickPage
<1>19. ASSUME NEW s \in Slots, NEW p \in PageNos, ReplaceChunks(s, p)
      PROVE  Kept(e)
  BY <1>19 DEF ReplaceChunks
<1>20. ASSUME NEW s \in Slots, NEW p \in PageNos, MarkFull(s, p) PROVE Kept(e)
  BY <1>20 DEF MarkFull
<1>21. ASSUME NEW s \in Slots, NEW p \in PageNos, PageRaises(s, p)
      PROVE  Kept(e)
  BY <1>21 DEF PageRaises
<1>22. ASSUME NEW s \in Slots, PoolDrained(s) PROVE Kept(e)
  BY <1>22 DEF PoolDrained
<1>23. ASSUME NEW s \in Slots, Supersede(s) PROVE Kept(e)
  BY <1>23 DEF Supersede
<1>24. ASSUME NEW s \in Slots, Renumber(s) PROVE Kept(e)
  BY <1>24 DEF Renumber
<1>25. ASSUME NEW s \in Slots, ReadChunks(s) PROVE Kept(e)
  BY <1>25 DEF ReadChunks
<1>26. ASSUME NEW s \in Slots, UpsertPoints(s) PROVE Kept(e)
  BY <1>26 DEF UpsertPoints
<1>27. ASSUME NEW s \in Slots, DeleteOldPoints(s) PROVE Kept(e)
  BY <1>27 DEF DeleteOldPoints
<1>28. ASSUME NEW s \in Slots, MarkEmbedded(s) PROVE Kept(e)
  BY <1>28 DEF MarkEmbedded
<1>29. ASSUME NEW s \in Slots, Finalize(s) PROVE Kept(e)
  BY <1>29, <1>t DEF Finalize
<1>30. ASSUME NEW s \in Slots, Unlock(s) PROVE Kept(e)
  BY <1>30 DEF Unlock
<1>31. ASSUME NEW s \in Slots, Notify(s) PROVE Kept(e)
  BY <1>31 DEF Notify
<1>32. ASSUME NEW s \in Slots, CompleteJob(s) PROVE Kept(e)
  BY <1>32 DEF CompleteJob
<1>33. ASSUME NEW s \in Slots, Raise(s) PROVE Kept(e)
  BY <1>33 DEF Raise
<1>34. ASSUME NEW s \in Slots, HandleFailure(s) PROVE Kept(e)
  BY <1>34, <1>t DEF HandleFailure
<1>35. CASE UNCHANGED vars
  BY <1>35 DEF vars
<1> QED
  BY <1>1, <1>2, <1>3, <1>4, <1>5, <1>6, <1>7, <1>8, <1>9, <1>10, <1>11,
     <1>12, <1>13, <1>14, <1>15, <1>16, <1>17, <1>18, <1>19, <1>20, <1>21,
     <1>22, <1>23, <1>24, <1>25, <1>26, <1>27, <1>28, <1>29, <1>30, <1>31,
     <1>32, <1>33, <1>34, <1>35 DEF Next, ApiStep, WorkStep, PageStep,
     FaultStep
-----------------------------------------------------------------------------
(* The inductive invariant, in parts.                                      *)

\* A queued or running job is about a document that was created.
Known ==
  /\ \A id \in JobIds : jobs[id].state # "none" => status[id[1]] # "absent"
  /\ \A s \in Slots : pc[s] # "idle" => status[Doc(s)] # "absent"

\* An execution past document_lock holds its document's lock.
Locked == \A s \in Slots : pc[s] \in Holding => lock[Doc(s)] = s

\* Only an execution in its page pool has pages in hand, and only one that has
\* the PDF open has begun a round.
Tidy ==
  \A s \in Slots :
    /\ halfDone[s] \subseteq fullTodo[s]
    /\ pc[s] \notin {"extract", "draining"} =>
         quickTodo[s] = {} /\ fullTodo[s] = {}
    /\ pc[s] \in {"idle", "claimed", "start", "open", "notify", "complete",
                  "failed"} => round[s] = 0

\* Rows go with their document; a page half done has its chunks.
Rowed ==
  /\ \A pg \in pictured : Exists(pg[1])
  /\ \A s \in Slots : \A p \in halfDone[s] :
       <<Doc(s), p>> \in chunks \/ status[Doc(s)] \in {"deleted", "gone"}

\* How far an execution has brought a document that is still there.
Shown(d) == \A p \in PageNos : <<d, p>> \in pictured
After == {"supersede", "renumber", "embed", "upsert", "retire", "mark",
          "finalize"}
Progress(s) ==
  Exists(Doc(s)) =>
    /\ pc[s] \in After \cup {"modes", "extract", "draining"} =>
         Doc(s) \in counted
    /\ pc[s] = "extract" => \A p \in PageNos : \/ <<Doc(s), p>> \in pictured
                                               \/ p \in quickTodo[s]
    /\ pc[s] = "modes" /\ round[s] # 0 => Shown(Doc(s))
    /\ pc[s] \in After => Shown(Doc(s))

Progressed == \A s \in Slots : Progress(s)

\* A completed document has its page count and its pictures.
Viewable ==
  \A d \in Docs : status[d] = "completed" => d \in counted /\ Shown(d)

\* A document has one revision at most, and a retired one is replaced.
Revised ==
  /\ \A d \in Docs : ~Exists(d) => prev[d] = NoDoc
  /\ \A d, e \in Docs : prev[d] = prev[e] /\ prev[d] # NoDoc => d = e
  /\ \A d \in superseded, e \in Docs : prev[e] = d => Shown(e)

\* The inductive invariant.
IInv == /\ TypeOK /\ Known /\ Locked /\ Tidy /\ Rowed /\ FullPagesHaveChunks
        /\ Progressed /\ Viewable /\ Revised

\* Every action keeps Known.
LEMMA KnownStays ==
  ASSUME TypeOK, [Next]_vars, Known
  PROVE  Known'
<1> USE DEF docVars, pageVars, indexVars, apiVars, slotVars, taskVars,
            sortVars, Goto
<1> USE DEF Known, Doc
<1>t. /\ status \in [Docs -> Statuses] /\ jobs \in [JobIds -> Job]
      /\ pc \in [Slots -> Labels] /\ job \in [Slots -> JobIds]
  BY DEF TypeOK
<1>e. \A id \in JobIds : id[1] \in Docs
  BY DEF JobIds
<1>1. ASSUME NEW d \in Docs, NEW p \in Docs \cup {NoDoc}, InitiateUpload(d, p)
      PROVE  Known'
  BY <1>1, <1>t, <1>e DEF InitiateUpload
<1>2. ASSUME NEW d \in Docs, CompleteUpload(d) PROVE Known'
  BY <1>2, <1>t, <1>e DEF CompleteUpload, Enqueue
<1>3. ASSUME NEW d \in Docs, Reprocess(d) PROVE Known'
  BY <1>3, <1>t, <1>e DEF Reprocess, Enqueue, Live, Exists
<1>4. ASSUME NEW reembed \in BOOLEAN, Reindex(reembed) PROVE Known'
  BY <1>4, <1>t, <1>e DEF Reindex
<1>5. ASSUME NEW d \in Docs, ReindexOne(d) PROVE Known'
  BY <1>5, <1>t, <1>e DEF ReindexOne, Enqueue, Exists
<1>6. ASSUME NEW k \in Kinds, ChooseDisciplines(k) PROVE Known'
  BY <1>6, <1>t, <1>e DEF ChooseDisciplines, QueueDue, Enqueue, Live, Exists
<1>7. ASSUME NEW d \in Docs, DeleteRow(d) PROVE Known'
  BY <1>7, <1>t, <1>e DEF DeleteRow
<1>8. ASSUME NEW d \in Docs, CleanUpDeleted(d) PROVE Known'
  BY <1>8, <1>t, <1>e DEF CleanUpDeleted, FreeJob
<1>9. CASE ReadTitleBlocks
  BY <1>9, <1>t, <1>e DEF ReadTitleBlocks
<1>10. CASE ListenForSortedPages
  BY <1>10, <1>t, <1>e DEF ListenForSortedPages, QueueDue, Enqueue, Live,
     Exists
<1>11. ASSUME NEW s \in Slots, NEW id \in JobIds, TakeJob(s, id) PROVE Known'
  BY <1>11, <1>t, <1>e DEF TakeJob
<1>12. ASSUME NEW id \in JobIds, StallJob(id) PROVE Known'
  BY <1>12, <1>t, <1>e DEF StallJob, Stalled, FreeJob
<1>13. ASSUME NEW s \in Slots, Crash(s) PROVE Known'
  BY <1>13, <1>t, <1>e DEF Crash
<1>14. ASSUME NEW s \in Slots, TryLock(s) PROVE Known'
  BY <1>14, <1>t, <1>e DEF TryLock
<1>15. ASSUME NEW s \in Slots, Start(s) PROVE Known'
  BY <1>15, <1>t, <1>e DEF Start
<1>16. ASSUME NEW s \in Slots, OpenPdf(s) PROVE Known'
  BY <1>16, <1>t, <1>e DEF OpenPdf
<1>17. ASSUME NEW s \in Slots, PlanRound(s) PROVE Known'
  BY <1>17, <1>t, <1>e DEF PlanRound
<1>18. ASSUME NEW s \in Slots, NEW p \in PageNos, QuickPage(s, p) PROVE Known'
  BY <1>18, <1>t, <1>e DEF QuickPage
<1>19. ASSUME NEW s \in Slots, NEW p \in PageNos, ReplaceChunks(s, p)
      PROVE  Known'
  BY <1>19, <1>t, <1>e DEF ReplaceChunks
<1>20. ASSUME NEW s \in Slots, NEW p \in PageNos, MarkFull(s, p) PROVE Known'
  BY <1>20, <1>t, <1>e DEF MarkFull
<1>21. ASSUME NEW s \in Slots, NEW p \in PageNos, PageRaises(s, p)
      PROVE  Known'
  BY <1>21, <1>t, <1>e DEF PageRaises
<1>22. ASSUME NEW s \in Slots, PoolDrained(s) PROVE Known'
  BY <1>22, <1>t, <1>e DEF PoolDrained
<1>23. ASSUME NEW s \in Slots, Supersede(s) PROVE Known'
  BY <1>23, <1>t, <1>e DEF Supersede
<1>24. ASSUME NEW s \in Slots, Renumber(s) PROVE Known'
  BY <1>24, <1>t, <1>e DEF Renumber
<1>25. ASSUME NEW s \in Slots, ReadChunks(s) PROVE Known'
  BY <1>25, <1>t, <1>e DEF ReadChunks
<1>26. ASSUME NEW s \in Slots, UpsertPoints(s) PROVE Known'
  BY <1>26, <1>t, <1>e DEF UpsertPoints
<1>27. ASSUME NEW s \in Slots, DeleteOldPoints(s) PROVE Known'
  BY <1>27, <1>t, <1>e DEF DeleteOldPoints
<1>28. ASSUME NEW s \in Slots, MarkEmbedded(s) PROVE Known'
  BY <1>28, <1>t, <1>e DEF MarkEmbedded
<1>29. ASSUME NEW s \in Slots, Finalize(s) PROVE Known'
  BY <1>29, <1>t, <1>e DEF Finalize
<1>30. ASSUME NEW s \in Slots, Unlock(s) PROVE Known'
  BY <1>30, <1>t, <1>e DEF Unlock
<1>31. ASSUME NEW s \in Slots, Notify(s) PROVE Known'
  BY <1>31, <1>t, <1>e DEF Notify
<1>32. ASSUME NEW s \in Slots, CompleteJob(s) PROVE Known'
  BY <1>32, <1>t, <1>e DEF CompleteJob
<1>33. ASSUME NEW s \in Slots, Raise(s) PROVE Known'
  BY <1>33, <1>t, <1>e DEF Raise
<1>34. ASSUME NEW s \in Slots, HandleFailure(s) PROVE Known'
  BY <1>34, <1>t, <1>e DEF HandleFailure, FreeJob
<1>35. CASE UNCHANGED vars
  BY <1>35 DEF vars
<1> QED
  BY <1>1, <1>2, <1>3, <1>4, <1>5, <1>6, <1>7, <1>8, <1>9, <1>10, <1>11,
     <1>12, <1>13, <1>14, <1>15, <1>16, <1>17, <1>18, <1>19, <1>20, <1>21,
     <1>22, <1>23, <1>24, <1>25, <1>26, <1>27, <1>28, <1>29, <1>30, <1>31,
     <1>32, <1>33, <1>34, <1>35 DEF Next, ApiStep, WorkStep, PageStep,
     FaultStep

\* Every action keeps Locked.
LEMMA LockedStays ==
  ASSUME TypeOK, [Next]_vars, Locked
  PROVE  Locked'
<1> USE DEF docVars, pageVars, indexVars, apiVars, slotVars, taskVars,
            sortVars, Goto
<1> USE DEF Locked, Holding, Doc
<1>t. /\ pc \in [Slots -> Labels] /\ job \in [Slots -> JobIds]
      /\ lock \in [Docs -> Slots \cup {NoSlot}]
      /\ \A s \in Slots : job[s][1] \in Docs
  BY DocType DEF TypeOK, Doc
<1>1. ASSUME NEW d \in Docs, NEW p \in Docs \cup {NoDoc}, InitiateUpload(d, p)
      PROVE  Locked'
  BY <1>1, <1>t DEF InitiateUpload
<1>2. ASSUME NEW d \in Docs, CompleteUpload(d) PROVE Locked'
  BY <1>2, <1>t DEF CompleteUpload
<1>3. ASSUME NEW d \in Docs, Reprocess(d) PROVE Locked'
  BY <1>3, <1>t DEF Reprocess
<1>4. ASSUME NEW reembed \in BOOLEAN, Reindex(reembed) PROVE Locked'
  BY <1>4, <1>t DEF Reindex
<1>5. ASSUME NEW d \in Docs, ReindexOne(d) PROVE Locked'
  BY <1>5, <1>t DEF ReindexOne
<1>6. ASSUME NEW k \in Kinds, ChooseDisciplines(k) PROVE Locked'
  BY <1>6, <1>t DEF ChooseDisciplines
<1>7. ASSUME NEW d \in Docs, DeleteRow(d) PROVE Locked'
  BY <1>7, <1>t DEF DeleteRow
<1>8. ASSUME NEW d \in Docs, CleanUpDeleted(d) PROVE Locked'
  BY <1>8, <1>t DEF CleanUpDeleted
<1>9. CASE ReadTitleBlocks
  BY <1>9, <1>t DEF ReadTitleBlocks
<1>10. CASE ListenForSortedPages
  BY <1>10, <1>t DEF ListenForSortedPages
<1>11. ASSUME NEW s \in Slots, NEW id \in JobIds, TakeJob(s, id) PROVE Locked'
  BY <1>11, <1>t DEF TakeJob
<1>12. ASSUME NEW id \in JobIds, StallJob(id) PROVE Locked'
  BY <1>12, <1>t DEF StallJob
<1>13. ASSUME NEW s \in Slots, Crash(s) PROVE Locked'
  BY <1>13, <1>t DEF Crash, Unlocked
<1>14. ASSUME NEW s \in Slots, TryLock(s) PROVE Locked'
  BY <1>14, <1>t DEF TryLock
<1>15. ASSUME NEW s \in Slots, Start(s) PROVE Locked'
  BY <1>15, <1>t DEF Start, Unlocked
<1>16. ASSUME NEW s \in Slots, OpenPdf(s) PROVE Locked'
  BY <1>16, <1>t DEF OpenPdf
<1>17. ASSUME NEW s \in Slots, PlanRound(s) PROVE Locked'
  BY <1>17, <1>t DEF PlanRound
<1>18. ASSUME NEW s \in Slots, NEW p \in PageNos, QuickPage(s, p)
      PROVE  Locked'
  BY <1>18, <1>t DEF QuickPage
<1>19. ASSUME NEW s \in Slots, NEW p \in PageNos, ReplaceChunks(s, p)
      PROVE  Locked'
  BY <1>19, <1>t DEF ReplaceChunks
<1>20. ASSUME NEW s \in Slots, NEW p \in PageNos, MarkFull(s, p) PROVE Locked'
  BY <1>20, <1>t DEF MarkFull
<1>21. ASSUME NEW s \in Slots, NEW p \in PageNos, PageRaises(s, p)
      PROVE  Locked'
  BY <1>21, <1>t DEF PageRaises
<1>22. ASSUME NEW s \in Slots, PoolDrained(s) PROVE Locked'
  BY <1>22, <1>t DEF PoolDrained, Unlocked
<1>23. ASSUME NEW s \in Slots, Supersede(s) PROVE Locked'
  BY <1>23, <1>t DEF Supersede, Unlocked
<1>24. ASSUME NEW s \in Slots, Renumber(s) PROVE Locked'
  BY <1>24, <1>t DEF Renumber
<1>25. ASSUME NEW s \in Slots, ReadChunks(s) PROVE Locked'
  BY <1>25, <1>t DEF ReadChunks, Unlocked
<1>26. ASSUME NEW s \in Slots, UpsertPoints(s) PROVE Locked'
  BY <1>26, <1>t DEF UpsertPoints
<1>27. ASSUME NEW s \in Slots, DeleteOldPoints(s) PROVE Locked'
  BY <1>27, <1>t DEF DeleteOldPoints
<1>28. ASSUME NEW s \in Slots, MarkEmbedded(s) PROVE Locked'
  BY <1>28, <1>t DEF MarkEmbedded
<1>29. ASSUME NEW s \in Slots, Finalize(s) PROVE Locked'
  BY <1>29, <1>t DEF Finalize
<1>30. ASSUME NEW s \in Slots, Unlock(s) PROVE Locked'
  BY <1>30, <1>t DEF Unlock, Unlocked
<1>31. ASSUME NEW s \in Slots, Notify(s) PROVE Locked'
  BY <1>31, <1>t DEF Notify
<1>32. ASSUME NEW s \in Slots, CompleteJob(s) PROVE Locked'
  BY <1>32, <1>t DEF CompleteJob
<1>33. ASSUME NEW s \in Slots, Raise(s) PROVE Locked'
  BY <1>33, <1>t DEF Raise, Unlocked
<1>34. ASSUME NEW s \in Slots, HandleFailure(s) PROVE Locked'
  BY <1>34, <1>t DEF HandleFailure
<1>35. CASE UNCHANGED vars
  BY <1>35 DEF vars
<1> QED
  BY <1>1, <1>2, <1>3, <1>4, <1>5, <1>6, <1>7, <1>8, <1>9, <1>10, <1>11,
     <1>12, <1>13, <1>14, <1>15, <1>16, <1>17, <1>18, <1>19, <1>20, <1>21,
     <1>22, <1>23, <1>24, <1>25, <1>26, <1>27, <1>28, <1>29, <1>30, <1>31,
     <1>32, <1>33, <1>34, <1>35 DEF Next, ApiStep, WorkStep, PageStep,
     FaultStep

\* Every action keeps Tidy.
LEMMA TidyStays ==
  ASSUME TypeOK, [Next]_vars, Tidy
  PROVE  Tidy'
<1> USE DEF docVars, pageVars, indexVars, apiVars, slotVars, taskVars,
            sortVars, Goto
<1> USE DEF Tidy
<1>t. /\ pc \in [Slots -> Labels] /\ round \in [Slots -> Nat]
      /\ quickTodo \in [Slots -> SUBSET PageNos]
      /\ fullTodo \in [Slots -> SUBSET PageNos]
      /\ halfDone \in [Slots -> SUBSET PageNos]
  BY DEF TypeOK
<1>1. ASSUME NEW d \in Docs, NEW p \in Docs \cup {NoDoc}, InitiateUpload(d, p)
      PROVE  Tidy'
  BY <1>1, <1>t DEF InitiateUpload
<1>2. ASSUME NEW d \in Docs, CompleteUpload(d) PROVE Tidy'
  BY <1>2, <1>t DEF CompleteUpload
<1>3. ASSUME NEW d \in Docs, Reprocess(d) PROVE Tidy'
  BY <1>3, <1>t DEF Reprocess
<1>4. ASSUME NEW reembed \in BOOLEAN, Reindex(reembed) PROVE Tidy'
  BY <1>4, <1>t DEF Reindex
<1>5. ASSUME NEW d \in Docs, ReindexOne(d) PROVE Tidy'
  BY <1>5, <1>t DEF ReindexOne
<1>6. ASSUME NEW k \in Kinds, ChooseDisciplines(k) PROVE Tidy'
  BY <1>6, <1>t DEF ChooseDisciplines
<1>7. ASSUME NEW d \in Docs, DeleteRow(d) PROVE Tidy'
  BY <1>7, <1>t DEF DeleteRow
<1>8. ASSUME NEW d \in Docs, CleanUpDeleted(d) PROVE Tidy'
  BY <1>8, <1>t DEF CleanUpDeleted
<1>9. CASE ReadTitleBlocks
  BY <1>9, <1>t DEF ReadTitleBlocks
<1>10. CASE ListenForSortedPages
  BY <1>10, <1>t DEF ListenForSortedPages
<1>11. ASSUME NEW s \in Slots, NEW id \in JobIds, TakeJob(s, id) PROVE Tidy'
  BY <1>11, <1>t DEF TakeJob
<1>12. ASSUME NEW id \in JobIds, StallJob(id) PROVE Tidy'
  BY <1>12, <1>t DEF StallJob
<1>13. ASSUME NEW s \in Slots, Crash(s) PROVE Tidy'
  BY <1>13, <1>t DEF Crash, ClearTask
<1>14. ASSUME NEW s \in Slots, TryLock(s) PROVE Tidy'
  BY <1>14, <1>t DEF TryLock
<1>15. ASSUME NEW s \in Slots, Start(s) PROVE Tidy'
  BY <1>15, <1>t DEF Start
<1>16. ASSUME NEW s \in Slots, OpenPdf(s) PROVE Tidy'
  BY <1>16, <1>t DEF OpenPdf
<1>17. ASSUME NEW s \in Slots, PlanRound(s) PROVE Tidy'
  BY <1>17, <1>t DEF PlanRound
<1>18. ASSUME NEW s \in Slots, NEW p \in PageNos, QuickPage(s, p) PROVE Tidy'
  BY <1>18, <1>t DEF QuickPage
<1>19. ASSUME NEW s \in Slots, NEW p \in PageNos, ReplaceChunks(s, p)
      PROVE  Tidy'
  BY <1>19, <1>t DEF ReplaceChunks
<1>20. ASSUME NEW s \in Slots, NEW p \in PageNos, MarkFull(s, p) PROVE Tidy'
  BY <1>20, <1>t DEF MarkFull
<1>21. ASSUME NEW s \in Slots, NEW p \in PageNos, PageRaises(s, p) PROVE Tidy'
  BY <1>21, <1>t DEF PageRaises
<1>22. ASSUME NEW s \in Slots, PoolDrained(s) PROVE Tidy'
  BY <1>22, <1>t DEF PoolDrained, ClearTask
<1>23. ASSUME NEW s \in Slots, Supersede(s) PROVE Tidy'
  BY <1>23, <1>t DEF Supersede, ClearTask
<1>24. ASSUME NEW s \in Slots, Renumber(s) PROVE Tidy'
  BY <1>24, <1>t DEF Renumber
<1>25. ASSUME NEW s \in Slots, ReadChunks(s) PROVE Tidy'
  BY <1>25, <1>t DEF ReadChunks, ClearTask
<1>26. ASSUME NEW s \in Slots, UpsertPoints(s) PROVE Tidy'
  BY <1>26, <1>t DEF UpsertPoints
<1>27. ASSUME NEW s \in Slots, DeleteOldPoints(s) PROVE Tidy'
  BY <1>27, <1>t DEF DeleteOldPoints
<1>28. ASSUME NEW s \in Slots, MarkEmbedded(s) PROVE Tidy'
  BY <1>28, <1>t DEF MarkEmbedded
<1>29. ASSUME NEW s \in Slots, Finalize(s) PROVE Tidy'
  BY <1>29, <1>t DEF Finalize
<1>30. ASSUME NEW s \in Slots, Unlock(s) PROVE Tidy'
  BY <1>30, <1>t DEF Unlock, ClearTask
<1>31. ASSUME NEW s \in Slots, Notify(s) PROVE Tidy'
  BY <1>31, <1>t DEF Notify
<1>32. ASSUME NEW s \in Slots, CompleteJob(s) PROVE Tidy'
  BY <1>32, <1>t DEF CompleteJob
<1>33. ASSUME NEW s \in Slots, Raise(s) PROVE Tidy'
  BY <1>33, <1>t DEF Raise, ClearTask
<1>34. ASSUME NEW s \in Slots, HandleFailure(s) PROVE Tidy'
  BY <1>34, <1>t DEF HandleFailure
<1>35. CASE UNCHANGED vars
  BY <1>35 DEF vars
<1> QED
  BY <1>1, <1>2, <1>3, <1>4, <1>5, <1>6, <1>7, <1>8, <1>9, <1>10, <1>11,
     <1>12, <1>13, <1>14, <1>15, <1>16, <1>17, <1>18, <1>19, <1>20, <1>21,
     <1>22, <1>23, <1>24, <1>25, <1>26, <1>27, <1>28, <1>29, <1>30, <1>31,
     <1>32, <1>33, <1>34, <1>35 DEF Next, ApiStep, WorkStep, PageStep,
     FaultStep

\* Every action keeps Rowed.
LEMMA RowedStays ==
  ASSUME TypeOK, [Next]_vars, Known, Tidy, Rowed
  PROVE  Rowed'
<1> USE DEF docVars, pageVars, indexVars, apiVars, slotVars, taskVars,
            sortVars, Goto
<1> USE DEF Rowed, Exists, Doc
<1>t. /\ pc \in [Slots -> Labels] /\ job \in [Slots -> JobIds]
      /\ status \in [Docs -> Statuses] /\ halfDone \in [Slots -> SUBSET PageNos]
      /\ pictured \subseteq Pages
      /\ \A s \in Slots : job[s][1] \in Docs
  BY DocType DEF TypeOK, Doc
<1>i. \A s \in Slots : pc[s] \notin {"extract", "draining"} => halfDone[s] = {}
  BY <1>t DEF Tidy
<1>p. \A pg \in Pages : pg[1] \in Docs
  BY DEF Pages
<1>1. ASSUME NEW d \in Docs, NEW p \in Docs \cup {NoDoc}, InitiateUpload(d, p)
      PROVE  Rowed'
  BY <1>1, <1>t DEF InitiateUpload
<1>2. ASSUME NEW d \in Docs, CompleteUpload(d) PROVE Rowed'
  BY <1>2, <1>t, <1>p DEF CompleteUpload
<1>3. ASSUME NEW d \in Docs, Reprocess(d) PROVE Rowed'
  BY <1>3, <1>t DEF Reprocess, Live
<1>4. ASSUME NEW reembed \in BOOLEAN, Reindex(reembed) PROVE Rowed'
  BY <1>4, <1>t DEF Reindex
<1>5. ASSUME NEW d \in Docs, ReindexOne(d) PROVE Rowed'
  BY <1>5, <1>t, <1>p DEF ReindexOne
<1>6. ASSUME NEW k \in Kinds, ChooseDisciplines(k) PROVE Rowed'
  BY <1>6, <1>t DEF ChooseDisciplines
<1>7. ASSUME NEW d \in Docs, DeleteRow(d) PROVE Rowed'
  BY <1>7, <1>t, <1>p DEF DeleteRow, PagesOf
<1>8. ASSUME NEW d \in Docs, CleanUpDeleted(d) PROVE Rowed'
  BY <1>8, <1>t DEF CleanUpDeleted
<1>9. CASE ReadTitleBlocks
  BY <1>9, <1>t DEF ReadTitleBlocks
<1>10. CASE ListenForSortedPages
  BY <1>10, <1>t DEF ListenForSortedPages
<1>11. ASSUME NEW s \in Slots, NEW id \in JobIds, TakeJob(s, id) PROVE Rowed'
  BY <1>11, <1>t, <1>i DEF TakeJob
<1>12. ASSUME NEW id \in JobIds, StallJob(id) PROVE Rowed'
  BY <1>12, <1>t DEF StallJob
<1>13. ASSUME NEW s \in Slots, Crash(s) PROVE Rowed'
  BY <1>13, <1>t DEF Crash, ClearTask
<1>14. ASSUME NEW s \in Slots, TryLock(s) PROVE Rowed'
  BY <1>14, <1>t DEF TryLock
<1>15. ASSUME NEW s \in Slots, Start(s) PROVE Rowed'
  BY <1>15, <1>t, <1>p DEF Start
<1>16. ASSUME NEW s \in Slots, OpenPdf(s) PROVE Rowed'
  BY <1>16, <1>t DEF OpenPdf
<1>17. ASSUME NEW s \in Slots, PlanRound(s) PROVE Rowed'
  BY <1>17, <1>t DEF PlanRound
<1>18. ASSUME NEW s \in Slots, NEW p \in PageNos, QuickPage(s, p) PROVE Rowed'
  BY <1>18, <1>t DEF QuickPage
<1>19. ASSUME NEW s \in Slots, NEW p \in PageNos, ReplaceChunks(s, p)
      PROVE  Rowed'
  BY <1>19, <1>t DEF ReplaceChunks
<1>20. ASSUME NEW s \in Slots, NEW p \in PageNos, MarkFull(s, p) PROVE Rowed'
  BY <1>20, <1>t DEF MarkFull
<1>21. ASSUME NEW s \in Slots, NEW p \in PageNos, PageRaises(s, p)
      PROVE  Rowed'
  BY <1>21, <1>t DEF PageRaises
<1>22. ASSUME NEW s \in Slots, PoolDrained(s) PROVE Rowed'
  BY <1>22, <1>t DEF PoolDrained, ClearTask
<1>23. ASSUME NEW s \in Slots, Supersede(s) PROVE Rowed'
  BY <1>23, <1>t DEF Supersede, ClearTask
<1>24. ASSUME NEW s \in Slots, Renumber(s) PROVE Rowed'
  BY <1>24, <1>t DEF Renumber
<1>25. ASSUME NEW s \in Slots, ReadChunks(s) PROVE Rowed'
  BY <1>25, <1>t DEF ReadChunks, ClearTask
<1>26. ASSUME NEW s \in Slots, UpsertPoints(s) PROVE Rowed'
  BY <1>26, <1>t DEF UpsertPoints
<1>27. ASSUME NEW s \in Slots, DeleteOldPoints(s) PROVE Rowed'
  BY <1>27, <1>t DEF DeleteOldPoints
<1>28. ASSUME NEW s \in Slots, MarkEmbedded(s) PROVE Rowed'
  BY <1>28, <1>t DEF MarkEmbedded
<1>29. ASSUME NEW s \in Slots, Finalize(s) PROVE Rowed'
  BY <1>29, <1>t DEF Finalize
<1>30. ASSUME NEW s \in Slots, Unlock(s) PROVE Rowed'
  BY <1>30, <1>t DEF Unlock, ClearTask
<1>31. ASSUME NEW s \in Slots, Notify(s) PROVE Rowed'
  BY <1>31, <1>t DEF Notify
<1>32. ASSUME NEW s \in Slots, CompleteJob(s) PROVE Rowed'
  BY <1>32, <1>t, <1>i DEF CompleteJob
<1>33. ASSUME NEW s \in Slots, Raise(s) PROVE Rowed'
  BY <1>33, <1>t DEF Raise, ClearTask
<1>34. ASSUME NEW s \in Slots, HandleFailure(s) PROVE Rowed'
  BY <1>34, <1>t, <1>i, <1>p DEF HandleFailure
<1>35. CASE UNCHANGED vars
  BY <1>35 DEF vars
<1> QED
  BY <1>1, <1>2, <1>3, <1>4, <1>5, <1>6, <1>7, <1>8, <1>9, <1>10, <1>11,
     <1>12, <1>13, <1>14, <1>15, <1>16, <1>17, <1>18, <1>19, <1>20, <1>21,
     <1>22, <1>23, <1>24, <1>25, <1>26, <1>27, <1>28, <1>29, <1>30, <1>31,
     <1>32, <1>33, <1>34, <1>35 DEF Next, ApiStep, WorkStep, PageStep,
     FaultStep

\* Every action keeps FullPagesHaveChunks.
LEMMA FullStays ==
  ASSUME TypeOK, [Next]_vars, Rowed, FullPagesHaveChunks
  PROVE  FullPagesHaveChunks'
<1> USE DEF docVars, pageVars, indexVars, apiVars, slotVars, taskVars,
            sortVars, Goto
<1> USE DEF FullPagesHaveChunks
<1>r. \A s \in Slots : \A p \in halfDone[s] :
        <<Doc(s), p>> \in pictured => <<Doc(s), p>> \in chunks
  <2> SUFFICES ASSUME NEW s \in Slots, NEW p \in halfDone[s],
                      <<Doc(s), p>> \in pictured
               PROVE  <<Doc(s), p>> \in chunks
    OBVIOUS
  <2>1. Exists(<<Doc(s), p>>[1])
    BY DEF Rowed
  <2>2. status[Doc(s)] \notin {"deleted", "gone"}
    BY <2>1 DEF Exists
  <2> QED BY <2>2 DEF Rowed
<1>1. ASSUME NEW d \in Docs, NEW p \in Docs \cup {NoDoc}, InitiateUpload(d, p)
      PROVE  FullPagesHaveChunks'
  BY <1>1 DEF InitiateUpload
<1>2. ASSUME NEW d \in Docs, CompleteUpload(d) PROVE FullPagesHaveChunks'
  BY <1>2 DEF CompleteUpload
<1>3. ASSUME NEW d \in Docs, Reprocess(d) PROVE FullPagesHaveChunks'
  BY <1>3 DEF Reprocess
<1>4. ASSUME NEW reembed \in BOOLEAN, Reindex(reembed)
      PROVE  FullPagesHaveChunks'
  BY <1>4 DEF Reindex
<1>5. ASSUME NEW d \in Docs, ReindexOne(d) PROVE FullPagesHaveChunks'
  BY <1>5 DEF ReindexOne
<1>6. ASSUME NEW k \in Kinds, ChooseDisciplines(k) PROVE FullPagesHaveChunks'
  BY <1>6 DEF ChooseDisciplines
<1>7. ASSUME NEW d \in Docs, DeleteRow(d) PROVE FullPagesHaveChunks'
  BY <1>7 DEF DeleteRow
<1>8. ASSUME NEW d \in Docs, CleanUpDeleted(d) PROVE FullPagesHaveChunks'
  BY <1>8 DEF CleanUpDeleted
<1>9. CASE ReadTitleBlocks
  BY <1>9 DEF ReadTitleBlocks
<1>10. CASE ListenForSortedPages
  BY <1>10 DEF ListenForSortedPages
<1>11. ASSUME NEW s \in Slots, NEW id \in JobIds, TakeJob(s, id)
      PROVE  FullPagesHaveChunks'
  BY <1>11 DEF TakeJob
<1>12. ASSUME NEW id \in JobIds, StallJob(id) PROVE FullPagesHaveChunks'
  BY <1>12 DEF StallJob
<1>13. ASSUME NEW s \in Slots, Crash(s) PROVE FullPagesHaveChunks'
  BY <1>13 DEF Crash
<1>14. ASSUME NEW s \in Slots, TryLock(s) PROVE FullPagesHaveChunks'
  BY <1>14 DEF TryLock
<1>15. ASSUME NEW s \in Slots, Start(s) PROVE FullPagesHaveChunks'
  BY <1>15 DEF Start
<1>16. ASSUME NEW s \in Slots, OpenPdf(s) PROVE FullPagesHaveChunks'
  BY <1>16 DEF OpenPdf
<1>17. ASSUME NEW s \in Slots, PlanRound(s) PROVE FullPagesHaveChunks'
  BY <1>17 DEF PlanRound
<1>18. ASSUME NEW s \in Slots, NEW p \in PageNos, QuickPage(s, p)
      PROVE  FullPagesHaveChunks'
  BY <1>18 DEF QuickPage
<1>19. ASSUME NEW s \in Slots, NEW p \in PageNos, ReplaceChunks(s, p)
      PROVE  FullPagesHaveChunks'
  BY <1>19 DEF ReplaceChunks
<1>20. ASSUME NEW s \in Slots, NEW p \in PageNos, MarkFull(s, p)
      PROVE  FullPagesHaveChunks'
  BY <1>20, <1>r DEF MarkFull
<1>21. ASSUME NEW s \in Slots, NEW p \in PageNos, PageRaises(s, p)
      PROVE  FullPagesHaveChunks'
  BY <1>21 DEF PageRaises
<1>22. ASSUME NEW s \in Slots, PoolDrained(s) PROVE FullPagesHaveChunks'
  BY <1>22 DEF PoolDrained
<1>23. ASSUME NEW s \in Slots, Supersede(s) PROVE FullPagesHaveChunks'
  BY <1>23 DEF Supersede
<1>24. ASSUME NEW s \in Slots, Renumber(s) PROVE FullPagesHaveChunks'
  BY <1>24 DEF Renumber
<1>25. ASSUME NEW s \in Slots, ReadChunks(s) PROVE FullPagesHaveChunks'
  BY <1>25 DEF ReadChunks
<1>26. ASSUME NEW s \in Slots, UpsertPoints(s) PROVE FullPagesHaveChunks'
  BY <1>26 DEF UpsertPoints
<1>27. ASSUME NEW s \in Slots, DeleteOldPoints(s) PROVE FullPagesHaveChunks'
  BY <1>27 DEF DeleteOldPoints
<1>28. ASSUME NEW s \in Slots, MarkEmbedded(s) PROVE FullPagesHaveChunks'
  BY <1>28 DEF MarkEmbedded
<1>29. ASSUME NEW s \in Slots, Finalize(s) PROVE FullPagesHaveChunks'
  BY <1>29 DEF Finalize
<1>30. ASSUME NEW s \in Slots, Unlock(s) PROVE FullPagesHaveChunks'
  BY <1>30 DEF Unlock
<1>31. ASSUME NEW s \in Slots, Notify(s) PROVE FullPagesHaveChunks'
  BY <1>31 DEF Notify
<1>32. ASSUME NEW s \in Slots, CompleteJob(s) PROVE FullPagesHaveChunks'
  BY <1>32 DEF CompleteJob
<1>33. ASSUME NEW s \in Slots, Raise(s) PROVE FullPagesHaveChunks'
  BY <1>33 DEF Raise
<1>34. ASSUME NEW s \in Slots, HandleFailure(s) PROVE FullPagesHaveChunks'
  BY <1>34 DEF HandleFailure
<1>35. CASE UNCHANGED vars
  BY <1>35 DEF vars
<1> QED
  BY <1>1, <1>2, <1>3, <1>4, <1>5, <1>6, <1>7, <1>8, <1>9, <1>10, <1>11,
     <1>12, <1>13, <1>14, <1>15, <1>16, <1>17, <1>18, <1>19, <1>20, <1>21,
     <1>22, <1>23, <1>24, <1>25, <1>26, <1>27, <1>28, <1>29, <1>30, <1>31,
     <1>32, <1>33, <1>34, <1>35 DEF Next, ApiStep, WorkStep, PageStep,
     FaultStep

\* Every action keeps Viewable.
LEMMA ViewableStays ==
  ASSUME TypeOK, [Next]_vars, Progressed, Viewable
  PROVE  Viewable'
<1> USE DEF docVars, pageVars, indexVars, apiVars, slotVars, taskVars,
            sortVars, Goto
<1> USE DEF Viewable, Shown, Doc
<1>t. /\ status \in [Docs -> Statuses]
      /\ \A s \in Slots : job[s][1] \in Docs
  BY DocType DEF TypeOK, Doc
<1>1. ASSUME NEW d \in Docs, NEW p \in Docs \cup {NoDoc}, InitiateUpload(d, p)
      PROVE  Viewable'
  BY <1>1, <1>t DEF InitiateUpload
<1>2. ASSUME NEW d \in Docs, CompleteUpload(d) PROVE Viewable'
  BY <1>2, <1>t DEF CompleteUpload
<1>3. ASSUME NEW d \in Docs, Reprocess(d) PROVE Viewable'
  BY <1>3, <1>t DEF Reprocess
<1>4. ASSUME NEW reembed \in BOOLEAN, Reindex(reembed) PROVE Viewable'
  BY <1>4, <1>t DEF Reindex
<1>5. ASSUME NEW d \in Docs, ReindexOne(d) PROVE Viewable'
  BY <1>5, <1>t DEF ReindexOne
<1>6. ASSUME NEW k \in Kinds, ChooseDisciplines(k) PROVE Viewable'
  BY <1>6, <1>t DEF ChooseDisciplines
<1>7. ASSUME NEW d \in Docs, DeleteRow(d) PROVE Viewable'
  BY <1>7, <1>t DEF DeleteRow, PagesOf
<1>8. ASSUME NEW d \in Docs, CleanUpDeleted(d) PROVE Viewable'
  BY <1>8, <1>t DEF CleanUpDeleted
<1>9. CASE ReadTitleBlocks
  BY <1>9, <1>t DEF ReadTitleBlocks
<1>10. CASE ListenForSortedPages
  BY <1>10, <1>t DEF ListenForSortedPages
<1>11. ASSUME NEW s \in Slots, NEW id \in JobIds, TakeJob(s, id)
      PROVE  Viewable'
  BY <1>11, <1>t DEF TakeJob
<1>12. ASSUME NEW id \in JobIds, StallJob(id) PROVE Viewable'
  BY <1>12, <1>t DEF StallJob
<1>13. ASSUME NEW s \in Slots, Crash(s) PROVE Viewable'
  BY <1>13, <1>t DEF Crash
<1>14. ASSUME NEW s \in Slots, TryLock(s) PROVE Viewable'
  BY <1>14, <1>t DEF TryLock
<1>15. ASSUME NEW s \in Slots, Start(s) PROVE Viewable'
  BY <1>15, <1>t DEF Start
<1>16. ASSUME NEW s \in Slots, OpenPdf(s) PROVE Viewable'
  BY <1>16, <1>t DEF OpenPdf
<1>17. ASSUME NEW s \in Slots, PlanRound(s) PROVE Viewable'
  BY <1>17, <1>t DEF PlanRound
<1>18. ASSUME NEW s \in Slots, NEW p \in PageNos, QuickPage(s, p)
      PROVE  Viewable'
  BY <1>18, <1>t DEF QuickPage
<1>19. ASSUME NEW s \in Slots, NEW p \in PageNos, ReplaceChunks(s, p)
      PROVE  Viewable'
  BY <1>19, <1>t DEF ReplaceChunks
<1>20. ASSUME NEW s \in Slots, NEW p \in PageNos, MarkFull(s, p)
      PROVE  Viewable'
  BY <1>20, <1>t DEF MarkFull
<1>21. ASSUME NEW s \in Slots, NEW p \in PageNos, PageRaises(s, p)
      PROVE  Viewable'
  BY <1>21, <1>t DEF PageRaises
<1>22. ASSUME NEW s \in Slots, PoolDrained(s) PROVE Viewable'
  BY <1>22, <1>t DEF PoolDrained
<1>23. ASSUME NEW s \in Slots, Supersede(s) PROVE Viewable'
  BY <1>23, <1>t DEF Supersede
<1>24. ASSUME NEW s \in Slots, Renumber(s) PROVE Viewable'
  BY <1>24, <1>t DEF Renumber
<1>25. ASSUME NEW s \in Slots, ReadChunks(s) PROVE Viewable'
  BY <1>25, <1>t DEF ReadChunks
<1>26. ASSUME NEW s \in Slots, UpsertPoints(s) PROVE Viewable'
  BY <1>26, <1>t DEF UpsertPoints
<1>27. ASSUME NEW s \in Slots, DeleteOldPoints(s) PROVE Viewable'
  BY <1>27, <1>t DEF DeleteOldPoints
<1>28. ASSUME NEW s \in Slots, MarkEmbedded(s) PROVE Viewable'
  BY <1>28, <1>t DEF MarkEmbedded
<1>29. ASSUME NEW s \in Slots, Finalize(s) PROVE Viewable'
  BY <1>29, <1>t DEF Finalize, Progressed, Progress, After, Exists
<1>30. ASSUME NEW s \in Slots, Unlock(s) PROVE Viewable'
  BY <1>30, <1>t DEF Unlock
<1>31. ASSUME NEW s \in Slots, Notify(s) PROVE Viewable'
  BY <1>31, <1>t DEF Notify
<1>32. ASSUME NEW s \in Slots, CompleteJob(s) PROVE Viewable'
  BY <1>32, <1>t DEF CompleteJob
<1>33. ASSUME NEW s \in Slots, Raise(s) PROVE Viewable'
  BY <1>33, <1>t DEF Raise
<1>34. ASSUME NEW s \in Slots, HandleFailure(s) PROVE Viewable'
  BY <1>34, <1>t DEF HandleFailure
<1>35. CASE UNCHANGED vars
  BY <1>35 DEF vars
<1> QED
  BY <1>1, <1>2, <1>3, <1>4, <1>5, <1>6, <1>7, <1>8, <1>9, <1>10, <1>11,
     <1>12, <1>13, <1>14, <1>15, <1>16, <1>17, <1>18, <1>19, <1>20, <1>21,
     <1>22, <1>23, <1>24, <1>25, <1>26, <1>27, <1>28, <1>29, <1>30, <1>31,
     <1>32, <1>33, <1>34, <1>35 DEF Next, ApiStep, WorkStep, PageStep,
     FaultStep

\* "No document" is none of the documents.
LEMMA NoDocNotDoc == NoDoc \notin Docs
BY DEF NoDoc, Docs

\* Every action keeps Revised.
LEMMA RevisedStays ==
  ASSUME TypeOK, [Next]_vars, Progressed, Revised
  PROVE  Revised'
<1> USE DEF docVars, pageVars, indexVars, apiVars, slotVars, taskVars,
            sortVars, Goto
<1> USE DEF Revised, Shown, Doc, Exists
<1>t. /\ status \in [Docs -> Statuses] /\ prev \in [Docs -> Docs \cup {NoDoc}]
      /\ \A s \in Slots : job[s][1] \in Docs
  BY DocType DEF TypeOK, Doc
<1>1. ASSUME NEW d \in Docs, NEW p \in Docs \cup {NoDoc}, InitiateUpload(d, p)
      PROVE  Revised'
  BY <1>1, <1>t DEF InitiateUpload, Live
<1>2. ASSUME NEW d \in Docs, CompleteUpload(d) PROVE Revised'
  BY <1>2, <1>t DEF CompleteUpload
<1>3. ASSUME NEW d \in Docs, Reprocess(d) PROVE Revised'
  BY <1>3, <1>t DEF Reprocess, Live
<1>4. ASSUME NEW reembed \in BOOLEAN, Reindex(reembed) PROVE Revised'
  BY <1>4, <1>t DEF Reindex
<1>5. ASSUME NEW d \in Docs, ReindexOne(d) PROVE Revised'
  BY <1>5, <1>t, ZenonT(30) DEF ReindexOne
<1>6. ASSUME NEW k \in Kinds, ChooseDisciplines(k) PROVE Revised'
  BY <1>6, <1>t DEF ChooseDisciplines
<1>7. ASSUME NEW d \in Docs, DeleteRow(d) PROVE Revised'
  <2>1. /\ status' = [status EXCEPT ![d] = "deleted"]
        /\ prev' = [e \in Docs |-> IF prev[e] = d \/ e = d THEN NoDoc ELSE prev[e]]
        /\ superseded' = superseded \ {d}
        /\ pictured' = pictured \ PagesOf({d})
    BY <1>7 DEF DeleteRow
  <2>2. \A e \in Docs : ~Exists(e)' => prev'[e] = NoDoc
    BY <2>1, <1>t
  <2>3. \A a, e \in Docs : prev'[a] = prev'[e] /\ prev'[a] # NoDoc => a = e
    BY <2>1, <1>t
  <2>4. \A a \in superseded', e \in Docs : prev'[e] = a => Shown(e)'
    <3> SUFFICES ASSUME NEW a \in superseded', NEW e \in Docs, prev'[e] = a
                 PROVE  Shown(e)'
      OBVIOUS
    <3>1. a \in Docs
      BY <2>1 DEF TypeOK
    <3>2. e # d /\ prev[e] = a
      BY <2>1, <3>1, NoDocNotDoc
    <3>3. Shown(e)
      BY <2>1, <3>2
    <3>4. \A p \in PageNos : <<e, p>> \notin PagesOf({d})
      BY <3>2 DEF PagesOf
    <3> QED BY <2>1, <3>3, <3>4
  <2> QED BY <2>2, <2>3, <2>4
<1>8. ASSUME NEW d \in Docs, CleanUpDeleted(d) PROVE Revised'
  BY <1>8, <1>t DEF CleanUpDeleted
<1>9. CASE ReadTitleBlocks
  BY <1>9, <1>t DEF ReadTitleBlocks
<1>10. CASE ListenForSortedPages
  BY <1>10, <1>t DEF ListenForSortedPages
<1>11. ASSUME NEW s \in Slots, NEW id \in JobIds, TakeJob(s, id)
      PROVE  Revised'
  BY <1>11, <1>t DEF TakeJob
<1>12. ASSUME NEW id \in JobIds, StallJob(id) PROVE Revised'
  BY <1>12, <1>t DEF StallJob
<1>13. ASSUME NEW s \in Slots, Crash(s) PROVE Revised'
  BY <1>13, <1>t DEF Crash
<1>14. ASSUME NEW s \in Slots, TryLock(s) PROVE Revised'
  BY <1>14, <1>t DEF TryLock
<1>15. ASSUME NEW s \in Slots, Start(s) PROVE Revised'
  BY <1>15, <1>t DEF Start
<1>16. ASSUME NEW s \in Slots, OpenPdf(s) PROVE Revised'
  BY <1>16, <1>t DEF OpenPdf
<1>17. ASSUME NEW s \in Slots, PlanRound(s) PROVE Revised'
  BY <1>17, <1>t DEF PlanRound
<1>18. ASSUME NEW s \in Slots, NEW p \in PageNos, QuickPage(s, p)
      PROVE  Revised'
  BY <1>18, <1>t DEF QuickPage
<1>19. ASSUME NEW s \in Slots, NEW p \in PageNos, ReplaceChunks(s, p)
      PROVE  Revised'
  BY <1>19, <1>t DEF ReplaceChunks
<1>20. ASSUME NEW s \in Slots, NEW p \in PageNos, MarkFull(s, p)
      PROVE  Revised'
  BY <1>20, <1>t DEF MarkFull
<1>21. ASSUME NEW s \in Slots, NEW p \in PageNos, PageRaises(s, p)
      PROVE  Revised'
  BY <1>21, <1>t DEF PageRaises
<1>22. ASSUME NEW s \in Slots, PoolDrained(s) PROVE Revised'
  BY <1>22, <1>t DEF PoolDrained
<1>23. ASSUME NEW s \in Slots, Supersede(s) PROVE Revised'
  BY <1>23, <1>t DEF Supersede, Progressed, Progress, After
<1>24. ASSUME NEW s \in Slots, Renumber(s) PROVE Revised'
  BY <1>24, <1>t DEF Renumber
<1>25. ASSUME NEW s \in Slots, ReadChunks(s) PROVE Revised'
  BY <1>25, <1>t DEF ReadChunks
<1>26. ASSUME NEW s \in Slots, UpsertPoints(s) PROVE Revised'
  BY <1>26, <1>t DEF UpsertPoints
<1>27. ASSUME NEW s \in Slots, DeleteOldPoints(s) PROVE Revised'
  BY <1>27, <1>t DEF DeleteOldPoints
<1>28. ASSUME NEW s \in Slots, MarkEmbedded(s) PROVE Revised'
  BY <1>28, <1>t DEF MarkEmbedded
<1>29. ASSUME NEW s \in Slots, Finalize(s) PROVE Revised'
  BY <1>29, <1>t DEF Finalize
<1>30. ASSUME NEW s \in Slots, Unlock(s) PROVE Revised'
  BY <1>30, <1>t DEF Unlock
<1>31. ASSUME NEW s \in Slots, Notify(s) PROVE Revised'
  BY <1>31, <1>t DEF Notify
<1>32. ASSUME NEW s \in Slots, CompleteJob(s) PROVE Revised'
  BY <1>32, <1>t DEF CompleteJob
<1>33. ASSUME NEW s \in Slots, Raise(s) PROVE Revised'
  BY <1>33, <1>t DEF Raise
<1>34. ASSUME NEW s \in Slots, HandleFailure(s) PROVE Revised'
  BY <1>34, <1>t DEF HandleFailure
<1>35. CASE UNCHANGED vars
  BY <1>35 DEF vars
<1> QED
  BY <1>1, <1>2, <1>3, <1>4, <1>5, <1>6, <1>7, <1>8, <1>9, <1>10, <1>11,
     <1>12, <1>13, <1>14, <1>15, <1>16, <1>17, <1>18, <1>19, <1>20, <1>21,
     <1>22, <1>23, <1>24, <1>25, <1>26, <1>27, <1>28, <1>29, <1>30, <1>31,
     <1>32, <1>33, <1>34, <1>35 DEF Next, ApiStep, WorkStep, PageStep,
     FaultStep

\* Every action keeps Progressed.
LEMMA ProgressedStays ==
  ASSUME TypeOK, [Next]_vars, Known, Tidy, Progressed
  PROVE  Progressed'
<1> SUFFICES ASSUME NEW t \in Slots PROVE Progress(t)'
  BY DEF Progressed
<1> USE DEF docVars, pageVars, indexVars, apiVars, slotVars, taskVars,
            sortVars, Goto
<1>t. /\ pc \in [Slots -> Labels] /\ job \in [Slots -> JobIds]
      /\ round \in [Slots -> Nat] /\ quickTodo \in [Slots -> SUBSET PageNos]
      /\ status \in [Docs -> Statuses]
      /\ \A s \in Slots : Doc(s) \in Docs
  BY DocType DEF TypeOK
<1>p. Progress(t) /\ Kept(Doc(t))
  BY <1>t, NothingTaken DEF Progressed
<1>f. ASSUME pc'[t] = pc[t], job'[t] = job[t], round'[t] = round[t],
             quickTodo'[t] = quickTodo[t]
      PROVE  Progress(t)'
  <2>1. Doc(t)' = Doc(t)
    BY <1>f DEF Doc
  <2>2. CASE pc[t] = "idle"
    BY <1>f, <2>1, <2>2 DEF Progress, After
  <2>3. CASE pc[t] # "idle"
    <3>1. status[Doc(t)] # "absent"
      BY <2>3 DEF Known
    <3> QED BY <1>f, <1>p, <2>1, <3>1 DEF Progress, Kept, Shown
  <2> QED BY <2>2, <2>3
<1>n. ASSUME pc'[t] \in {"idle", "claimed", "start", "open", "unlock", "notify",
                        "complete", "failed"}
      PROVE  Progress(t)'
  BY <1>n DEF Progress, After
<1>a. ASSUME pc[t] \in After, pc'[t] \in After, job'[t] = job[t]
      PROVE  Progress(t)'
  <2>1. Doc(t)' = Doc(t)
    BY <1>a DEF Doc
  <2>2. status[Doc(t)] # "absent"
    BY <1>a DEF Known, After
  <2>3. pc'[t] # "modes" /\ pc'[t] # "extract"
    BY <1>a DEF After
  <2> QED BY <1>a, <1>p, <2>1, <2>2, <2>3 DEF Progress, Kept, Shown
<1>1. ASSUME NEW d \in Docs, NEW p \in Docs \cup {NoDoc}, InitiateUpload(d, p)
      PROVE  Progress(t)'
  BY <1>1, <1>t, <1>f DEF InitiateUpload
<1>2. ASSUME NEW d \in Docs, CompleteUpload(d) PROVE Progress(t)'
  BY <1>2, <1>t, <1>f DEF CompleteUpload
<1>3. ASSUME NEW d \in Docs, Reprocess(d) PROVE Progress(t)'
  BY <1>3, <1>t, <1>f DEF Reprocess
<1>4. ASSUME NEW reembed \in BOOLEAN, Reindex(reembed) PROVE Progress(t)'
  BY <1>4, <1>t, <1>f DEF Reindex
<1>5. ASSUME NEW d \in Docs, ReindexOne(d) PROVE Progress(t)'
  BY <1>5, <1>t, <1>f DEF ReindexOne
<1>6. ASSUME NEW k \in Kinds, ChooseDisciplines(k) PROVE Progress(t)'
  BY <1>6, <1>t, <1>f DEF ChooseDisciplines
<1>7. ASSUME NEW d \in Docs, DeleteRow(d) PROVE Progress(t)'
  BY <1>7, <1>t, <1>f DEF DeleteRow
<1>8. ASSUME NEW d \in Docs, CleanUpDeleted(d) PROVE Progress(t)'
  BY <1>8, <1>t, <1>f DEF CleanUpDeleted
<1>9. CASE ReadTitleBlocks
  BY <1>9, <1>t, <1>f DEF ReadTitleBlocks
<1>10. CASE ListenForSortedPages
  BY <1>10, <1>t, <1>f DEF ListenForSortedPages
<1>11. ASSUME NEW s \in Slots, NEW id \in JobIds, TakeJob(s, id)
      PROVE  Progress(t)'
  BY <1>11, <1>t, <1>f, <1>n DEF TakeJob
<1>12. ASSUME NEW id \in JobIds, StallJob(id) PROVE Progress(t)'
  BY <1>12, <1>t, <1>f DEF StallJob
<1>13. ASSUME NEW s \in Slots, Crash(s) PROVE Progress(t)'
  BY <1>13, <1>t, <1>f, <1>n DEF Crash, ClearTask
<1>14. ASSUME NEW s \in Slots, TryLock(s) PROVE Progress(t)'
  BY <1>14, <1>t, <1>f, <1>n DEF TryLock
<1>15. ASSUME NEW s \in Slots, Start(s) PROVE Progress(t)'
  <2>1. CASE s # t
    BY <1>15, <2>1, <1>t, <1>f DEF Start
  <2>2. CASE s = t
    <3>1. CASE pc'[t] = "supersede"
      <4>1. Doc(t)' = Doc(t) /\ Doc(t) \in counted /\ NoModes(Doc(t))
        BY <1>15, <2>2, <1>t, <3>1 DEF Start, Doc
      <4>2. Shown(Doc(t)) /\ pictured' = pictured /\ counted' = counted
        BY <1>15, <4>1 DEF NoModes, QuickModes, Shown, Start
      <4> QED BY <3>1, <4>1, <4>2 DEF Progress, Shown
    <3>2. CASE pc'[t] # "supersede"
      BY <1>15, <2>2, <3>2, <1>t, <1>n DEF Start
    <3> QED BY <3>1, <3>2
  <2> QED BY <2>1, <2>2
<1>16. ASSUME NEW s \in Slots, OpenPdf(s) PROVE Progress(t)'
  <2>1. CASE s # t
    BY <1>16, <2>1, <1>t, <1>f DEF OpenPdf
  <2>2. CASE s = t
    <3>1. Doc(t)' = Doc(t) /\ pc'[t] = "modes" /\ status' = status
      BY <1>16, <2>2, <1>t DEF OpenPdf, Doc
    <3>2. Exists(Doc(t)) => Doc(t) \in counted'
      BY <1>16, <2>2 DEF OpenPdf
    <3>3. round'[t] = 0
      BY <1>16, <2>2 DEF OpenPdf, Tidy
    <3> QED BY <3>1, <3>2, <3>3 DEF Progress, Exists, After
  <2> QED BY <2>1, <2>2
<1>17. ASSUME NEW s \in Slots, PlanRound(s) PROVE Progress(t)'
  <2>1. CASE s # t
    BY <1>17, <2>1, <1>t, <1>f DEF PlanRound
  <2>2. CASE s = t
    <3>1. /\ Doc(t)' = Doc(t) /\ status' = status /\ pictured' = pictured
          /\ counted' = counted /\ pc[t] = "modes"
      BY <1>17, <2>2 DEF PlanRound, Doc
    <3>2. Exists(Doc(t))' => Exists(Doc(t)) /\ Doc(t) \in counted'
      BY <1>p, <3>1 DEF Progress, Exists
    <3>3. CASE NoModes(Doc(t)) \/ round[t] = 3
      <4>1. pc'[t] = "supersede"
        BY <1>17, <2>2, <3>3, <1>t DEF PlanRound
      <4>2. Exists(Doc(t)) => Shown(Doc(t))
        BY <1>p, <3>1, <3>3 DEF NoModes, QuickModes, Shown, Progress
      <4> QED BY <3>1, <3>2, <4>1, <4>2 DEF Progress, Shown
    <3>4. CASE ~(NoModes(Doc(t)) \/ round[t] = 3)
      <4>1. pc'[t] = "extract" /\ quickTodo'[t] = QuickModes(Doc(t))
        BY <1>17, <2>2, <3>4, <1>t DEF PlanRound
      <4> QED BY <3>1, <3>2, <4>1 DEF Progress, QuickModes, After
    <3> QED BY <3>3, <3>4
  <2> QED BY <2>1, <2>2
<1>18. ASSUME NEW s \in Slots, NEW p \in PageNos, QuickPage(s, p)
      PROVE  Progress(t)'
  <2>1. CASE s # t
    BY <1>18, <2>1, <1>t, <1>f DEF QuickPage
  <2>2. CASE s = t
    <3>1. /\ Doc(t)' = Doc(t) /\ pc' = pc /\ pc[t] \in {"extract", "draining"}
          /\ status' = status /\ counted' = counted
          /\ pictured' = pictured \cup {<<Doc(t), p>>}
          /\ quickTodo'[t] = quickTodo[t] \ {p}
      BY <1>18, <2>2, <1>t DEF QuickPage, Doc
    <3> QED BY <3>1, <1>p DEF Progress, Exists, After
  <2> QED BY <2>1, <2>2
<1>19. ASSUME NEW s \in Slots, NEW p \in PageNos, ReplaceChunks(s, p)
      PROVE  Progress(t)'
  BY <1>19, <1>t, <1>f DEF ReplaceChunks
<1>20. ASSUME NEW s \in Slots, NEW p \in PageNos, MarkFull(s, p)
      PROVE  Progress(t)'
  BY <1>20, <1>t, <1>f DEF MarkFull
<1>21. ASSUME NEW s \in Slots, NEW p \in PageNos, PageRaises(s, p)
      PROVE  Progress(t)'
  <2>1. CASE s # t
    BY <1>21, <2>1, <1>t, <1>f DEF PageRaises
  <2>2. CASE s = t
    <3>1. /\ Doc(t)' = Doc(t) /\ pc'[t] = "draining" /\ status' = status
          /\ counted' = counted /\ pc[t] \in {"extract", "draining"}
      BY <1>21, <2>2, <1>t DEF PageRaises, Doc
    <3> QED BY <3>1, <1>p DEF Progress, Exists, After
  <2> QED BY <2>1, <2>2
<1>22. ASSUME NEW s \in Slots, PoolDrained(s) PROVE Progress(t)'
  <2>1. CASE s # t
    BY <1>22, <2>1, <1>t, <1>f DEF PoolDrained, ClearTask
  <2>2. CASE s = t
    <3>1. CASE pc[t] = "extract"
      <4>1. /\ Doc(t)' = Doc(t) /\ pc'[t] = "modes" /\ status' = status
            /\ counted' = counted /\ pictured' = pictured /\ quickTodo[t] = {}
        BY <1>22, <2>2, <3>1, <1>t DEF PoolDrained, Doc
      <4> QED BY <3>1, <4>1, <1>p DEF Progress, Exists, After, Shown
    <3>2. CASE pc[t] # "extract"
      BY <1>22, <2>2, <3>2, <1>t, <1>n DEF PoolDrained
    <3> QED BY <3>1, <3>2
  <2> QED BY <2>1, <2>2
<1>23. ASSUME NEW s \in Slots, Supersede(s) PROVE Progress(t)'
  BY <1>23, <1>t, <1>f, <1>a, <1>n DEF Supersede, After, ClearTask
<1>24. ASSUME NEW s \in Slots, Renumber(s) PROVE Progress(t)'
  BY <1>24, <1>t, <1>f, <1>a DEF Renumber, After
<1>25. ASSUME NEW s \in Slots, ReadChunks(s) PROVE Progress(t)'
  BY <1>25, <1>t, <1>f, <1>a, <1>n DEF ReadChunks, After, ClearTask
<1>26. ASSUME NEW s \in Slots, UpsertPoints(s) PROVE Progress(t)'
  BY <1>26, <1>t, <1>f, <1>a DEF UpsertPoints, After
<1>27. ASSUME NEW s \in Slots, DeleteOldPoints(s) PROVE Progress(t)'
  BY <1>27, <1>t, <1>f, <1>a DEF DeleteOldPoints, After
<1>28. ASSUME NEW s \in Slots, MarkEmbedded(s) PROVE Progress(t)'
  BY <1>28, <1>t, <1>f, <1>a DEF MarkEmbedded, After
<1>29. ASSUME NEW s \in Slots, Finalize(s) PROVE Progress(t)'
  BY <1>29, <1>t, <1>f, <1>n DEF Finalize
<1>30. ASSUME NEW s \in Slots, Unlock(s) PROVE Progress(t)'
  BY <1>30, <1>t, <1>f, <1>n DEF Unlock, ClearTask
<1>31. ASSUME NEW s \in Slots, Notify(s) PROVE Progress(t)'
  BY <1>31, <1>t, <1>f, <1>n DEF Notify
<1>32. ASSUME NEW s \in Slots, CompleteJob(s) PROVE Progress(t)'
  BY <1>32, <1>t, <1>f, <1>n DEF CompleteJob
<1>33. ASSUME NEW s \in Slots, Raise(s) PROVE Progress(t)'
  BY <1>33, <1>t, <1>f, <1>n DEF Raise, ClearTask
<1>34. ASSUME NEW s \in Slots, HandleFailure(s) PROVE Progress(t)'
  BY <1>34, <1>t, <1>f, <1>n DEF HandleFailure
<1>35. CASE UNCHANGED vars
  BY <1>35, <1>f DEF vars
<1> QED
  BY <1>1, <1>2, <1>3, <1>4, <1>5, <1>6, <1>7, <1>8, <1>9, <1>10, <1>11,
     <1>12, <1>13, <1>14, <1>15, <1>16, <1>17, <1>18, <1>19, <1>20, <1>21,
     <1>22, <1>23, <1>24, <1>25, <1>26, <1>27, <1>28, <1>29, <1>30, <1>31,
     <1>32, <1>33, <1>34, <1>35 DEF Next, ApiStep, WorkStep, PageStep,
     FaultStep

-----------------------------------------------------------------------------
(* The theorems.                                                           *)

\* The inductive invariant holds of the initial state.
LEMMA InvariantBegins == Init => IInv
<1> SUFFICES ASSUME Init PROVE IInv
  OBVIOUS
<1>1. TypeOK
  BY TypesBegin
<1>2. Known /\ Locked /\ Tidy
  BY DEF Init, Known, Locked, Tidy, Holding, FreeJob
<1>3. Rowed /\ FullPagesHaveChunks
  BY DEF Init, Rowed, FullPagesHaveChunks
<1>4. Progressed /\ Viewable
  BY DEF Init, Progressed, Progress, After, Viewable
<1>5. Revised
  BY DEF Init, Revised
<1> QED BY <1>1, <1>2, <1>3, <1>4, <1>5 DEF IInv

\* The inductive invariant holds always: each conjunct is kept by every
\* action, given the others.
THEOREM InvariantHolds == Spec => []IInv
<1>1. IInv /\ [Next]_vars => IInv'
  <2> SUFFICES ASSUME IInv, [Next]_vars PROVE IInv'
    OBVIOUS
  <2>1. TypeOK' /\ Known' /\ Locked' /\ Tidy'
    BY TypesStay, KnownStays, LockedStays, TidyStays DEF IInv
  <2>2. Rowed' /\ FullPagesHaveChunks' /\ Progressed'
    BY RowedStays, FullStays, ProgressedStays DEF IInv
  <2>3. Viewable' /\ Revised'
    BY ViewableStays, RevisedStays DEF IInv
  <2> QED BY <2>1, <2>2, <2>3 DEF IInv
<1> QED BY <1>1, InvariantBegins, PTL DEF Spec

\* document_lock keeps two executions of one document apart, however many
\* slots there are and however often a job is delivered again: the lock's
\* value names the one that is inside.
THEOREM OneExecutionHolds == Spec => []OneExecutionPerDocument
<1>1. IInv => OneExecutionPerDocument
  BY DEF IInv, Locked, OneExecutionPerDocument
<1> QED BY <1>1, InvariantHolds, PTL

\* replace_page_chunks commits before set_page_fully_processed, so a page that
\* is never read again has its chunks, whatever fails, crashes or is deleted.
THEOREM FullPagesHold == Spec => []FullPagesHaveChunks
<1>1. IInv => FullPagesHaveChunks
  BY DEF IInv
<1> QED BY <1>1, InvariantHolds, PTL

\* Where all pages of d are shown, they are among the pictured.
LEMMA ShownPages == ASSUME NEW d \in Docs, Shown(d)
                    PROVE  PagesOf({d}) \subseteq pictured
BY DEF Shown, PagesOf, Pages

\* An execution reaches "completed" only over a pool that drained without an
\* exception, so a completed document can be looked at, page for page.
THEOREM CompletedHolds == Spec => []CompletedIsViewable
<1>1. IInv => CompletedIsViewable
  BY ShownPages DEF IInv, Viewable, CompletedIsViewable
<1> QED BY <1>1, InvariantHolds, PTL

\* A revision is retired only for one that can be looked at, page for page.
THEOREM RetiredHolds == Spec => []RetiredOnlyWhenReplaced
<1>1. IInv => RetiredOnlyWhenReplaced
  BY ShownPages DEF IInv, Revised, RetiredOnlyWhenReplaced
<1> QED BY <1>1, InvariantHolds, PTL

-----------------------------------------------------------------------------
(* The pipeline implements DocumentLifecycle.                              *)

\* The state DocumentLifecycle sees.
Life == [d \in Docs |-> IF status[d] = "gone" THEN "deleted" ELSE status[d]]

\* From a state of the inductive invariant, every action is a step of
\* DocumentLifecycle or leaves its variables alone.
LEMMA LifecycleStep ==
  ASSUME IInv, [Next]_vars
  PROVE  [Lifecycle!Next]_(Lifecycle!vars)
<1> USE DEF docVars, pageVars, indexVars, apiVars, slotVars, taskVars,
            sortVars, Goto
<1> DEFINE Goal == [Lifecycle!Next]_(Lifecycle!vars)
<1>t. /\ status \in [Docs -> Statuses] /\ pictured \subseteq Pages
      /\ prev \in [Docs -> Docs \cup {NoDoc}]
      /\ \A s \in Slots : Doc(s) \in Docs
  BY DocType DEF IInv, TypeOK
<1>s. ASSUME UNCHANGED <<status, prev, superseded, pictured, full>>
      PROVE  Goal
  BY <1>s DEF Lifecycle!vars
<1>p. \A d \in Docs : Lifecycle!Present(d) <=> Exists(d)
  BY DEF Lifecycle!Present, Exists
<1>d. \A d \in Docs : Lifecycle!PagesOf(d) = PagesOf({d})
  BY DEF Lifecycle!PagesOf, Lifecycle!Pages, PagesOf, Pages
<1>w. ASSUME NEW d \in Docs, Exists(d),
             NEW v \in {"uploaded", "processing", "failed"},
             status' = [status EXCEPT ![d] = v],
             UNCHANGED <<prev, superseded, pictured, full>>
      PROVE  Goal
  <2>1. Life' = [Life EXCEPT ![d] = v]
    BY <1>w, <1>t DEF Life
  <2>2. Lifecycle!Work(d)
    BY <1>w, <1>p, <2>1 DEF Lifecycle!Work, Life
  <2> QED BY <2>2 DEF Lifecycle!Next
<1>1. ASSUME NEW d \in Docs, NEW p \in Docs \cup {NoDoc}, InitiateUpload(d, p)
      PROVE  Goal
  <2>1. Life' = [Life EXCEPT ![d] = "uploaded"]
    BY <1>1, <1>t DEF InitiateUpload, Life
  <2>2. Lifecycle!Create(d, p)
    BY <1>1, <1>p, <2>1 DEF InitiateUpload, Live, Lifecycle!Create, Life
  <2> QED BY <2>2 DEF Lifecycle!Next
<1>2. ASSUME NEW d \in Docs, CompleteUpload(d) PROVE Goal
  <2>1. CASE status' = status
    BY <1>2, <2>1, <1>s DEF CompleteUpload
  <2>2. CASE status' = [status EXCEPT ![d] = "failed"]
    BY <1>2, <2>2, <1>w DEF CompleteUpload, Exists
  <2> QED BY <1>2, <2>1, <2>2 DEF CompleteUpload
<1>3. ASSUME NEW d \in Docs, Reprocess(d) PROVE Goal
  BY <1>3, <1>w DEF Reprocess, Live
<1>4. ASSUME NEW reembed \in BOOLEAN, Reindex(reembed) PROVE Goal
  BY <1>4, <1>s DEF Reindex
<1>5. ASSUME NEW d \in Docs, ReindexOne(d) PROVE Goal
  BY <1>5, <1>s, <1>w DEF ReindexOne
<1>6. ASSUME NEW k \in Kinds, ChooseDisciplines(k) PROVE Goal
  BY <1>6, <1>s DEF ChooseDisciplines
<1>7. ASSUME NEW d \in Docs, DeleteRow(d) PROVE Goal
  <2>1. Life' = [Life EXCEPT ![d] = "deleted"]
    BY <1>7, <1>t DEF DeleteRow, Life
  <2>2. prev' = [e \in Docs |-> IF d \in {e, prev[e]} THEN NoDoc ELSE prev[e]]
    BY <1>7 DEF DeleteRow
  <2>3. /\ Lifecycle!Present(d) /\ superseded' = superseded \ {d}
        /\ pictured' = pictured \ Lifecycle!PagesOf(d)
        /\ full' = full \ Lifecycle!PagesOf(d)
    BY <1>7, <1>p, <1>d DEF DeleteRow
  <2>4. Lifecycle!Delete(d)
    BY <2>1, <2>2, <2>3 DEF Lifecycle!Delete, Life
  <2> QED BY <2>4 DEF Lifecycle!Next
<1>8. ASSUME NEW d \in Docs, CleanUpDeleted(d) PROVE Goal
  <2>1. Life' = Life
    BY <1>8, <1>t DEF CleanUpDeleted, Life
  <2> QED BY <1>8, <2>1 DEF CleanUpDeleted, Lifecycle!vars, Life
<1>9. CASE ReadTitleBlocks
  BY <1>9, <1>s DEF ReadTitleBlocks
<1>10. CASE ListenForSortedPages
  BY <1>10, <1>s DEF ListenForSortedPages
<1>11. ASSUME NEW s \in Slots, NEW id \in JobIds, TakeJob(s, id) PROVE Goal
  BY <1>11, <1>s DEF TakeJob
<1>12. ASSUME NEW id \in JobIds, StallJob(id) PROVE Goal
  BY <1>12, <1>s DEF StallJob
<1>13. ASSUME NEW s \in Slots, Crash(s) PROVE Goal
  BY <1>13, <1>s DEF Crash
<1>14. ASSUME NEW s \in Slots, TryLock(s) PROVE Goal
  BY <1>14, <1>s DEF TryLock
<1>15. ASSUME NEW s \in Slots, Start(s) PROVE Goal
  BY <1>15, <1>t, <1>s, <1>w DEF Start
<1>16. ASSUME NEW s \in Slots, OpenPdf(s) PROVE Goal
  BY <1>16, <1>s DEF OpenPdf
<1>17. ASSUME NEW s \in Slots, PlanRound(s) PROVE Goal
  BY <1>17, <1>s DEF PlanRound
<1>18. ASSUME NEW s \in Slots, NEW p \in PageNos, QuickPage(s, p) PROVE Goal
  <2>1. <<Doc(s), p>> \in Lifecycle!Pages /\ Lifecycle!Present(Doc(s))
    BY <1>18, <1>t, <1>p DEF QuickPage, Lifecycle!Pages
  <2>2. Lifecycle!Show(<<Doc(s), p>>)
    BY <1>18, <2>1 DEF QuickPage, Lifecycle!Show
  <2> QED BY <2>1, <2>2 DEF Lifecycle!Next
<1>19. ASSUME NEW s \in Slots, NEW p \in PageNos, ReplaceChunks(s, p)
      PROVE  Goal
  BY <1>19, <1>s DEF ReplaceChunks
<1>20. ASSUME NEW s \in Slots, NEW p \in PageNos, MarkFull(s, p) PROVE Goal
  <2>1. CASE <<Doc(s), p>> \in pictured
    <3>1. Lifecycle!Read(<<Doc(s), p>>)
      BY <1>20, <2>1 DEF MarkFull, Lifecycle!Read
    <3>2. <<Doc(s), p>> \in Lifecycle!Pages
      BY <1>t DEF Lifecycle!Pages
    <3> QED BY <3>1, <3>2 DEF Lifecycle!Next
  <2>2. CASE <<Doc(s), p>> \notin pictured
    BY <1>20, <2>2, <1>s DEF MarkFull
  <2> QED BY <2>1, <2>2
<1>21. ASSUME NEW s \in Slots, NEW p \in PageNos, PageRaises(s, p) PROVE Goal
  BY <1>21, <1>s DEF PageRaises
<1>22. ASSUME NEW s \in Slots, PoolDrained(s) PROVE Goal
  BY <1>22, <1>s DEF PoolDrained
<1>23. ASSUME NEW s \in Slots, Supersede(s) PROVE Goal
  <2>1. CASE superseded' = superseded
    BY <1>23, <2>1, <1>s DEF Supersede
  <2>2. CASE superseded' # superseded
    <3>1. /\ Exists(Doc(s)) /\ prev[Doc(s)] # NoDoc
          /\ superseded' = superseded \cup {prev[Doc(s)]}
      BY <1>23, <2>2 DEF Supersede
    <3>2. Shown(Doc(s))
      BY <1>23, <3>1 DEF Supersede, IInv, Progressed, Progress, After
    <3>3. Lifecycle!Whole(Doc(s)) /\ Lifecycle!Present(Doc(s))
      BY <1>t, <1>p, <1>d, <3>1, <3>2, ShownPages DEF Lifecycle!Whole
    <3>4. Lifecycle!Retire(prev[Doc(s)])
      BY <1>23, <1>t, <3>1, <3>3 DEF Supersede, Lifecycle!Retire
    <3>5. prev[Doc(s)] \in Docs
      BY <1>t, <3>1
    <3> QED BY <3>4, <3>5 DEF Lifecycle!Next
  <2> QED BY <2>1, <2>2
<1>24. ASSUME NEW s \in Slots, Renumber(s) PROVE Goal
  BY <1>24, <1>s DEF Renumber
<1>25. ASSUME NEW s \in Slots, ReadChunks(s) PROVE Goal
  BY <1>25, <1>s DEF ReadChunks
<1>26. ASSUME NEW s \in Slots, UpsertPoints(s) PROVE Goal
  BY <1>26, <1>s DEF UpsertPoints
<1>27. ASSUME NEW s \in Slots, DeleteOldPoints(s) PROVE Goal
  BY <1>27, <1>s DEF DeleteOldPoints
<1>28. ASSUME NEW s \in Slots, MarkEmbedded(s) PROVE Goal
  BY <1>28, <1>s DEF MarkEmbedded
<1>29. ASSUME NEW s \in Slots, Finalize(s) PROVE Goal
  <2>1. CASE Exists(Doc(s))
    <3>1. Life' = [Life EXCEPT ![Doc(s)] = "completed"]
      BY <1>29, <2>1, <1>t DEF Finalize, Life
    <3>2. Shown(Doc(s))
      BY <1>29, <2>1 DEF Finalize, IInv, Progressed, Progress, After
    <3>3. Lifecycle!Whole(Doc(s)) /\ Lifecycle!Present(Doc(s))
      BY <1>t, <1>p, <1>d, <2>1, <3>2, ShownPages DEF Lifecycle!Whole
    <3>4. UNCHANGED <<prev, superseded, pictured, full>>
      BY <1>29 DEF Finalize
    <3>5. PICK d \in Docs : d = Doc(s)
      BY <1>t
    <3>6. Lifecycle!Complete(d)
      BY <3>1, <3>3, <3>4, <3>5 DEF Lifecycle!Complete, Life
    <3> QED BY <3>6 DEF Lifecycle!Next
  <2>2. CASE ~Exists(Doc(s))
    BY <1>29, <2>2, <1>s DEF Finalize
  <2> QED BY <2>1, <2>2
<1>30. ASSUME NEW s \in Slots, Unlock(s) PROVE Goal
  BY <1>30, <1>s DEF Unlock
<1>31. ASSUME NEW s \in Slots, Notify(s) PROVE Goal
  BY <1>31, <1>s DEF Notify
<1>32. ASSUME NEW s \in Slots, CompleteJob(s) PROVE Goal
  BY <1>32, <1>s DEF CompleteJob
<1>33. ASSUME NEW s \in Slots, Raise(s) PROVE Goal
  BY <1>33, <1>s DEF Raise
<1>34. ASSUME NEW s \in Slots, HandleFailure(s) PROVE Goal
  <2>1. UNCHANGED <<prev, superseded, pictured, full>>
    BY <1>34 DEF HandleFailure
  <2>2. CASE status' = status
    BY <2>1, <2>2, <1>s
  <2>3. CASE status' # status
    <3>1. PICK v \in {"processing", "failed"} :
            Exists(Doc(s)) /\ status' = [status EXCEPT ![Doc(s)] = v]
      BY <1>34, <2>3 DEF HandleFailure
    <3> QED BY <2>1, <3>1, <1>t, <1>w
  <2> QED BY <2>2, <2>3
<1>35. CASE UNCHANGED vars
  BY <1>35, <1>s DEF vars
<1> QED
  BY <1>1, <1>2, <1>3, <1>4, <1>5, <1>6, <1>7, <1>8, <1>9, <1>10, <1>11,
     <1>12, <1>13, <1>14, <1>15, <1>16, <1>17, <1>18, <1>19, <1>20, <1>21,
     <1>22, <1>23, <1>24, <1>25, <1>26, <1>27, <1>28, <1>29, <1>30, <1>31,
     <1>32, <1>33, <1>34, <1>35 DEF Next, ApiStep, WorkStep, PageStep,
     FaultStep

\* Every step of the API, the queue and the workers is a step DocumentLifecycle
\* allows, or none of its business: pages once shown or read stay so, documents
\* complete and retire only when the pages that must be there are.
THEOREM PromisesHold == Spec => KeepsPromises
<1>1. Init => Lifecycle!Init
  BY DEF Init, Lifecycle!Init
<1>2. IInv /\ [Next]_vars => [Lifecycle!Next]_(Lifecycle!vars)
  BY LifecycleStep
<1> QED BY <1>1, <1>2, InvariantHolds, PTL DEF Spec, KeepsPromises, Lifecycle!Spec

-----------------------------------------------------------------------------
(* A document that says it will be tried again has a job that will.        *)

\* What a step does to a job, ...
JobMoves(i) ==
  /\ \/ jobs'[i] = jobs[i]
     \/ jobs[i].state = "none" /\ \E dedup \in BOOLEAN : jobs'[i] = NewJob(dedup)
     \/ /\ status[i[1]] = "deleted" /\ jobs[i].state = "waiting"
        /\ jobs'[i] = FreeJob
     \/ \E s \in Slots : TakeJob(s, i)
     \/ StallJob(i)
     \/ \E s \in Slots : Crash(s) /\ jobs[i].holder = s
     \/ \E s \in Slots : /\ CompleteJob(s) \/ HandleFailure(s)
                         /\ Owns(s) /\ job[s] = i
  /\ used' = used \/ \E b \in Budgets : Spend(b)

\* ... to an execution, ...
SlotMoves(t) ==
  /\ \/ \E id \in JobIds : TakeJob(t, id)
     \/ pc'[t] = "idle"
     \/ pc[t] # "idle" /\ job'[t] = job[t]
  /\ pc[t] \in Holding =>
       \/ pc'[t] \in Holding /\ job'[t] = job[t]
       \/ \A d \in Docs : lock'[d] # t
  /\ pc'[t] = "unlock" => pc[t] = "unlock" \/ Doc(t) \notin retrying'
  /\ pc'[t] = "notify" => \/ pc[t] \in {"unlock", "notify"}
                          \/ ~Exists(Doc(t))
                          \/ pc[t] = "claimed" /\ lock[Doc(t)] # NoSlot
  /\ pc'[t] = "complete" => pc[t] \in {"notify", "complete"}

\* ... and to a document's lock and the promise of a retry.
PromiseMoves(d) ==
  /\ \/ lock'[d] \in {lock[d], NoSlot}
     \/ \E s \in Slots : /\ Doc(s) = d /\ lock'[d] = s
                         /\ pc'[s] = "start" /\ job'[s] = job[s]
  /\ d \in retrying' =>
       \/ d \in retrying /\ (Exists(d) => Exists(d)')
       \/ /\ Exists(d) /\ Exists(d)'
          /\ \E s \in Slots :
               /\ HandleFailure(s) /\ Doc(s) = d
               /\ Owns(s) => jobs'[job[s]].state = "waiting"

LEMMA JobSteps ==
  ASSUME TypeOK, [Next]_vars, NEW i \in JobIds
  PROVE  JobMoves(i)
<1> USE DEF docVars, pageVars, indexVars, apiVars, slotVars, taskVars,
            sortVars, Goto
<1> USE DEF JobMoves, Request, Budgets
<1>t. jobs \in [JobIds -> Job] /\ job \in [Slots -> JobIds]
  BY DEF TypeOK
<1>1. ASSUME NEW d \in Docs, NEW p \in Docs \cup {NoDoc}, InitiateUpload(d, p)
      PROVE  JobMoves(i)
  BY <1>1, <1>t DEF InitiateUpload
<1>2. ASSUME NEW d \in Docs, CompleteUpload(d) PROVE JobMoves(i)
  BY <1>2, <1>t DEF CompleteUpload, Enqueue, NextFree
<1>3. ASSUME NEW d \in Docs, Reprocess(d) PROVE JobMoves(i)
  BY <1>3, <1>t DEF Reprocess, Enqueue, NextFree
<1>4. ASSUME NEW reembed \in BOOLEAN, Reindex(reembed) PROVE JobMoves(i)
  BY <1>4, <1>t DEF Reindex
<1>5. ASSUME NEW d \in Docs, ReindexOne(d) PROVE JobMoves(i)
  BY <1>5, <1>t DEF ReindexOne, Enqueue, NextFree
<1>6. ASSUME NEW k \in Kinds, ChooseDisciplines(k) PROVE JobMoves(i)
  BY <1>6, <1>t DEF ChooseDisciplines, QueueDue, Enqueue, NextFree
<1>7. ASSUME NEW d \in Docs, DeleteRow(d) PROVE JobMoves(i)
  BY <1>7, <1>t DEF DeleteRow
<1>8. ASSUME NEW d \in Docs, CleanUpDeleted(d) PROVE JobMoves(i)
  BY <1>8, <1>t DEF CleanUpDeleted
<1>9. CASE ReadTitleBlocks
  BY <1>9, <1>t DEF ReadTitleBlocks
<1>10. CASE ListenForSortedPages
  BY <1>10, <1>t DEF ListenForSortedPages, QueueDue, Enqueue, NextFree
<1>11. ASSUME NEW s \in Slots, NEW id \in JobIds, TakeJob(s, id)
      PROVE  JobMoves(i)
  BY <1>11, <1>t DEF TakeJob
<1>12. ASSUME NEW id \in JobIds, StallJob(id) PROVE JobMoves(i)
  BY <1>12, <1>t DEF StallJob
<1>13. ASSUME NEW s \in Slots, Crash(s) PROVE JobMoves(i)
  BY <1>13, <1>t DEF Crash
<1>14. ASSUME NEW s \in Slots, TryLock(s) PROVE JobMoves(i)
  BY <1>14, <1>t DEF TryLock
<1>15. ASSUME NEW s \in Slots, Start(s) PROVE JobMoves(i)
  BY <1>15, <1>t DEF Start
<1>16. ASSUME NEW s \in Slots, OpenPdf(s) PROVE JobMoves(i)
  BY <1>16, <1>t DEF OpenPdf
<1>17. ASSUME NEW s \in Slots, PlanRound(s) PROVE JobMoves(i)
  BY <1>17, <1>t DEF PlanRound
<1>18. ASSUME NEW s \in Slots, NEW p \in PageNos, QuickPage(s, p)
      PROVE  JobMoves(i)
  BY <1>18, <1>t DEF QuickPage
<1>19. ASSUME NEW s \in Slots, NEW p \in PageNos, ReplaceChunks(s, p)
      PROVE  JobMoves(i)
  BY <1>19, <1>t DEF ReplaceChunks
<1>20. ASSUME NEW s \in Slots, NEW p \in PageNos, MarkFull(s, p)
      PROVE  JobMoves(i)
  BY <1>20, <1>t DEF MarkFull
<1>21. ASSUME NEW s \in Slots, NEW p \in PageNos, PageRaises(s, p)
      PROVE  JobMoves(i)
  BY <1>21, <1>t DEF PageRaises
<1>22. ASSUME NEW s \in Slots, PoolDrained(s) PROVE JobMoves(i)
  BY <1>22, <1>t DEF PoolDrained
<1>23. ASSUME NEW s \in Slots, Supersede(s) PROVE JobMoves(i)
  BY <1>23, <1>t DEF Supersede
<1>24. ASSUME NEW s \in Slots, Renumber(s) PROVE JobMoves(i)
  BY <1>24, <1>t DEF Renumber
<1>25. ASSUME NEW s \in Slots, ReadChunks(s) PROVE JobMoves(i)
  BY <1>25, <1>t DEF ReadChunks
<1>26. ASSUME NEW s \in Slots, UpsertPoints(s) PROVE JobMoves(i)
  BY <1>26, <1>t DEF UpsertPoints
<1>27. ASSUME NEW s \in Slots, DeleteOldPoints(s) PROVE JobMoves(i)
  BY <1>27, <1>t DEF DeleteOldPoints
<1>28. ASSUME NEW s \in Slots, MarkEmbedded(s) PROVE JobMoves(i)
  BY <1>28, <1>t DEF MarkEmbedded
<1>29. ASSUME NEW s \in Slots, Finalize(s) PROVE JobMoves(i)
  BY <1>29, <1>t DEF Finalize
<1>30. ASSUME NEW s \in Slots, Unlock(s) PROVE JobMoves(i)
  BY <1>30, <1>t DEF Unlock
<1>31. ASSUME NEW s \in Slots, Notify(s) PROVE JobMoves(i)
  BY <1>31, <1>t DEF Notify
<1>32. ASSUME NEW s \in Slots, CompleteJob(s) PROVE JobMoves(i)
  BY <1>32, <1>t DEF CompleteJob, Owns
<1>33. ASSUME NEW s \in Slots, Raise(s) PROVE JobMoves(i)
  BY <1>33, <1>t DEF Raise
<1>34. ASSUME NEW s \in Slots, HandleFailure(s) PROVE JobMoves(i)
  BY <1>34, <1>t DEF HandleFailure, Owns
<1>35. CASE UNCHANGED vars
  BY <1>35 DEF vars
<1> QED
  BY <1>1, <1>2, <1>3, <1>4, <1>5, <1>6, <1>7, <1>8, <1>9, <1>10, <1>11,
     <1>12, <1>13, <1>14, <1>15, <1>16, <1>17, <1>18, <1>19, <1>20, <1>21,
     <1>22, <1>23, <1>24, <1>25, <1>26, <1>27, <1>28, <1>29, <1>30, <1>31,
     <1>32, <1>33, <1>34, <1>35 DEF Next, ApiStep, WorkStep, PageStep,
     FaultStep

LEMMA SlotSteps ==
  ASSUME TypeOK, [Next]_vars, NEW t \in Slots
  PROVE  SlotMoves(t)
<1> USE DEF docVars, pageVars, indexVars, apiVars, slotVars, taskVars,
            sortVars, Goto
<1> USE DEF SlotMoves, Holding, Doc
<1>t. /\ pc \in [Slots -> Labels] /\ job \in [Slots -> JobIds]
      /\ lock \in [Docs -> Slots \cup {NoSlot}] /\ retrying \subseteq Docs
      /\ \A s \in Slots : job[s][1] \in Docs
  BY DocType DEF TypeOK, Doc
<1>1. ASSUME NEW d \in Docs, NEW p \in Docs \cup {NoDoc}, InitiateUpload(d, p)
      PROVE  SlotMoves(t)
  BY <1>1, <1>t DEF InitiateUpload
<1>2. ASSUME NEW d \in Docs, CompleteUpload(d) PROVE SlotMoves(t)
  BY <1>2, <1>t DEF CompleteUpload
<1>3. ASSUME NEW d \in Docs, Reprocess(d) PROVE SlotMoves(t)
  BY <1>3, <1>t DEF Reprocess
<1>4. ASSUME NEW reembed \in BOOLEAN, Reindex(reembed) PROVE SlotMoves(t)
  BY <1>4, <1>t DEF Reindex
<1>5. ASSUME NEW d \in Docs, ReindexOne(d) PROVE SlotMoves(t)
  BY <1>5, <1>t DEF ReindexOne
<1>6. ASSUME NEW k \in Kinds, ChooseDisciplines(k) PROVE SlotMoves(t)
  BY <1>6, <1>t DEF ChooseDisciplines
<1>7. ASSUME NEW d \in Docs, DeleteRow(d) PROVE SlotMoves(t)
  BY <1>7, <1>t DEF DeleteRow
<1>8. ASSUME NEW d \in Docs, CleanUpDeleted(d) PROVE SlotMoves(t)
  BY <1>8, <1>t DEF CleanUpDeleted
<1>9. CASE ReadTitleBlocks
  BY <1>9, <1>t DEF ReadTitleBlocks
<1>10. CASE ListenForSortedPages
  BY <1>10, <1>t DEF ListenForSortedPages
<1>11. ASSUME NEW s \in Slots, NEW id \in JobIds, TakeJob(s, id)
      PROVE  SlotMoves(t)
  BY <1>11, <1>t DEF TakeJob
<1>12. ASSUME NEW id \in JobIds, StallJob(id) PROVE SlotMoves(t)
  BY <1>12, <1>t DEF StallJob
<1>13. ASSUME NEW s \in Slots, Crash(s) PROVE SlotMoves(t)
  BY <1>13, <1>t DEF Crash, Unlocked
<1>14. ASSUME NEW s \in Slots, TryLock(s) PROVE SlotMoves(t)
  BY <1>14, <1>t DEF TryLock
<1>15. ASSUME NEW s \in Slots, Start(s) PROVE SlotMoves(t)
  BY <1>15, <1>t DEF Start, Unlocked
<1>16. ASSUME NEW s \in Slots, OpenPdf(s) PROVE SlotMoves(t)
  BY <1>16, <1>t DEF OpenPdf
<1>17. ASSUME NEW s \in Slots, PlanRound(s) PROVE SlotMoves(t)
  BY <1>17, <1>t DEF PlanRound
<1>18. ASSUME NEW s \in Slots, NEW p \in PageNos, QuickPage(s, p)
      PROVE  SlotMoves(t)
  BY <1>18, <1>t DEF QuickPage
<1>19. ASSUME NEW s \in Slots, NEW p \in PageNos, ReplaceChunks(s, p)
      PROVE  SlotMoves(t)
  BY <1>19, <1>t DEF ReplaceChunks
<1>20. ASSUME NEW s \in Slots, NEW p \in PageNos, MarkFull(s, p)
      PROVE  SlotMoves(t)
  BY <1>20, <1>t DEF MarkFull
<1>21. ASSUME NEW s \in Slots, NEW p \in PageNos, PageRaises(s, p)
      PROVE  SlotMoves(t)
  BY <1>21, <1>t DEF PageRaises
<1>22. ASSUME NEW s \in Slots, PoolDrained(s) PROVE SlotMoves(t)
  BY <1>22, <1>t DEF PoolDrained, Unlocked
<1>23. ASSUME NEW s \in Slots, Supersede(s) PROVE SlotMoves(t)
  BY <1>23, <1>t DEF Supersede, Unlocked
<1>24. ASSUME NEW s \in Slots, Renumber(s) PROVE SlotMoves(t)
  BY <1>24, <1>t DEF Renumber
<1>25. ASSUME NEW s \in Slots, ReadChunks(s) PROVE SlotMoves(t)
  BY <1>25, <1>t DEF ReadChunks, Unlocked
<1>26. ASSUME NEW s \in Slots, UpsertPoints(s) PROVE SlotMoves(t)
  BY <1>26, <1>t DEF UpsertPoints
<1>27. ASSUME NEW s \in Slots, DeleteOldPoints(s) PROVE SlotMoves(t)
  BY <1>27, <1>t DEF DeleteOldPoints
<1>28. ASSUME NEW s \in Slots, MarkEmbedded(s) PROVE SlotMoves(t)
  BY <1>28, <1>t DEF MarkEmbedded
<1>29. ASSUME NEW s \in Slots, Finalize(s) PROVE SlotMoves(t)
  BY <1>29, <1>t DEF Finalize
<1>30. ASSUME NEW s \in Slots, Unlock(s) PROVE SlotMoves(t)
  BY <1>30, <1>t DEF Unlock, Unlocked
<1>31. ASSUME NEW s \in Slots, Notify(s) PROVE SlotMoves(t)
  BY <1>31, <1>t DEF Notify
<1>32. ASSUME NEW s \in Slots, CompleteJob(s) PROVE SlotMoves(t)
  BY <1>32, <1>t DEF CompleteJob
<1>33. ASSUME NEW s \in Slots, Raise(s) PROVE SlotMoves(t)
  BY <1>33, <1>t DEF Raise, Unlocked
<1>34. ASSUME NEW s \in Slots, HandleFailure(s) PROVE SlotMoves(t)
  BY <1>34, <1>t DEF HandleFailure
<1>35. CASE UNCHANGED vars
  BY <1>35 DEF vars
<1> QED
  BY <1>1, <1>2, <1>3, <1>4, <1>5, <1>6, <1>7, <1>8, <1>9, <1>10, <1>11,
     <1>12, <1>13, <1>14, <1>15, <1>16, <1>17, <1>18, <1>19, <1>20, <1>21,
     <1>22, <1>23, <1>24, <1>25, <1>26, <1>27, <1>28, <1>29, <1>30, <1>31,
     <1>32, <1>33, <1>34, <1>35 DEF Next, ApiStep, WorkStep, PageStep,
     FaultStep

LEMMA PromiseSteps ==
  ASSUME TypeOK, [Next]_vars, NEW e \in Docs
  PROVE  PromiseMoves(e)
<1> USE DEF docVars, pageVars, indexVars, apiVars, slotVars, taskVars,
            sortVars, Goto
<1> USE DEF PromiseMoves, Exists
<1>t. /\ status \in [Docs -> Statuses] /\ retrying \subseteq Docs
      /\ lock \in [Docs -> Slots \cup {NoSlot}]
      /\ pc \in [Slots -> Labels] /\ job \in [Slots -> JobIds]
      /\ jobs \in [JobIds -> Job]
      /\ \A s \in Slots : Doc(s) \in Docs
  BY DocType DEF TypeOK
<1>1. ASSUME NEW d \in Docs, NEW p \in Docs \cup {NoDoc}, InitiateUpload(d, p)
      PROVE  PromiseMoves(e)
  BY <1>1, <1>t DEF InitiateUpload
<1>2. ASSUME NEW d \in Docs, CompleteUpload(d) PROVE PromiseMoves(e)
  BY <1>2, <1>t DEF CompleteUpload
<1>3. ASSUME NEW d \in Docs, Reprocess(d) PROVE PromiseMoves(e)
  BY <1>3, <1>t DEF Reprocess
<1>4. ASSUME NEW reembed \in BOOLEAN, Reindex(reembed) PROVE PromiseMoves(e)
  BY <1>4, <1>t DEF Reindex
<1>5. ASSUME NEW d \in Docs, ReindexOne(d) PROVE PromiseMoves(e)
  BY <1>5, <1>t DEF ReindexOne
<1>6. ASSUME NEW k \in Kinds, ChooseDisciplines(k) PROVE PromiseMoves(e)
  BY <1>6, <1>t DEF ChooseDisciplines
<1>7. ASSUME NEW d \in Docs, DeleteRow(d) PROVE PromiseMoves(e)
  BY <1>7, <1>t DEF DeleteRow
<1>8. ASSUME NEW d \in Docs, CleanUpDeleted(d) PROVE PromiseMoves(e)
  BY <1>8, <1>t DEF CleanUpDeleted
<1>9. CASE ReadTitleBlocks
  BY <1>9, <1>t DEF ReadTitleBlocks
<1>10. CASE ListenForSortedPages
  BY <1>10, <1>t DEF ListenForSortedPages
<1>11. ASSUME NEW s \in Slots, NEW id \in JobIds, TakeJob(s, id)
      PROVE  PromiseMoves(e)
  BY <1>11, <1>t DEF TakeJob
<1>12. ASSUME NEW id \in JobIds, StallJob(id) PROVE PromiseMoves(e)
  BY <1>12, <1>t DEF StallJob
<1>13. ASSUME NEW s \in Slots, Crash(s) PROVE PromiseMoves(e)
  BY <1>13, <1>t DEF Crash, Unlocked
<1>14. ASSUME NEW s \in Slots, TryLock(s) PROVE PromiseMoves(e)
  BY <1>14, <1>t DEF TryLock, Doc
<1>15. ASSUME NEW s \in Slots, Start(s) PROVE PromiseMoves(e)
  BY <1>15, <1>t DEF Start, Unlocked
<1>16. ASSUME NEW s \in Slots, OpenPdf(s) PROVE PromiseMoves(e)
  BY <1>16, <1>t DEF OpenPdf
<1>17. ASSUME NEW s \in Slots, PlanRound(s) PROVE PromiseMoves(e)
  BY <1>17, <1>t DEF PlanRound
<1>18. ASSUME NEW s \in Slots, NEW p \in PageNos, QuickPage(s, p)
      PROVE  PromiseMoves(e)
  BY <1>18, <1>t DEF QuickPage
<1>19. ASSUME NEW s \in Slots, NEW p \in PageNos, ReplaceChunks(s, p)
      PROVE  PromiseMoves(e)
  BY <1>19, <1>t DEF ReplaceChunks
<1>20. ASSUME NEW s \in Slots, NEW p \in PageNos, MarkFull(s, p)
      PROVE  PromiseMoves(e)
  BY <1>20, <1>t DEF MarkFull
<1>21. ASSUME NEW s \in Slots, NEW p \in PageNos, PageRaises(s, p)
      PROVE  PromiseMoves(e)
  BY <1>21, <1>t DEF PageRaises
<1>22. ASSUME NEW s \in Slots, PoolDrained(s) PROVE PromiseMoves(e)
  BY <1>22, <1>t DEF PoolDrained, Unlocked
<1>23. ASSUME NEW s \in Slots, Supersede(s) PROVE PromiseMoves(e)
  BY <1>23, <1>t DEF Supersede, Unlocked
<1>24. ASSUME NEW s \in Slots, Renumber(s) PROVE PromiseMoves(e)
  BY <1>24, <1>t DEF Renumber
<1>25. ASSUME NEW s \in Slots, ReadChunks(s) PROVE PromiseMoves(e)
  BY <1>25, <1>t DEF ReadChunks, Unlocked
<1>26. ASSUME NEW s \in Slots, UpsertPoints(s) PROVE PromiseMoves(e)
  BY <1>26, <1>t DEF UpsertPoints
<1>27. ASSUME NEW s \in Slots, DeleteOldPoints(s) PROVE PromiseMoves(e)
  BY <1>27, <1>t DEF DeleteOldPoints
<1>28. ASSUME NEW s \in Slots, MarkEmbedded(s) PROVE PromiseMoves(e)
  BY <1>28, <1>t DEF MarkEmbedded
<1>29. ASSUME NEW s \in Slots, Finalize(s) PROVE PromiseMoves(e)
  BY <1>29, <1>t DEF Finalize
<1>30. ASSUME NEW s \in Slots, Unlock(s) PROVE PromiseMoves(e)
  BY <1>30, <1>t DEF Unlock, Unlocked
<1>31. ASSUME NEW s \in Slots, Notify(s) PROVE PromiseMoves(e)
  BY <1>31, <1>t DEF Notify
<1>32. ASSUME NEW s \in Slots, CompleteJob(s) PROVE PromiseMoves(e)
  BY <1>32, <1>t DEF CompleteJob
<1>33. ASSUME NEW s \in Slots, Raise(s) PROVE PromiseMoves(e)
  BY <1>33, <1>t DEF Raise, Unlocked
<1>34. ASSUME NEW s \in Slots, HandleFailure(s) PROVE PromiseMoves(e)
  <2>1. lock' = lock /\ Doc(s) \in Docs
    BY <1>34, <1>t DEF HandleFailure
  <2>2. \/ /\ Exists(Doc(s)) /\ retrying' = retrying \cup {Doc(s)}
           /\ status' = [status EXCEPT ![Doc(s)] = "processing"]
           /\ Owns(s) => jobs'[job[s]].state = "waiting"
        \/ /\ retrying' \subseteq retrying
           /\ \/ status' = status
              \/ status' = [status EXCEPT ![Doc(s)] = "processing"]
              \/ status' = [status EXCEPT ![Doc(s)] = "failed"]
    <3> PICK permanent \in BOOLEAN :
          LET retry == attempt[s] < MaxAttempts /\ ~permanent
          IN  /\ \/ /\ Exists(Doc(s))
                    /\ status' = [status EXCEPT ![Doc(s)] =
                                    IF retry THEN "processing" ELSE "failed"]
                    /\ retrying' = IF retry THEN retrying \cup {Doc(s)}
                                   ELSE retrying \ {Doc(s)}
                 \/ UNCHANGED <<status, retrying>>
              /\ jobs' = IF ~Owns(s) THEN jobs
                         ELSE [jobs EXCEPT ![job[s]] =
                           IF retry THEN [@ EXCEPT !.state = "waiting",
                                            !.holder = NoSlot,
                                            !.attempts = attempt[s]]
                           ELSE FreeJob]
      BY <1>34 DEF HandleFailure
    <3>1. CASE attempt[s] < MaxAttempts /\ ~permanent
      <4>1. Owns(s) => jobs'[job[s]].state = "waiting"
        BY <1>t, <3>1 DEF Job
      <4> QED BY <3>1, <4>1
    <3>2. CASE ~(attempt[s] < MaxAttempts /\ ~permanent)
      BY <3>2
    <3> QED BY <3>1, <3>2
  <2> QED BY <1>34, <1>t, <2>1, <2>2
<1>35. CASE UNCHANGED vars
  BY <1>35 DEF vars
<1> QED
  BY <1>1, <1>2, <1>3, <1>4, <1>5, <1>6, <1>7, <1>8, <1>9, <1>10, <1>11,
     <1>12, <1>13, <1>14, <1>15, <1>16, <1>17, <1>18, <1>19, <1>20, <1>21,
     <1>22, <1>23, <1>24, <1>25, <1>26, <1>27, <1>28, <1>29, <1>30, <1>31,
     <1>32, <1>33, <1>34, <1>35 DEF Next, ApiStep, WorkStep, PageStep,
     FaultStep

\* An execution has its job, ...
Employed == \A s \in Slots : pc[s] # "idle" => Owns(s)
\* ... what holds a lock is inside it, ...
LockHeld == \A d \in Docs, s \in Slots :
              lock[d] = s => pc[s] \in Holding /\ Doc(s) = d
\* ... a job has not stalled more often than workers have died, counting the
\* time to come of one whose worker is dead, ...
Orphan(i) == jobs[i].state = "active" /\ jobs[i].holder = NoSlot
Stalls(i) == jobs[i].stalls + (IF Orphan(i) THEN 1 ELSE 0)
StallsCounted == /\ used["crash"] <= Bound["crash"]
                 /\ \A i \in JobIds : Stalls(i) <= used["crash"]
\* ... and no retry is promised by a document that is not there, or after the
\* end of an execution.
PromisesStand ==
  /\ \A d \in retrying : Exists(d)
  /\ \A s \in Slots : pc[s] \in {"unlock", "notify", "complete"} =>
                        Doc(s) \notin retrying

\* One execution of a document at a time, inside the lock or not.
OneAtATime == MaxJobs = 1 \/ \A s, t \in Slots : s = t

LEMMA EmployedStays ==
  ASSUME TypeOK, [Next]_vars, Employed, Bound["lapse"] = 0
  PROVE  Employed'
<1> SUFFICES ASSUME NEW s \in Slots, pc'[s] # "idle" PROVE Owns(s)'
  BY DEF Employed
<1>t. /\ jobs \in [JobIds -> Job] /\ job \in [Slots -> JobIds]
      /\ pc \in [Slots -> Labels] /\ used["lapse"] \in Nat
  BY DEF TypeOK, Budgets
<1>1. ASSUME NEW id \in JobIds, TakeJob(s, id) PROVE Owns(s)'
  BY <1>1, <1>t DEF TakeJob, Owns, Job
<1>2. CASE pc[s] # "idle" /\ job'[s] = job[s]
  <2> DEFINE i == job[s]
  <2>1. i \in JobIds /\ Owns(s) /\ JobMoves(i)
    BY <1>t, <1>2, JobSteps DEF Employed
  <2>2. ~StallJob(i)
    BY <1>t, <2>1 DEF StallJob, Spend, Owns
  <2>3. ASSUME NEW t \in Slots PROVE ~TakeJob(t, i)
    BY <2>1 DEF TakeJob, Owns
  <2>4. ASSUME NEW t \in Slots, Crash(t) \/ CompleteJob(t) \/ HandleFailure(t),
               jobs[i].holder = t
        PROVE  FALSE
    <3>1. t = s
      BY <2>1, <2>4 DEF Owns
    <3> QED BY <1>t, <2>4, <3>1 DEF Crash, CompleteJob, HandleFailure, Goto
  <2>5. jobs'[i] = jobs[i]
    BY <2>1, <2>2, <2>3, <2>4 DEF JobMoves, Owns
  <2> QED BY <1>2, <2>1, <2>5 DEF Owns
<1> QED BY <1>1, <1>2, SlotSteps DEF SlotMoves

LEMMA LockHeldStays ==
  ASSUME TypeOK, [Next]_vars, LockHeld
  PROVE  LockHeld'
<1> SUFFICES ASSUME NEW d \in Docs, NEW s \in Slots, lock'[d] = s
             PROVE  pc'[s] \in Holding /\ Doc(s)' = d
  BY DEF LockHeld
<1>1. CASE lock[d] = s
  <2>1. pc[s] \in Holding /\ Doc(s) = d
    BY <1>1 DEF LockHeld
  <2>2. pc'[s] \in Holding /\ job'[s] = job[s]
    BY <2>1, SlotSteps DEF SlotMoves
  <2> QED BY <2>1, <2>2 DEF Doc
<1>2. CASE lock[d] # s
  <2>1. PICK t \in Slots : /\ Doc(t) = d /\ lock'[d] = t
                           /\ pc'[t] = "start" /\ job'[t] = job[t]
    BY <1>2, PromiseSteps DEF PromiseMoves
  <2> QED BY <2>1 DEF Doc, Holding
<1> QED BY <1>1, <1>2

LEMMA StallsStay ==
  ASSUME TypeOK, [Next]_vars, StallsCounted, Bound["lapse"] = 0
  PROVE  StallsCounted'
<1>t. /\ jobs \in [JobIds -> Job] /\ job \in [Slots -> JobIds]
      /\ used \in [Budgets -> Nat] /\ Bound \in [Budgets -> Nat]
      /\ used' \in [Budgets -> Nat] /\ \A i \in JobIds : jobs[i] \in Job
      /\ {"crash", "lapse"} \subseteq Budgets
  BY TypesStay DEF TypeOK, Budgets
<1>1. /\ used["crash"] <= used'["crash"] /\ used'["crash"] <= Bound["crash"]
      /\ \A s \in Slots : Crash(s) => used'["crash"] = used["crash"] + 1
  <2>1. ASSUME NEW b \in Budgets, Spend(b)
        PROVE  /\ used["crash"] <= used'["crash"]
               /\ used'["crash"] <= Bound["crash"]
               /\ b = "crash" => used'["crash"] = used["crash"] + 1
    BY <1>t, <2>1 DEF Spend, StallsCounted
  <2>2. used' = used \/ \E b \in Budgets : Spend(b)
    BY FirstJob, JobSteps DEF JobMoves
  <2>3. ASSUME NEW s \in Slots, Crash(s) PROVE Spend("crash")
    BY <2>3 DEF Crash
  <2> QED BY <1>t, <2>1, <2>2, <2>3 DEF StallsCounted
<1>2. ASSUME NEW i \in JobIds PROVE Stalls(i)' <= used'["crash"]
  <2>1. Stalls(i) <= used["crash"] /\ jobs[i].stalls \in Nat /\ jobs[i] \in Job
    BY <1>t DEF StallsCounted, Job
  <2>2. CASE jobs'[i] = jobs[i]
    BY <1>1, <1>t, <2>1, <2>2 DEF Stalls, Orphan
  <2>3. CASE jobs'[i] = FreeJob \/ \E dedup \in BOOLEAN : jobs'[i] = NewJob(dedup)
    <3>1. ASSUME NEW dedup \in BOOLEAN
          PROVE  NewJob(dedup).stalls = 0 /\ NewJob(dedup).state = "waiting"
      BY DEF FreeJob, NewJob
    <3>2. FreeJob.stalls = 0 /\ FreeJob.state = "none"
      BY DEF FreeJob
    <3>3. jobs'[i].stalls = 0 /\ jobs'[i].state # "active"
      BY <2>3, <3>1, <3>2
    <3> QED BY <1>t, <3>3 DEF Stalls, Orphan
  <2>4. ASSUME NEW s \in Slots, TakeJob(s, i) PROVE Stalls(i)' <= used'["crash"]
    <3>1. jobs'[i].stalls = jobs[i].stalls /\ jobs'[i].holder = s
      BY <1>t, <2>1, <2>4 DEF TakeJob, Job
    <3> QED BY <1>1, <1>t, <2>1, <3>1 DEF Stalls, Orphan
  <2>5. CASE StallJob(i)
    <3>1. Orphan(i) /\ jobs' = [jobs EXCEPT ![i] = Stalled(@)]
      BY <1>t, <2>5 DEF StallJob, Orphan, Spend
    <3>2. jobs'[i].state # "active" /\ jobs'[i].stalls <= jobs[i].stalls + 1
      BY <1>t, <2>1, <3>1 DEF Stalled, FreeJob, Job
    <3>3. jobs'[i].stalls \in Nat
      BY <1>t, TypesStay DEF TypeOK, Job
    <3> QED BY <1>1, <1>t, <2>1, <3>1, <3>2, <3>3 DEF Stalls, Orphan
  <2>6. ASSUME NEW s \in Slots, Crash(s), jobs[i].holder = s
        PROVE  Stalls(i)' <= used'["crash"]
    <3>1. jobs'[i].stalls = jobs[i].stalls
      BY <1>t, <2>1, <2>6 DEF Crash, Job
    <3>2. Stalls(i) = jobs[i].stalls
      BY <2>1, <2>6 DEF Stalls, Orphan
    <3> QED BY <1>1, <1>t, <2>1, <2>6, <3>1, <3>2 DEF Stalls, Orphan
  <2>7. ASSUME NEW s \in Slots, CompleteJob(s) \/ HandleFailure(s), job[s] = i
        PROVE  Stalls(i)' <= used'["crash"]
    <3>1. \/ jobs'[i] = jobs[i] \/ jobs'[i] = FreeJob
          \/ /\ jobs'[i].stalls = jobs[i].stalls
             /\ jobs'[i].state = "waiting"
      <4>1. CASE CompleteJob(s)
        BY <1>t, <2>7, <4>1 DEF CompleteJob
      <4>2. CASE HandleFailure(s)
        <5> PICK retry \in BOOLEAN :
              jobs' = IF ~Owns(s) THEN jobs
                      ELSE [jobs EXCEPT ![i] =
                        IF retry THEN [@ EXCEPT !.state = "waiting",
                                         !.holder = NoSlot,
                                         !.attempts = attempt[s]]
                        ELSE FreeJob]
          BY <2>7, <4>2 DEF HandleFailure
        <5> QED BY <1>t, <2>1 DEF Job
      <4> QED BY <2>7, <4>1, <4>2
    <3> QED BY <1>1, <1>t, <2>1, <2>2, <2>3, <3>1 DEF Stalls, Orphan
  <2> QED BY <2>2, <2>3, <2>4, <2>5, <2>6, <2>7, JobSteps DEF JobMoves
<1> QED BY <1>1, <1>2 DEF StallsCounted

\* Two executions of one document are one execution.
LEMMA OneExecution ==
  ASSUME TypeOK, Employed, OneAtATime, NEW s \in Slots, NEW t \in Slots,
         pc[s] # "idle", pc[t] # "idle", Doc(s) = Doc(t)
  PROVE  s = t
<1>1. job \in [Slots -> JobIds] /\ Owns(s) /\ Owns(t)
  BY DEF TypeOK, Employed
<1>2. CASE MaxJobs = 1
  <2>1. job[s] = <<job[s][1], 1>> /\ job[t] = <<job[t][1], 1>>
    BY <1>1, <1>2 DEF JobIds
  <2>2. job[s] = job[t]
    BY <2>1 DEF Doc
  <2> QED BY <1>1, <2>2 DEF Owns
<1> QED BY <1>2 DEF OneAtATime

LEMMA PromisesStandStays ==
  ASSUME TypeOK, [Next]_vars, Employed, LockHeld, PromisesStand, OneAtATime
  PROVE  PromisesStand'
<1>t. /\ pc \in [Slots -> Labels] /\ lock \in [Docs -> Slots \cup {NoSlot}]
      /\ \A s \in Slots : Doc(s) \in Docs
      /\ retrying' \subseteq Docs
  BY TypesStay, DocType DEF TypeOK
<1>1. ASSUME NEW d \in retrying' PROVE Exists(d)'
  BY <1>1, <1>t, PromiseSteps DEF PromiseMoves, PromisesStand
<1>2. ASSUME NEW s \in Slots, pc'[s] \in {"unlock", "notify", "complete"},
             Doc(s)' \in retrying'
      PROVE  FALSE
  <2>1. pc[s] # "idle" /\ job'[s] = job[s] /\ Doc(s)' = Doc(s)
    <3>1. ~(\E id \in JobIds : TakeJob(s, id))
      BY <1>2, <1>t DEF TakeJob
    <3> QED BY <1>2, <3>1, SlotSteps DEF SlotMoves, Doc
  <2>2. CASE /\ pc[s] \in {"unlock", "notify", "complete"}
             /\ Doc(s) \notin retrying
    <3>1. PICK t \in Slots : HandleFailure(t) /\ Doc(t) = Doc(s)
      BY <1>2, <1>t, <2>1, <2>2, PromiseSteps DEF PromiseMoves
    <3>2. pc[t] = "failed"
      BY <3>1 DEF HandleFailure
    <3> QED BY <2>1, <2>2, <3>1, <3>2, OneExecution
  <2>3. CASE ~Exists(Doc(s))
    BY <1>2, <1>t, <2>1, <2>3, PromiseSteps DEF PromiseMoves, PromisesStand
  <2>4. CASE pc[s] = "claimed" /\ lock[Doc(s)] # NoSlot
    <3> DEFINE t == lock[Doc(s)]
    <3>1. t \in Slots /\ pc[t] \in Holding /\ Doc(t) = Doc(s)
      BY <1>t, <2>4 DEF LockHeld
    <3>2. s = t
      BY <2>1, <3>1, OneExecution DEF Holding
    <3> QED BY <2>4, <3>1, <3>2 DEF Holding
  <2>5. pc[s] \in {"unlock", "notify", "complete"} => Doc(s) \notin retrying
    BY DEF PromisesStand
  <2> QED BY <1>2, <2>1, <2>2, <2>3, <2>4, <2>5, SlotSteps DEF SlotMoves
<1> QED BY <1>1, <1>2 DEF PromisesStand

\* A failure that keeps or makes a promise puts its job back.
LEMMA FailureRequeues ==
  ASSUME TypeOK, PromisesStand, Bound["unwritten"] = 0,
         NEW s \in Slots, HandleFailure(s), Owns(s), Doc(s) \in retrying'
  PROVE  jobs'[job[s]].state = "waiting"
<1>t. /\ jobs \in [JobIds -> Job] /\ job[s] \in JobIds
      /\ used["unwritten"] \in Nat
  BY DEF TypeOK, Budgets
<1>1. ~Spend("unwritten")
  BY <1>t DEF Spend
<1>2. PICK permanent \in BOOLEAN :
        LET retry == attempt[s] < MaxAttempts /\ ~permanent
        IN  /\ \/ /\ Exists(Doc(s))
                  /\ retrying' = IF retry THEN retrying \cup {Doc(s)}
                                 ELSE retrying \ {Doc(s)}
               \/ ~Exists(Doc(s)) /\ retrying' = retrying
            /\ jobs' = IF ~Owns(s) THEN jobs
                       ELSE [jobs EXCEPT ![job[s]] =
                         IF retry THEN [@ EXCEPT !.state = "waiting",
                                          !.holder = NoSlot,
                                          !.attempts = attempt[s]]
                         ELSE FreeJob]
  BY <1>1 DEF HandleFailure
<1>3. Exists(Doc(s))
  BY <1>2 DEF PromisesStand
<1>4. attempt[s] < MaxAttempts /\ ~permanent
  BY <1>2, <1>3
<1> QED BY <1>t, <1>2, <1>4 DEF Job

LEMMA RetryStays ==
  ASSUME TypeOK, [Next]_vars, Employed, StallsCounted, PromisesStand,
         RetryIsQueued, Bound["lapse"] = 0, Bound["unwritten"] = 0,
         Bound["crash"] <= MaxStalls
  PROVE  RetryIsQueued'
<1> SUFFICES ASSUME NEW d \in retrying'
             PROVE  \E n \in 1 .. MaxJobs : jobs'[<<d, n>>].state # "none"
  BY DEF RetryIsQueued
<1>t. /\ jobs \in [JobIds -> Job] /\ job \in [Slots -> JobIds]
      /\ used \in [Budgets -> Nat] /\ Bound \in [Budgets -> Nat]
      /\ MaxStalls \in Nat /\ {"crash", "lapse"} \subseteq Budgets
      /\ d \in Docs
  BY TypesStay DEF TypeOK, Budgets
<1>1. CASE d \in retrying
  <2>1. PICK n \in 1 .. MaxJobs : jobs[<<d, n>>].state # "none"
    BY <1>1 DEF RetryIsQueued
  <2> DEFINE i == <<d, n>>
  <2>2. i \in JobIds /\ i[1] = d /\ jobs[i].state # "none" /\ jobs[i] \in Job
    BY <1>t, <2>1 DEF JobIds
  <2> HIDE DEF i
  <2>3. ASSUME NEW s \in Slots, TakeJob(s, i) PROVE jobs'[i].state # "none"
    BY <1>t, <2>2, <2>3 DEF TakeJob, Job
  <2>4. ASSUME StallJob(i) PROVE jobs'[i].state # "none"
    <3>1. Orphan(i) /\ jobs' = [jobs EXCEPT ![i] = Stalled(@)]
      BY <1>t, <2>4 DEF StallJob, Orphan, Spend
    <3>2. jobs[i].stalls \in Nat /\ Stalls(i) = jobs[i].stalls + 1
      BY <2>2, <3>1 DEF Stalls, Job
    <3>3. Stalls(i) <= used["crash"] /\ used["crash"] <= Bound["crash"]
      BY <2>2 DEF StallsCounted
    <3>4. jobs[i].stalls < MaxStalls
      BY <1>t, <3>2, <3>3
    <3>5. jobs'[i] = Stalled(jobs[i])
      BY <1>t, <2>2, <3>1
    <3>6. Stalled(jobs[i]).state = "waiting"
      BY <2>2, <3>4 DEF Stalled, Job
    <3> QED BY <3>5, <3>6
  <2>5. ASSUME NEW s \in Slots, Crash(s) PROVE jobs'[i].state # "none"
    BY <1>t, <2>2, <2>5 DEF Crash, Job
  <2>6. ASSUME NEW s \in Slots, CompleteJob(s) \/ HandleFailure(s),
               Owns(s), job[s] = i
        PROVE  jobs'[i].state # "none"
    <3>1. Doc(s) = d
      BY <2>2, <2>6 DEF Doc
    <3>2. ~CompleteJob(s)
      BY <1>1, <3>1 DEF CompleteJob, PromisesStand
    <3> QED BY <2>6, <3>1, <3>2, FailureRequeues
  <2>7. status[i[1]] # "deleted"
    BY <1>1, <2>2 DEF PromisesStand, Exists
  <2>8. jobs'[i].state # "none"
    <3>1. ASSUME NEW dedup \in BOOLEAN PROVE NewJob(dedup).state = "waiting"
      BY DEF NewJob, FreeJob
    <3>2. CASE jobs'[i] = jobs[i]
      BY <2>2, <3>2
    <3>3. CASE \E dedup \in BOOLEAN : jobs'[i] = NewJob(dedup)
      BY <3>1, <3>3
    <3>4. JobMoves(i)
      BY <2>2, JobSteps
    <3>5. \/ jobs'[i] = jobs[i]
          \/ \E dedup \in BOOLEAN : jobs'[i] = NewJob(dedup)
          \/ \E s \in Slots : TakeJob(s, i)
          \/ StallJob(i)
          \/ \E s \in Slots : Crash(s)
          \/ \E s \in Slots : /\ CompleteJob(s) \/ HandleFailure(s)
                              /\ Owns(s) /\ job[s] = i
      BY <2>7, <3>4, Zenon DEF JobMoves
    <3> QED BY <2>3, <2>4, <2>5, <2>6, <3>2, <3>3, <3>5
  <2> QED BY <2>8 DEF i
<1>2. CASE d \notin retrying
  <2>1. PICK s \in Slots :
          /\ HandleFailure(s) /\ Doc(s) = d
          /\ Owns(s) => jobs'[job[s]].state = "waiting"
    BY <1>2, <1>t, PromiseSteps DEF PromiseMoves
  <2>2. Owns(s)
    BY <2>1 DEF HandleFailure, Employed
  <2>3. PICK n \in 1 .. MaxJobs : job[s] = <<d, n>>
    BY <1>t, <2>1 DEF JobIds, Doc
  <2> QED BY <2>1, <2>2, <2>3
<1> QED BY <1>1, <1>2

LEMMA RetryBegins ==
  Init => Employed /\ LockHeld /\ StallsCounted /\ PromisesStand /\ RetryIsQueued
<1> SUFFICES ASSUME Init
             PROVE  Employed /\ LockHeld /\ StallsCounted /\ PromisesStand
                    /\ RetryIsQueued
  OBVIOUS
<1>1. Employed /\ LockHeld /\ PromisesStand /\ RetryIsQueued
  BY DEF Init, Employed, LockHeld, PromisesStand, RetryIsQueued
<1>2. StallsCounted
  <2>1. used["crash"] = 0 /\ Bound["crash"] \in Nat
    BY DEF Init, Budgets
  <2>2. ASSUME NEW i \in JobIds PROVE Stalls(i) = 0
    BY DEF Init, FreeJob, Stalls, Orphan
  <2> QED BY <2>1, <2>2 DEF StallsCounted
<1> QED BY <1>1, <1>2

\* "It will be retried automatically" is true (worker.py, problem of a failed
\* attempt) when one job of a document is in the queue at a time or one slot
\* works, no job outlives its lock, the failure is always written to the
\* document, and workers die no more often than BullMQ lets a job stall.
THEOREM RetryHolds ==
  ASSUME OneAtATime, Bound["lapse"] = 0, Bound["unwritten"] = 0,
         Bound["crash"] <= MaxStalls
  PROVE  Spec => []RetryIsQueued
<1> DEFINE Inv == /\ TypeOK /\ Employed /\ LockHeld /\ StallsCounted
                  /\ PromisesStand /\ RetryIsQueued
<1>1. Init => Inv
  BY TypesBegin, RetryBegins
<1>2. Inv /\ [Next]_vars => Inv'
  BY TypesStay, EmployedStays, LockHeldStays, StallsStay, PromisesStandStays,
     RetryStays
<1>3. Inv => RetryIsQueued
  OBVIOUS
<1> QED BY <1>1, <1>2, <1>3, PTL DEF Spec
=============================================================================
