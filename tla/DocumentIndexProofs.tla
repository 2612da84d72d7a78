------------------------- MODULE DocumentIndexProofs -------------------------
(***************************************************************************)
(* What a completed document promises about its contents: that chat finds  *)
(* what was read, that every due page was read, and that the combined      *)
(* numbers are the manifest's.  The argument is the same in all three: only*)
(* the execution that holds a document's lock completes it, and it does so *)
(* after the step that makes the promise true.                             *)
(***************************************************************************)
EXTENDS DocumentProcessingProofs

USE SizesAssumption, SlotAssumption, KindAssumption, FlagAssumption,
    BoundAssumption

-----------------------------------------------------------------------------
(* What one step does to a document, a page and an execution.              *)

Pool == {"extract", "draining"}

\* A document is created once, completed by the execution that holds it, and
\* goes only when somebody deletes it.
Affected(d) ==
  /\ d \in Live' => d \in Live \/ status[d] = "absent"
  /\ status[d] = "absent" => status'[d] \in {"absent", "uploaded"}
  /\ status[d] # "absent" => status'[d] # "absent"
  /\ status'[d] = "completed" =>
       \/ status[d] = "completed"
       \/ \E s \in Slots : /\ pc[s] = "finalize" /\ Doc(s) = d
                        /\ pc'[s] = "unlock"
  /\ prev'[d] # prev[d] => prev'[d] = NoDoc \/ prev'[d] \in Live
  /\ (d \in counted => Exists(d)) => (d \in counted' => Exists(d)')
  /\ Exists(d) => Exists(d)' \/ "delete" \in Requests

\* The rows and the point of a page change by the execution that has the page
\* in hand, or go with the document.
Touched(pg) ==
  /\ pg \in full' \ full =>
       \E s \in Slots : /\ pc[s] \in Pool /\ Doc(s) = pg[1]
                        /\ pg[2] \notin fullTodo'[s]
  /\ (pg \in full => pg \in pictured) => (pg \in full' => pg \in pictured')
  /\ pg \in chunks' \ chunks => pg \in pictured
  /\ pg \in chunks' /\ Exists(pg[1]) => Exists(pg[1])'
  /\ pg \in embedded \ embedded' =>
       \/ ~Exists(pg[1])' \/ "reembed" \in Requests
       \/ \E s \in Slots : pc[s] \in Pool /\ Doc(s) = pg[1]
  /\ pg \in embedded' \ embedded =>
       /\ pg \in chunks
       /\ \E s \in Slots : /\ pc[s] = "mark" /\ Doc(s) = pg[1]
                           /\ pg[2] \in toEmbed[s]
  /\ (pg \in embedded => pg \in chunks) => (pg \in embedded' => pg \in chunks')
  /\ pg \in points \ points' =>
       \/ status[pg[1]] = "deleted"
       \/ \E s \in Slots : pc[s] = "retire" /\ replaces[s] = pg[1]

\* An execution is left alone, ...
Still(t) ==
  /\ pc'[t] = pc[t] /\ job'[t] = job[t] /\ round'[t] = round[t]
  /\ quickTodo'[t] = quickTodo[t] /\ fullTodo'[t] = fullTodo[t]
  /\ halfDone'[t] = halfDone[t] /\ replaces'[t] = replaces[t]
  /\ toEmbed'[t] = toEmbed[t]
\* ... is outside the document's lock afterwards, or takes a step inside it.
Leaves(t) ==
  /\ pc'[t] \in {"idle", "claimed", "notify", "complete", "failed"}
  /\ replaces'[t] \in {replaces[t], NoDoc}
Works(t) ==
  \/ TryLock(t) \/ Start(t) \/ OpenPdf(t) \/ PlanRound(t) \/ PageStep(t)
  \/ (\E p \in PageNos : PageRaises(t, p)) \/ PoolDrained(t) \/ Supersede(t)
  \/ Renumber(t) \/ ReadChunks(t) \/ UpsertPoints(t) \/ DeleteOldPoints(t)
  \/ MarkEmbedded(t) \/ Finalize(t)

\* What a step does to a document.
LEMMA StepAffects ==
  ASSUME TypeOK, [Next]_vars, NEW e \in Docs
  PROVE  Affected(e)
<1> USE DEF docVars, pageVars, indexVars, apiVars, slotVars, taskVars,
            sortVars, Goto
<1> USE DEF Affected, Live, Exists
<1>t. /\ status \in [Docs -> Statuses] /\ prev \in [Docs -> Docs \cup {NoDoc}]
      /\ pc \in [Slots -> Labels]
      /\ \A s \in Slots : Doc(s) \in Docs
  BY DocType DEF TypeOK
<1>1. ASSUME NEW d \in Docs, NEW p \in Docs \cup {NoDoc}, InitiateUpload(d, p)
      PROVE  Affected(e)
  BY <1>1, <1>t DEF InitiateUpload
<1>2. ASSUME NEW d \in Docs, CompleteUpload(d) PROVE Affected(e)
  BY <1>2, <1>t DEF CompleteUpload
<1>3. ASSUME NEW d \in Docs, Reprocess(d) PROVE Affected(e)
  BY <1>3, <1>t DEF Reprocess
<1>4. ASSUME NEW reembed \in BOOLEAN, Reindex(reembed) PROVE Affected(e)
  BY <1>4, <1>t DEF Reindex
<1>5. ASSUME NEW d \in Docs, ReindexOne(d) PROVE Affected(e)
  BY <1>5, <1>t DEF ReindexOne
<1>6. ASSUME NEW k \in Kinds, ChooseDisciplines(k) PROVE Affected(e)
  BY <1>6, <1>t DEF ChooseDisciplines
<1>7. ASSUME NEW d \in Docs, DeleteRow(d) PROVE Affected(e)
  BY <1>7, <1>t DEF DeleteRow, Request
<1>8. ASSUME NEW d \in Docs, CleanUpDeleted(d) PROVE Affected(e)
  BY <1>8, <1>t DEF CleanUpDeleted
<1>9. CASE ReadTitleBlocks
  BY <1>9, <1>t DEF ReadTitleBlocks
<1>10. CASE ListenForSortedPages
  BY <1>10, <1>t DEF ListenForSortedPages
<1>11. ASSUME NEW s \in Slots, NEW id \in JobIds, TakeJob(s, id)
      PROVE  Affected(e)
  BY <1>11, <1>t DEF TakeJob
<1>12. ASSUME NEW id \in JobIds, StallJob(id) PROVE Affected(e)
  BY <1>12, <1>t DEF StallJob
<1>13. ASSUME NEW s \in Slots, Crash(s) PROVE Affected(e)
  BY <1>13, <1>t DEF Crash
<1>14. ASSUME NEW s \in Slots, TryLock(s) PROVE Affected(e)
  BY <1>14, <1>t DEF TryLock
<1>15. ASSUME NEW s \in Slots, Start(s) PROVE Affected(e)
  BY <1>15, <1>t DEF Start
<1>16. ASSUME NEW s \in Slots, OpenPdf(s) PROVE Affected(e)
  BY <1>16, <1>t DEF OpenPdf
<1>17. ASSUME NEW s \in Slots, PlanRound(s) PROVE Affected(e)
  BY <1>17, <1>t DEF PlanRound
<1>18. ASSUME NEW s \in Slots, NEW p \in PageNos, QuickPage(s, p)
      PROVE  Affected(e)
  BY <1>18, <1>t DEF QuickPage
<1>19. ASSUME NEW s \in Slots, NEW p \in PageNos, ReplaceChunks(s, p)
      PROVE  Affected(e)
  BY <1>19, <1>t DEF ReplaceChunks
<1>20. ASSUME NEW s \in Slots, NEW p \in PageNos, MarkFull(s, p)
      PROVE  Affected(e)
  BY <1>20, <1>t DEF MarkFull
<1>21. ASSUME NEW s \in Slots, NEW p \in PageNos, PageRaises(s, p)
      PROVE  Affected(e)
  BY <1>21, <1>t DEF PageRaises
<1>22. ASSUME NEW s \in Slots, PoolDrained(s) PROVE Affected(e)
  BY <1>22, <1>t DEF PoolDrained
<1>23. ASSUME NEW s \in Slots, Supersede(s) PROVE Affected(e)
  BY <1>23, <1>t DEF Supersede
<1>24. ASSUME NEW s \in Slots, Renumber(s) PROVE Affected(e)
  BY <1>24, <1>t DEF Renumber
<1>25. ASSUME NEW s \in Slots, ReadChunks(s) PROVE Affected(e)
  BY <1>25, <1>t DEF ReadChunks
<1>26. ASSUME NEW s \in Slots, UpsertPoints(s) PROVE Affected(e)
  BY <1>26, <1>t DEF UpsertPoints
<1>27. ASSUME NEW s \in Slots, DeleteOldPoints(s) PROVE Affected(e)
  BY <1>27, <1>t DEF DeleteOldPoints
<1>28. ASSUME NEW s \in Slots, MarkEmbedded(s) PROVE Affected(e)
  BY <1>28, <1>t DEF MarkEmbedded
<1>29. ASSUME NEW s \in Slots, Finalize(s) PROVE Affected(e)
  BY <1>29, <1>t DEF Finalize
<1>30. ASSUME NEW s \in Slots, Unlock(s) PROVE Affected(e)
  BY <1>30, <1>t DEF Unlock
<1>31. ASSUME NEW s \in Slots, Notify(s) PROVE Affected(e)
  BY <1>31, <1>t DEF Notify
<1>32. ASSUME NEW s \in Slots, CompleteJob(s) PROVE Affected(e)
  BY <1>32, <1>t DEF CompleteJob
<1>33. ASSUME NEW s \in Slots, Raise(s) PROVE Affected(e)
  BY <1>33, <1>t DEF Raise
<1>34. ASSUME NEW s \in Slots, HandleFailure(s) PROVE Affected(e)
  BY <1>34, <1>t DEF HandleFailure
<1>35. CASE UNCHANGED vars
  BY <1>35, <1>t DEF vars
<1> QED
  BY <1>1, <1>2, <1>3, <1>4, <1>5, <1>6, <1>7, <1>8, <1>9, <1>10, <1>11,
     <1>12, <1>13, <1>14, <1>15, <1>16, <1>17, <1>18, <1>19, <1>20, <1>21,
     <1>22, <1>23, <1>24, <1>25, <1>26, <1>27, <1>28, <1>29, <1>30, <1>31,
     <1>32, <1>33, <1>34, <1>35 DEF Next, ApiStep, WorkStep, PageStep,
     FaultStep

\* What a step does to a page.
LEMMA StepTouches ==
  ASSUME TypeOK, [Next]_vars, NEW pg \in Pages
  PROVE  Touched(pg)
<1> USE DEF docVars, pageVars, indexVars, apiVars, slotVars, taskVars,
            sortVars, Goto
<1> USE DEF Touched, Exists, Pool
<1>t. /\ status \in [Docs -> Statuses] /\ fullTodo \in [Slots -> SUBSET PageNos]
      /\ \A s \in Slots : Doc(s) \in Docs
  BY DocType DEF TypeOK
<1>p. pg[1] \in Docs /\ pg[2] \in PageNos /\ pg = <<pg[1], pg[2]>>
  BY DEF Pages
<1>1. ASSUME NEW d \in Docs, NEW p \in Docs \cup {NoDoc}, InitiateUpload(d, p)
      PROVE  Touched(pg)
  BY <1>1, <1>t, <1>p DEF InitiateUpload
<1>2. ASSUME NEW d \in Docs, CompleteUpload(d) PROVE Touched(pg)
  BY <1>2, <1>t, <1>p DEF CompleteUpload
<1>3. ASSUME NEW d \in Docs, Reprocess(d) PROVE Touched(pg)
  BY <1>3, <1>t, <1>p DEF Reprocess
<1>4. ASSUME NEW reembed \in BOOLEAN, Reindex(reembed) PROVE Touched(pg)
  BY <1>4, <1>t, <1>p DEF Reindex, Request
<1>5. ASSUME NEW d \in Docs, ReindexOne(d) PROVE Touched(pg)
  BY <1>5, <1>t, <1>p DEF ReindexOne
<1>6. ASSUME NEW k \in Kinds, ChooseDisciplines(k) PROVE Touched(pg)
  BY <1>6, <1>t, <1>p DEF ChooseDisciplines
<1>7. ASSUME NEW d \in Docs, DeleteRow(d) PROVE Touched(pg)
  BY <1>7, <1>t, <1>p DEF DeleteRow, PagesOf
<1>8. ASSUME NEW d \in Docs, CleanUpDeleted(d) PROVE Touched(pg)
  BY <1>8, <1>t, <1>p DEF CleanUpDeleted, PagesOf
<1>9. CASE ReadTitleBlocks
  BY <1>9, <1>t, <1>p DEF ReadTitleBlocks
<1>10. CASE ListenForSortedPages
  BY <1>10, <1>t, <1>p DEF ListenForSortedPages
<1>11. ASSUME NEW s \in Slots, NEW id \in JobIds, TakeJob(s, id)
      PROVE  Touched(pg)
  BY <1>11, <1>t, <1>p DEF TakeJob
<1>12. ASSUME NEW id \in JobIds, StallJob(id) PROVE Touched(pg)
  BY <1>12, <1>t, <1>p DEF StallJob
<1>13. ASSUME NEW s \in Slots, Crash(s) PROVE Touched(pg)
  BY <1>13, <1>t, <1>p DEF Crash
<1>14. ASSUME NEW s \in Slots, TryLock(s) PROVE Touched(pg)
  BY <1>14, <1>t, <1>p DEF TryLock
<1>15. ASSUME NEW s \in Slots, Start(s) PROVE Touched(pg)
  BY <1>15, <1>t, <1>p DEF Start
<1>16. ASSUME NEW s \in Slots, OpenPdf(s) PROVE Touched(pg)
  BY <1>16, <1>t, <1>p DEF OpenPdf
<1>17. ASSUME NEW s \in Slots, PlanRound(s) PROVE Touched(pg)
  BY <1>17, <1>t, <1>p DEF PlanRound
<1>18. ASSUME NEW s \in Slots, NEW p \in PageNos, QuickPage(s, p)
      PROVE  Touched(pg)
  BY <1>18, <1>t, <1>p DEF QuickPage
<1>19. ASSUME NEW s \in Slots, NEW p \in PageNos, ReplaceChunks(s, p)
      PROVE  Touched(pg)
  BY <1>19, <1>t, <1>p DEF ReplaceChunks
<1>20. ASSUME NEW s \in Slots, NEW p \in PageNos, MarkFull(s, p)
      PROVE  Touched(pg)
  BY <1>20, <1>t, <1>p DEF MarkFull
<1>21. ASSUME NEW s \in Slots, NEW p \in PageNos, PageRaises(s, p)
      PROVE  Touched(pg)
  BY <1>21, <1>t, <1>p DEF PageRaises
<1>22. ASSUME NEW s \in Slots, PoolDrained(s) PROVE Touched(pg)
  BY <1>22, <1>t, <1>p DEF PoolDrained
<1>23. ASSUME NEW s \in Slots, Supersede(s) PROVE Touched(pg)
  BY <1>23, <1>t, <1>p DEF Supersede
<1>24. ASSUME NEW s \in Slots, Renumber(s) PROVE Touched(pg)
  BY <1>24, <1>t, <1>p DEF Renumber
<1>25. ASSUME NEW s \in Slots, ReadChunks(s) PROVE Touched(pg)
  BY <1>25, <1>t, <1>p DEF ReadChunks
<1>26. ASSUME NEW s \in Slots, UpsertPoints(s) PROVE Touched(pg)
  BY <1>26, <1>t, <1>p DEF UpsertPoints
<1>27. ASSUME NEW s \in Slots, DeleteOldPoints(s) PROVE Touched(pg)
  BY <1>27, <1>t, <1>p DEF DeleteOldPoints, PagesOf
<1>28. ASSUME NEW s \in Slots, MarkEmbedded(s) PROVE Touched(pg)
  BY <1>28, <1>t, <1>p DEF MarkEmbedded
<1>29. ASSUME NEW s \in Slots, Finalize(s) PROVE Touched(pg)
  BY <1>29, <1>t, <1>p DEF Finalize
<1>30. ASSUME NEW s \in Slots, Unlock(s) PROVE Touched(pg)
  BY <1>30, <1>t, <1>p DEF Unlock
<1>31. ASSUME NEW s \in Slots, Notify(s) PROVE Touched(pg)
  BY <1>31, <1>t, <1>p DEF Notify
<1>32. ASSUME NEW s \in Slots, CompleteJob(s) PROVE Touched(pg)
  BY <1>32, <1>t, <1>p DEF CompleteJob
<1>33. ASSUME NEW s \in Slots, Raise(s) PROVE Touched(pg)
  BY <1>33, <1>t, <1>p DEF Raise
<1>34. ASSUME NEW s \in Slots, HandleFailure(s) PROVE Touched(pg)
  BY <1>34, <1>t, <1>p DEF HandleFailure
<1>35. CASE UNCHANGED vars
  BY <1>35, <1>t, <1>p DEF vars
<1> QED
  BY <1>1, <1>2, <1>3, <1>4, <1>5, <1>6, <1>7, <1>8, <1>9, <1>10, <1>11,
     <1>12, <1>13, <1>14, <1>15, <1>16, <1>17, <1>18, <1>19, <1>20, <1>21,
     <1>22, <1>23, <1>24, <1>25, <1>26, <1>27, <1>28, <1>29, <1>30, <1>31,
     <1>32, <1>33, <1>34, <1>35 DEF Next, ApiStep, WorkStep, PageStep,
     FaultStep

\* What a step does to an execution.
LEMMA StepMoves ==
  ASSUME TypeOK, [Next]_vars, NEW t \in Slots
  PROVE  Still(t) \/ Leaves(t) \/ Works(t)
<1> USE DEF docVars, pageVars, indexVars, apiVars, slotVars, taskVars,
            sortVars, Goto
<1> DEFINE Moves == Still(t) \/ Leaves(t) \/ Works(t)
<1>t. /\ pc \in [Slots -> Labels] /\ job \in [Slots -> JobIds]
      /\ round \in [Slots -> Nat] /\ quickTodo \in [Slots -> SUBSET PageNos]
      /\ fullTodo \in [Slots -> SUBSET PageNos]
      /\ halfDone \in [Slots -> SUBSET PageNos]
      /\ replaces \in [Slots -> Docs \cup {NoDoc}]
      /\ toEmbed \in [Slots -> SUBSET PageNos]
  BY DEF TypeOK
<1>1. ASSUME NEW d \in Docs, NEW p \in Docs \cup {NoDoc}, InitiateUpload(d, p)
      PROVE  Moves
  BY <1>1, <1>t DEF InitiateUpload, Still
<1>2. ASSUME NEW d \in Docs, CompleteUpload(d) PROVE Moves
  BY <1>2, <1>t DEF CompleteUpload, Still
<1>3. ASSUME NEW d \in Docs, Reprocess(d) PROVE Moves
  BY <1>3, <1>t DEF Reprocess, Still
<1>4. ASSUME NEW reembed \in BOOLEAN, Reindex(reembed) PROVE Moves
  BY <1>4, <1>t DEF Reindex, Still
<1>5. ASSUME NEW d \in Docs, ReindexOne(d) PROVE Moves
  BY <1>5, <1>t DEF ReindexOne, Still
<1>6. ASSUME NEW k \in Kinds, ChooseDisciplines(k) PROVE Moves
  BY <1>6, <1>t DEF ChooseDisciplines, Still
<1>7. ASSUME NEW d \in Docs, DeleteRow(d) PROVE Moves
  BY <1>7, <1>t DEF DeleteRow, Still
<1>8. ASSUME NEW d \in Docs, CleanUpDeleted(d) PROVE Moves
  BY <1>8, <1>t DEF CleanUpDeleted, Still
<1>9. CASE ReadTitleBlocks
  BY <1>9, <1>t DEF ReadTitleBlocks, Still
<1>10. CASE ListenForSortedPages
  BY <1>10, <1>t DEF ListenForSortedPages, Still
<1>11. ASSUME NEW s \in Slots, NEW id \in JobIds, TakeJob(s, id) PROVE Moves
  BY <1>11, <1>t DEF TakeJob, Still, Leaves
<1>12. ASSUME NEW id \in JobIds, StallJob(id) PROVE Moves
  BY <1>12, <1>t DEF StallJob, Still
<1>13. ASSUME NEW s \in Slots, Crash(s) PROVE Moves
  BY <1>13, <1>t DEF Crash, ClearTask, Still, Leaves
<1>14. ASSUME NEW s \in Slots, TryLock(s) PROVE Moves
  <2>1. CASE s = t
    BY <1>14, <2>1 DEF Works
  <2>2. CASE s # t
    BY <1>14, <2>2, <1>t DEF Still, TryLock
  <2> QED BY <2>1, <2>2
<1>15. ASSUME NEW s \in Slots, Start(s) PROVE Moves
  <2>1. CASE s = t
    BY <1>15, <2>1 DEF Works
  <2>2. CASE s # t
    BY <1>15, <2>2, <1>t DEF Still, Start
  <2> QED BY <2>1, <2>2
<1>16. ASSUME NEW s \in Slots, OpenPdf(s) PROVE Moves
  <2>1. CASE s = t
    BY <1>16, <2>1 DEF Works
  <2>2. CASE s # t
    BY <1>16, <2>2, <1>t DEF Still, OpenPdf
  <2> QED BY <2>1, <2>2
<1>17. ASSUME NEW s \in Slots, PlanRound(s) PROVE Moves
  <2>1. CASE s = t
    BY <1>17, <2>1 DEF Works
  <2>2. CASE s # t
    BY <1>17, <2>2, <1>t DEF Still, PlanRound
  <2> QED BY <2>1, <2>2
<1>18. ASSUME NEW s \in Slots, NEW p \in PageNos, QuickPage(s, p) PROVE Moves
  <2>1. CASE s = t
    BY <1>18, <2>1 DEF Works, PageStep
  <2>2. CASE s # t
    BY <1>18, <2>2, <1>t DEF Still, QuickPage
  <2> QED BY <2>1, <2>2
<1>19. ASSUME NEW s \in Slots, NEW p \in PageNos, ReplaceChunks(s, p)
      PROVE  Moves
  <2>1. CASE s = t
    BY <1>19, <2>1 DEF Works, PageStep
  <2>2. CASE s # t
    BY <1>19, <2>2, <1>t DEF Still, ReplaceChunks
  <2> QED BY <2>1, <2>2
<1>20. ASSUME NEW s \in Slots, NEW p \in PageNos, MarkFull(s, p) PROVE Moves
  <2>1. CASE s = t
    BY <1>20, <2>1 DEF Works, PageStep
  <2>2. CASE s # t
    BY <1>20, <2>2, <1>t DEF Still, MarkFull
  <2> QED BY <2>1, <2>2
<1>21. ASSUME NEW s \in Slots, NEW p \in PageNos, PageRaises(s, p) PROVE Moves
  <2>1. CASE s = t
    BY <1>21, <2>1 DEF Works
  <2>2. CASE s # t
    BY <1>21, <2>2, <1>t DEF Still, PageRaises
  <2> QED BY <2>1, <2>2
<1>22. ASSUME NEW s \in Slots, PoolDrained(s) PROVE Moves
  <2>1. CASE s = t
    BY <1>22, <2>1 DEF Works
  <2>2. CASE s # t
    BY <1>22, <2>2, <1>t DEF Still, PoolDrained, ClearTask
  <2> QED BY <2>1, <2>2
<1>23. ASSUME NEW s \in Slots, Supersede(s) PROVE Moves
  <2>1. CASE s = t
    BY <1>23, <2>1 DEF Works
  <2>2. CASE s # t
    BY <1>23, <2>2, <1>t DEF Still, Supersede, ClearTask
  <2> QED BY <2>1, <2>2
<1>24. ASSUME NEW s \in Slots, Renumber(s) PROVE Moves
  <2>1. CASE s = t
    BY <1>24, <2>1 DEF Works
  <2>2. CASE s # t
    BY <1>24, <2>2, <1>t DEF Still, Renumber
  <2> QED BY <2>1, <2>2
<1>25. ASSUME NEW s \in Slots, ReadChunks(s) PROVE Moves
  <2>1. CASE s = t
    BY <1>25, <2>1 DEF Works
  <2>2. CASE s # t
    BY <1>25, <2>2, <1>t DEF Still, ReadChunks, ClearTask
  <2> QED BY <2>1, <2>2
<1>26. ASSUME NEW s \in Slots, UpsertPoints(s) PROVE Moves
  <2>1. CASE s = t
    BY <1>26, <2>1 DEF Works
  <2>2. CASE s # t
    BY <1>26, <2>2, <1>t DEF Still, UpsertPoints
  <2> QED BY <2>1, <2>2
<1>27. ASSUME NEW s \in Slots, DeleteOldPoints(s) PROVE Moves
  <2>1. CASE s = t
    BY <1>27, <2>1 DEF Works
  <2>2. CASE s # t
    BY <1>27, <2>2, <1>t DEF Still, DeleteOldPoints
  <2> QED BY <2>1, <2>2
<1>28. ASSUME NEW s \in Slots, MarkEmbedded(s) PROVE Moves
  <2>1. CASE s = t
    BY <1>28, <2>1 DEF Works
  <2>2. CASE s # t
    BY <1>28, <2>2, <1>t DEF Still, MarkEmbedded
  <2> QED BY <2>1, <2>2
<1>29. ASSUME NEW s \in Slots, Finalize(s) PROVE Moves
  <2>1. CASE s = t
    BY <1>29, <2>1 DEF Works
  <2>2. CASE s # t
    BY <1>29, <2>2, <1>t DEF Still, Finalize
  <2> QED BY <2>1, <2>2
<1>30. ASSUME NEW s \in Slots, Unlock(s) PROVE Moves
  BY <1>30, <1>t DEF Unlock, ClearTask, Still, Leaves
<1>31. ASSUME NEW s \in Slots, Notify(s) PROVE Moves
  BY <1>31, <1>t DEF Notify, Still, Leaves
<1>32. ASSUME NEW s \in Slots, CompleteJob(s) PROVE Moves
  BY <1>32, <1>t DEF CompleteJob, Still, Leaves
<1>33. ASSUME NEW s \in Slots, Raise(s) PROVE Moves
  BY <1>33, <1>t DEF Raise, ClearTask, Still, Leaves
<1>34. ASSUME NEW s \in Slots, HandleFailure(s) PROVE Moves
  BY <1>34, <1>t DEF HandleFailure, Still, Leaves
<1>35. CASE UNCHANGED vars
  BY <1>35, <1>t DEF vars, Still
<1> QED
  BY <1>1, <1>2, <1>3, <1>4, <1>5, <1>6, <1>7, <1>8, <1>9, <1>10, <1>11,
     <1>12, <1>13, <1>14, <1>15, <1>16, <1>17, <1>18, <1>19, <1>20, <1>21,
     <1>22, <1>23, <1>24, <1>25, <1>26, <1>27, <1>28, <1>29, <1>30, <1>31,
     <1>32, <1>33, <1>34, <1>35 DEF Next, ApiStep, WorkStep, PageStep,
     FaultStep

-----------------------------------------------------------------------------
(* Who holds a document.                                                   *)

Busy == Holding \ {"start", "unlock"}

\* A document that is being worked on is not completed.
Unfinished == \A s \in Slots : pc[s] \in Busy => status[Doc(s)] # "completed"

\* Chunks and counts go with their document.
Written == /\ \A pg \in chunks : Exists(pg[1])
           /\ \A d \in counted : Exists(d)

\* What an execution has replaced is out of the combined set for good.
Replaced ==
  /\ \A d \in Docs : prev[d] # NoDoc => status[prev[d]] # "absent"
  /\ \A s \in Slots : replaces[s] # NoDoc =>
       replaces[s] \notin Live /\ status[replaces[s]] # "absent"

\* Two executions inside the lock of a document are one.
LEMMA OneInside ==
  ASSUME Locked, NEW s \in Slots, NEW t \in Slots, pc[s] \in Holding,
         pc[t] \in Holding, Doc(s) = Doc(t)
  PROVE  s = t
BY DEF Locked

\* A step inside the lock stays with its document, and one that goes on inside
\* it has just begun or was inside before.
LEMMA WorkStays ==
  ASSUME TypeOK, NEW t \in Slots, Works(t)
  PROVE  /\ job'[t] = job[t] /\ Doc(t)' = Doc(t)
         /\ pc'[t] \in Busy => pc[t] \in Busy \/ Start(t)
<1> USE DEF docVars, pageVars, indexVars, apiVars, slotVars, taskVars,
            sortVars, Goto, Doc, Holding, Busy
<1>t. pc \in [Slots -> Labels]
  BY DEF TypeOK
<1>1. CASE TryLock(t) \/ Start(t) \/ OpenPdf(t) \/ PlanRound(t)
  BY <1>1, <1>t DEF TryLock, Start, OpenPdf, PlanRound
<1>2. CASE PageStep(t) \/ \E p \in PageNos : PageRaises(t, p)
  BY <1>2, <1>t DEF PageStep, QuickPage, ReplaceChunks, MarkFull, PageRaises
<1>3. CASE PoolDrained(t) \/ Supersede(t) \/ Renumber(t) \/ ReadChunks(t)
  BY <1>3, <1>t DEF PoolDrained, Supersede, Renumber, ReadChunks
<1>4. CASE \/ UpsertPoints(t) \/ DeleteOldPoints(t) \/ MarkEmbedded(t)
           \/ Finalize(t)
  BY <1>4, <1>t DEF UpsertPoints, DeleteOldPoints, MarkEmbedded, Finalize
<1> QED BY <1>1, <1>2, <1>3, <1>4 DEF Works

\* Each later stage is entered from the one before, and only a new round gives
\* an execution pages to read.
LEMMA Stages ==
  ASSUME TypeOK, NEW t \in Slots, Works(t)
  PROVE  /\ pc'[t] = "embed" => Renumber(t)
         /\ pc'[t] = "upsert" => ReadChunks(t)
         /\ pc'[t] = "retire" => UpsertPoints(t)
         /\ pc'[t] = "mark" => DeleteOldPoints(t)
         /\ pc'[t] = "finalize" => MarkEmbedded(t)
         /\ PlanRound(t) \/ fullTodo'[t] \subseteq fullTodo[t]
<1> USE DEF docVars, pageVars, indexVars, apiVars, slotVars, taskVars,
            sortVars, Goto
<1>t. pc \in [Slots -> Labels] /\ fullTodo \in [Slots -> SUBSET PageNos]
  BY DEF TypeOK
<1>1. CASE TryLock(t) \/ Start(t) \/ OpenPdf(t) \/ PlanRound(t)
  BY <1>1, <1>t DEF TryLock, Start, OpenPdf, PlanRound
<1>2. CASE PageStep(t) \/ \E p \in PageNos : PageRaises(t, p)
  <2>1. pc'[t] \in Pool
    BY <1>2, <1>t DEF PageStep, QuickPage, ReplaceChunks, MarkFull,
       PageRaises, Pool
  <2>2. ASSUME NEW p \in PageNos,
               \/ QuickPage(t, p) \/ ReplaceChunks(t, p) \/ MarkFull(t, p)
               \/ PageRaises(t, p)
        PROVE  fullTodo'[t] \subseteq fullTodo[t]
    <3>1. CASE QuickPage(t, p) \/ ReplaceChunks(t, p)
      BY <3>1 DEF QuickPage, ReplaceChunks
    <3>2. CASE MarkFull(t, p)
      BY <3>2, <1>t DEF MarkFull
    <3>3. CASE PageRaises(t, p)
      BY <3>3, <1>t DEF PageRaises
    <3> QED BY <2>2, <3>1, <3>2, <3>3
  <2>3. fullTodo'[t] \subseteq fullTodo[t]
    BY <1>2, <2>2 DEF PageStep
  <2> QED BY <2>1, <2>3 DEF Pool
<1>3. CASE PoolDrained(t) \/ Supersede(t) \/ Renumber(t) \/ ReadChunks(t)
  BY <1>3, <1>t DEF PoolDrained, Supersede, Renumber, ReadChunks, ClearTask
<1>4. CASE \/ UpsertPoints(t) \/ DeleteOldPoints(t) \/ MarkEmbedded(t)
           \/ Finalize(t)
  BY <1>4, <1>t DEF UpsertPoints, DeleteOldPoints, MarkEmbedded, Finalize
<1> QED BY <1>1, <1>2, <1>3, <1>4 DEF Works

\* Every action keeps Unfinished: Start says "processing", and nobody else can
\* complete a document that is held.
LEMMA UnfinishedStays ==
  ASSUME TypeOK, [Next]_vars, Locked, Unfinished
  PROVE  Unfinished'
<1> SUFFICES ASSUME NEW t \in Slots, pc'[t] \in Busy
             PROVE  status'[Doc(t)'] # "completed"
  BY DEF Unfinished, Doc
<1>t. /\ Doc(t) \in Docs /\ pc \in [Slots -> Labels]
      /\ status \in [Docs -> Statuses]
  BY DocType DEF TypeOK
<1>1. CASE Start(t)
  BY <1>1, <1>t DEF Start, Goto, Busy, Holding, Doc, slotVars
<1>2. CASE ~Start(t)
  <2>1. Still(t) \/ Works(t)
    BY StepMoves DEF Leaves, Busy, Holding
  <2>2. Doc(t)' = Doc(t) /\ pc[t] \in Busy
    BY <1>2, <2>1, WorkStays DEF Still, Doc
  <2> SUFFICES ASSUME status'[Doc(t)] = "completed" PROVE FALSE
    BY <2>2
  <2>3. PICK s \in Slots : pc[s] = "finalize" /\ Doc(s) = Doc(t) /\ pc'[s] = "unlock"
    BY <1>t, <2>2, StepAffects DEF Affected, Unfinished
  <2>4. s = t
    BY <2>2, <2>3, OneInside DEF Busy, Holding
  <2> QED BY <2>3, <2>4 DEF Busy
<1> QED BY <1>1, <1>2

\* Every action keeps Written.
LEMMA WrittenStays ==
  ASSUME TypeOK, [Next]_vars, Rowed, Written
  PROVE  Written'
<1>1. ASSUME NEW pg \in chunks' PROVE Exists(pg[1])'
  <2>1. pg \in Pages
    BY TypesStay DEF TypeOK
  <2>2. Exists(pg[1])
    BY <1>1, <2>1, StepTouches DEF Touched, Rowed, Written
  <2> QED BY <1>1, <2>1, <2>2, StepTouches DEF Touched
<1>2. ASSUME NEW d \in counted' PROVE Exists(d)'
  <2>1. d \in Docs
    BY TypesStay DEF TypeOK
  <2> QED BY <1>2, <2>1, StepAffects DEF Affected, Written
<1>3. \A pg \in chunks' : Exists(pg[1])'
  BY <1>1
<1>4. \A d \in counted' : Exists(d)'
  BY <1>2
<1> QED BY <1>3, <1>4 DEF Written

\* What a document that is out of the set is after a step.
LEMMA StaysOut ==
  ASSUME TypeOK, [Next]_vars, NEW d \in Docs, d \notin Live,
         status[d] # "absent"
  PROVE  d \notin Live' /\ status'[d] # "absent"
BY StepAffects DEF Affected

\* Every action keeps Replaced: Supersede notes the document it retires.
LEMMA ReplacedStays ==
  ASSUME TypeOK, [Next]_vars, Replaced
  PROVE  Replaced'
<1>t. /\ replaces \in [Slots -> Docs \cup {NoDoc}]
      /\ prev \in [Docs -> Docs \cup {NoDoc}] /\ prev' \in [Docs -> Docs \cup {NoDoc}]
      /\ \A s \in Slots : Doc(s) \in Docs
  BY TypesStay, DocType DEF TypeOK
<1>1. ASSUME NEW d \in Docs, prev'[d] # NoDoc PROVE status'[prev'[d]] # "absent"
  <2>1. prev'[d] \in Docs
    BY <1>t, <1>1
  <2>2. prev'[d] = prev[d] \/ prev'[d] \in Live
    BY <1>1, StepAffects DEF Affected
  <2>3. status[prev'[d]] # "absent"
    BY <1>1, <2>2 DEF Replaced, Live, Exists
  <2> QED BY <2>1, <2>3, StepAffects DEF Affected
<1>2. ASSUME NEW t \in Slots, replaces'[t] = replaces[t], replaces'[t] # NoDoc
      PROVE  replaces'[t] \notin Live' /\ status'[replaces'[t]] # "absent"
  <2>1. /\ replaces[t] \in Docs /\ replaces[t] \notin Live
        /\ status[replaces[t]] # "absent"
    BY <1>2, <1>t DEF Replaced
  <2> QED BY <1>2, <2>1, StaysOut
<1>3. ASSUME NEW t \in Slots, Supersede(t), replaces'[t] # NoDoc
      PROVE  replaces'[t] \notin Live' /\ status'[replaces'[t]] # "absent"
  <2>1. CASE ~Exists(Doc(t))
    BY <1>3, <2>1, <1>t DEF Supersede, ClearTask
  <2>2. CASE Exists(Doc(t))
    <3>1. /\ replaces'[t] = prev[Doc(t)] /\ status' = status
          /\ superseded' = superseded \cup ({prev[Doc(t)]} \ {NoDoc})
      BY <1>3, <2>2, <1>t DEF Supersede
    <3>2. prev[Doc(t)] \in superseded'
      BY <1>3, <3>1
    <3> QED BY <1>3, <3>1, <3>2, <1>t DEF Replaced, Live
  <2> QED BY <2>1, <2>2
<1>4. ASSUME NEW t \in Slots, Works(t), ~Supersede(t)
      PROVE  replaces'[t] \in {replaces[t], NoDoc}
  BY <1>4, <1>t DEF Works, TryLock, Start, OpenPdf, PlanRound, PageStep,
     QuickPage, ReplaceChunks, MarkFull, PageRaises, PoolDrained, Renumber,
     ReadChunks, UpsertPoints, DeleteOldPoints, MarkEmbedded, Finalize,
     ClearTask, taskVars
<1>5. ASSUME NEW t \in Slots, replaces'[t] # NoDoc
      PROVE  replaces'[t] \notin Live' /\ status'[replaces'[t]] # "absent"
  <2>1. replaces'[t] \in {replaces[t], NoDoc} \/ Supersede(t)
    BY <1>4, StepMoves DEF Still, Leaves
  <2> QED BY <1>2, <1>3, <1>5, <2>1
<1> QED BY <1>1, <1>5 DEF Replaced

-----------------------------------------------------------------------------
(* Chat finds what was read.                                               *)

\* What is marked embedded in a document of the combined set has its chunk and
\* its point, and so has what an execution is about to mark.
Stored(t) == Doc(t) \in Live /\ pc[t] \in {"retire", "mark"} =>
               \A p \in toEmbed[t] : <<Doc(t), p>> \in points
Pointed ==
  /\ embedded \subseteq chunks
  /\ \A pg \in embedded : pg[1] \in Live => pg \in points
  /\ \A t \in Slots : Stored(t)

\* A page that is read is embedded or about to be: from the moment the chunks
\* are read until the document is completed, and after it.
FullIn(d, set) == \A p \in PageNos : <<d, p>> \in full => <<d, p>> \in set
Indexed(t) ==
  Doc(t) \in Live =>
    /\ pc[t] \in {"upsert", "retire", "mark"} =>
         FullIn(Doc(t), embedded \cup {<<Doc(t), p>> : p \in toEmbed[t]})
    /\ pc[t] = "finalize" => FullIn(Doc(t), embedded)
    /\ \A p \in fullTodo[t] : <<Doc(t), p>> \notin full
Searchable ==
  /\ \A t \in Slots : Indexed(t)
  /\ \A d \in Live : status[d] = "completed" => FullIn(d, embedded)

\* A point of a live document stays: what a revision deletes is the document
\* it has replaced.
LEMMA PointsStay ==
  ASSUME TypeOK, [Next]_vars, Replaced, NEW pg \in points, pg[1] \in Live
  PROVE  pg \in points'
<1> SUFFICES ASSUME pg \notin points' PROVE FALSE
  OBVIOUS
<1>1. pg \in Pages /\ pg[1] \in Docs
  BY DEF TypeOK, Pages
<1>2. PICK s \in Slots : pc[s] = "retire" /\ replaces[s] = pg[1]
  BY <1>1, StepTouches DEF Touched, Live, Exists
<1>3. pg[1] # NoDoc
  BY <1>1, NoDocNotDoc
<1> QED BY <1>2, <1>3 DEF Replaced

\* Every action keeps Pointed.
LEMMA PointedStays ==
  ASSUME TypeOK, [Next]_vars, Known, Written, Replaced, Pointed
  PROVE  Pointed'
<1>t. /\ \A s \in Slots : Doc(s) \in Docs
      /\ toEmbed \in [Slots -> SUBSET PageNos] /\ pc \in [Slots -> Labels]
      /\ embedded' \subseteq Pages /\ chunks \subseteq Pages
      /\ \A s \in Slots : toEmbed'[s] \subseteq PageNos /\ Doc(s)' \in Docs
  <2>1. TypeOK'
    BY TypesStay
  <2>2. \A s \in Slots : job'[s][1] \in Docs
    BY <2>1 DEF TypeOK, JobIds
  <2> QED BY <2>1, <2>2, DocType DEF TypeOK, Doc
<1>1. embedded' \subseteq chunks'
  BY <1>t, StepTouches DEF Touched, Pointed
<1>2. ASSUME NEW pg \in embedded', pg[1] \in Live' PROVE pg \in points'
  <2>1. pg \in Pages /\ pg[1] \in Docs
    BY <1>t DEF Pages
  <2>2. pg \in chunks
    BY <2>1, StepTouches DEF Touched, Pointed
  <2>3. pg[1] \in Live
    BY <1>2, <2>1, <2>2, StepAffects DEF Affected, Written, Exists
  <2>4. pg \in points
    <3>1. CASE pg \in embedded
      BY <2>3, <3>1 DEF Pointed
    <3>2. CASE pg \notin embedded
      <4>1. PICK s \in Slots : /\ pc[s] = "mark" /\ Doc(s) = pg[1]
                               /\ pg[2] \in toEmbed[s]
        BY <2>1, <3>2, StepTouches DEF Touched
      <4>2. pg = <<Doc(s), pg[2]>>
        BY <2>1, <4>1 DEF Pages
      <4>3. <<Doc(s), pg[2]>> \in points
        BY <2>3, <4>1 DEF Pointed, Stored
      <4> QED BY <4>2, <4>3
    <3> QED BY <3>1, <3>2
  <2> QED BY <2>3, <2>4, PointsStay
<1>3. ASSUME NEW t \in Slots PROVE Stored(t)'
  <2> SUFFICES ASSUME Doc(t)' \in Live', pc'[t] \in {"retire", "mark"},
                      NEW p \in toEmbed'[t]
               PROVE  <<Doc(t)', p>> \in points'
    BY DEF Stored
  <2>1. Doc(t)' = Doc(t) /\ (Still(t) \/ Works(t))
    BY StepMoves, WorkStays DEF Still, Leaves, Doc
  <2>2. CASE UpsertPoints(t)
    BY <2>1, <2>2 DEF UpsertPoints, taskVars, indexVars
  <2>3. CASE Still(t) \/ DeleteOldPoints(t)
    <3>1. toEmbed'[t] = toEmbed[t] /\ pc[t] \in {"retire", "mark"}
      BY <2>3 DEF Still, DeleteOldPoints, taskVars
    <3>2. Doc(t) \in Live
      BY <1>t, <2>1, <3>1, StepAffects DEF Affected, Known
    <3>3. <<Doc(t), p>> \in points
      BY <3>1, <3>2 DEF Pointed, Stored
    <3> QED BY <2>1, <3>2, <3>3, PointsStay
  <2> QED BY <2>1, <2>2, <2>3, Stages
<1> QED BY <1>1, <1>2, <1>3 DEF Pointed

\* A full page has a picture.
FullIsPictured == full \subseteq pictured

\* Every action keeps it.
LEMMA FullIsPicturedStays ==
  ASSUME TypeOK, [Next]_vars, FullIsPictured
  PROVE  FullIsPictured'
<1>1. full' \subseteq Pages
  BY TypesStay DEF TypeOK
<1> QED BY <1>1, StepTouches DEF Touched, FullIsPictured

\* A page of a document that no page pool has in hand is not read by this
\* step, and stays embedded.
LEMMA OutOfHand ==
  ASSUME TypeOK, [Next]_vars, "reembed" \notin Requests, NEW d \in Docs,
         d \in Live', \A s \in Slots : pc[s] \in Pool => Doc(s) # d,
         NEW p \in PageNos
  PROVE  /\ <<d, p>> \in full' => <<d, p>> \in full
         /\ <<d, p>> \in embedded => <<d, p>> \in embedded'
BY PageType, StepTouches DEF Touched, Live

\* Every action keeps Searchable: ReadChunks takes all that is not embedded,
\* and nobody reads or forgets a page of the document until it is completed.
LEMMA SearchableStays ==
  ASSUME TypeOK, [Next]_vars, "reembed" \notin Requests, Known, Locked, Tidy,
         Unfinished, FullPagesHaveChunks, FullIsPictured, Searchable
  PROVE  Searchable'
<1>t. /\ \A s \in Slots : Doc(s) \in Docs
      /\ pc \in [Slots -> Labels] /\ toEmbed \in [Slots -> SUBSET PageNos]
      /\ fullTodo \in [Slots -> SUBSET PageNos]
  BY DocType DEF TypeOK
<1>l. ASSUME NEW t \in Slots, pc[t] \in Holding \ Pool, Doc(t) \in Live',
             NEW p \in PageNos
      PROVE  /\ <<Doc(t), p>> \in full' => <<Doc(t), p>> \in full
             /\ <<Doc(t), p>> \in embedded => <<Doc(t), p>> \in embedded'
  <2>1. \A s \in Slots : pc[s] \in Pool => Doc(s) # Doc(t)
    BY <1>l, OneInside DEF Holding, Pool
  <2> QED BY <1>l, <1>t, <2>1, OutOfHand
<1>1. ASSUME NEW d \in Live', status'[d] = "completed"
      PROVE  FullIn(d, embedded)'
  <2>1. d \in Docs /\ d \in Live
    BY <1>1, StepAffects DEF Affected, Live
  <2>2. CASE status[d] = "completed"
    <3>1. \A s \in Slots : pc[s] \in Pool => Doc(s) # d
      BY <2>2 DEF Unfinished, Busy, Holding, Pool
    <3>2. FullIn(d, embedded)
      BY <2>1, <2>2 DEF Searchable
    <3> QED BY <1>1, <2>1, <3>1, <3>2, OutOfHand DEF FullIn
  <2>3. CASE status[d] # "completed"
    <3>1. PICK s \in Slots : pc[s] = "finalize" /\ Doc(s) = d
      BY <1>1, <2>1, <2>3, StepAffects DEF Affected
    <3>2. FullIn(d, embedded)
      BY <2>1, <3>1 DEF Searchable, Indexed
    <3>3. pc[s] \in Holding \ Pool
      BY <3>1 DEF Holding, Pool
    <3> QED BY <1>1, <1>l, <3>1, <3>2, <3>3 DEF FullIn
  <2> QED BY <2>2, <2>3
<1>2. ASSUME NEW t \in Slots, Doc(t)' \in Live' PROVE Indexed(t)'
  <2>1. CASE Leaves(t)
    <3>1. Tidy'
      BY TidyStays
    <3>2. fullTodo'[t] = {}
      BY <2>1, <3>1 DEF Tidy, Leaves
    <3> QED BY <2>1, <3>2 DEF Indexed, Leaves
  <2>2. CASE Still(t) \/ Works(t)
    <3>1. Doc(t)' = Doc(t)
      BY <2>2, WorkStays DEF Still, Doc
    <3>2. pc[t] # "idle" => Doc(t) \in Live
      BY <1>2, <1>t, <3>1, StepAffects DEF Affected, Known
    <3>3. ASSUME pc'[t] \in {"upsert", "retire", "mark"}
          PROVE  FullIn(Doc(t), embedded \cup {<<Doc(t), p>> : p \in toEmbed[t]})'
      <4>1. CASE ReadChunks(t)
        <5>1. full' = full /\ embedded' = embedded /\ full \subseteq chunks
          BY <4>1 DEF ReadChunks, pageVars, indexVars, FullPagesHaveChunks
        <5>2. toEmbed'[t] = {p \in PageNos : <<Doc(t), p>> \in chunks \ embedded}
          BY <3>3, <4>1, <1>t DEF ReadChunks, Goto
        <5> QED BY <3>1, <5>1, <5>2 DEF FullIn
      <4>2. CASE Still(t) \/ UpsertPoints(t) \/ DeleteOldPoints(t)
        <5>1. toEmbed'[t] = toEmbed[t] /\ pc[t] \in {"upsert", "retire", "mark"}
          BY <3>3, <4>2 DEF Still, UpsertPoints, DeleteOldPoints, taskVars
        <5>2. FullIn(Doc(t), embedded \cup {<<Doc(t), p>> : p \in toEmbed[t]})
          BY <3>2, <5>1 DEF Searchable, Indexed
        <5>3. pc[t] \in Holding \ Pool
          BY <5>1 DEF Holding, Pool
        <5> QED BY <1>2, <1>l, <3>1, <5>1, <5>2, <5>3 DEF FullIn
      <4> QED BY <2>2, <3>3, <4>1, <4>2, Stages
    <3>4. ASSUME pc'[t] = "finalize" PROVE FullIn(Doc(t), embedded)'
      <4>1. CASE MarkEmbedded(t)
        <5>1. /\ full' = full /\ full \subseteq chunks /\ pc[t] = "mark"
              /\ embedded' = embedded \cup {pg \in chunks : pg[1] = Doc(t)
                                                  /\ pg[2] \in toEmbed[t]}
          BY <4>1 DEF MarkEmbedded, pageVars, FullPagesHaveChunks
        <5>2. FullIn(Doc(t), embedded \cup {<<Doc(t), p>> : p \in toEmbed[t]})
          BY <3>2, <5>1 DEF Searchable, Indexed
        <5> QED BY <3>1, <5>1, <5>2 DEF FullIn
      <4>2. CASE Still(t)
        <5>1. pc[t] = "finalize" /\ pc[t] \in Holding \ Pool
          BY <3>4, <4>2 DEF Still, Holding, Pool
        <5>2. FullIn(Doc(t), embedded)
          BY <3>2, <5>1 DEF Searchable, Indexed
        <5> QED BY <1>2, <1>l, <3>1, <5>1, <5>2 DEF FullIn
      <4> QED BY <2>2, <3>4, <4>1, <4>2, Stages
    <3>5. ASSUME NEW p \in fullTodo'[t] PROVE <<Doc(t), p>> \notin full'
      <4>1. CASE PlanRound(t)
        <5>1. full' = full /\ pc[t] = "modes"
          BY <4>1 DEF PlanRound, pageVars
        <5>2. p \in fullTodo[t] \/ p \in FullModes(Doc(t))
          BY <3>5, <4>1, <1>t DEF PlanRound
        <5>3. CASE p \in fullTodo[t]
          BY <3>2, <5>1, <5>3 DEF Searchable, Indexed
        <5>4. CASE p \in FullModes(Doc(t))
          BY <5>1, <5>4 DEF FullModes, IsDue, FullIsPictured
        <5> QED BY <5>2, <5>3, <5>4
      <4>2. CASE fullTodo'[t] \subseteq fullTodo[t]
        <5>1. p \in fullTodo[t] /\ p \in PageNos
          BY <3>5, <4>2, <1>t
        <5>2. pc[t] \in Pool
          BY <5>1 DEF Tidy, Pool
        <5>3. <<Doc(t), p>> \notin full
          BY <3>2, <5>1, <5>2 DEF Searchable, Indexed, Pool
        <5> SUFFICES ASSUME <<Doc(t), p>> \in full' PROVE FALSE
          OBVIOUS
        <5>4. PICK s \in Slots : /\ pc[s] \in Pool /\ Doc(s) = Doc(t)
                                 /\ p \notin fullTodo'[s]
          BY <1>t, <5>1, <5>3, PageType, StepTouches DEF Touched
        <5>5. s = t
          BY <5>2, <5>4, OneInside DEF Pool, Holding
        <5> QED BY <3>5, <5>4, <5>5
      <4> QED BY <2>2, <4>1, <4>2, Stages DEF Still
    <3> QED BY <3>1, <3>3, <3>4, <3>5 DEF Indexed
  <2> QED BY <2>1, <2>2, StepMoves
<1>3. \A t \in Slots : Indexed(t)'
  BY <1>2 DEF Indexed
<1>4. \A d \in Live' : status'[d] = "completed" => FullIn(d, embedded)'
  BY <1>1
<1> QED BY <1>3, <1>4 DEF Searchable

-----------------------------------------------------------------------------
(* Every page was read.                                                    *)

\* In a project that reads everything: a page half done has its row, so that
\* marking it counts, ...
HalfShown ==
  \A s \in Slots : \A p \in halfDone[s] :
    Exists(Doc(s)) => <<Doc(s), p>> \in pictured

\* ... and how much of a document is read at each stage.
AllRead(d) == \A p \in PageNos : <<d, p>> \in full
ReadSoFar(s) ==
  Exists(Doc(s)) =>
    /\ pc[s] = "extract" => \A p \in PageNos : \/ <<Doc(s), p>> \in full
                                               \/ p \in fullTodo[s]
    /\ pc[s] = "modes" /\ round[s] # 0 => AllRead(Doc(s))
    /\ pc[s] \in After => AllRead(Doc(s))
CompletedIsRead ==
  /\ \A s \in Slots : ReadSoFar(s)
  /\ \A d \in Docs : status[d] = "completed" => AllRead(d)

\* A document that is there after a step and was created was there before it,
\* and has lost no page.
LEMMA StillThere ==
  ASSUME TypeOK, [Next]_vars, NEW d \in Docs, status[d] # "absent", Exists(d)'
  PROVE  /\ Exists(d) /\ (AllRead(d) => AllRead(d)')
         /\ \A p \in PageNos : /\ <<d, p>> \in pictured => <<d, p>> \in pictured'
                               /\ <<d, p>> \in full => <<d, p>> \in full'
BY NothingTaken DEF Kept, AllRead

\* Every action keeps HalfShown.
LEMMA HalfShownStays ==
  ASSUME TypeOK, [Next]_vars, Known, Tidy, HalfShown
  PROVE  HalfShown'
<1>t. /\ \A s \in Slots : Doc(s) \in Docs
      /\ halfDone \in [Slots -> SUBSET PageNos]
      /\ pc \in [Slots -> Labels]
  BY DocType DEF TypeOK
<1> SUFFICES ASSUME NEW t \in Slots, NEW p \in halfDone'[t], Exists(Doc(t))'
             PROVE  <<Doc(t)', p>> \in pictured'
  BY DEF HalfShown
<1>1. pc'[t] \in Pool
  <2>1. Tidy'
    BY TidyStays
  <2> QED BY <2>1 DEF Tidy, Pool
<1>2. Doc(t)' = Doc(t) /\ (Still(t) \/ Works(t))
  BY <1>1, StepMoves, WorkStays DEF Still, Leaves, Doc, Pool
<1>3. p \in halfDone[t] \/ (p \in PageNos /\ ReplaceChunks(t, p))
  <2>1. CASE Still(t)
    BY <2>1 DEF Still
  <2>2. ASSUME NEW q \in PageNos, ReplaceChunks(t, q)
        PROVE  p \in halfDone[t] \/ (p \in PageNos /\ ReplaceChunks(t, p))
    <3>1. p \in halfDone[t] \/ p = q
      BY <2>2, <1>t DEF ReplaceChunks
    <3> QED BY <2>2, <3>1
  <2>3. ASSUME NEW q \in PageNos, \/ QuickPage(t, q) \/ MarkFull(t, q)
                                  \/ PageRaises(t, q)
        PROVE  p \in halfDone[t]
    BY <2>3, <1>t DEF QuickPage, MarkFull, PageRaises
  <2>4. CASE PlanRound(t)
    BY <2>4 DEF PlanRound
  <2>5. CASE Works(t) /\ ~PlanRound(t) /\ ~PageStep(t)
             /\ ~\E q \in PageNos : PageRaises(t, q)
    BY <1>1, <2>5, <1>t DEF Works, TryLock, Start, OpenPdf, PoolDrained,
       Supersede, Renumber, ReadChunks, UpsertPoints, DeleteOldPoints,
       MarkEmbedded, Finalize, Goto, slotVars, Pool
  <2> QED BY <1>2, <2>1, <2>2, <2>3, <2>4, <2>5 DEF PageStep
<1>4. CASE p \in halfDone[t]
  <2>1. status[Doc(t)] # "absent" /\ p \in PageNos
    BY <1>4, <1>t DEF Tidy, Known
  <2>2. Exists(Doc(t)) /\ <<Doc(t), p>> \in pictured
    BY <1>2, <1>4, <1>t, <2>1, StillThere DEF HalfShown, Exists
  <2> QED BY <1>2, <1>t, <2>1, <2>2, StillThere DEF Exists
<1>5. CASE ReplaceChunks(t, p) /\ p \in PageNos
  BY <1>2, <1>5 DEF ReplaceChunks, pageVars
<1> QED BY <1>3, <1>4, <1>5

\* A document without work, in a project that reads everything, is read.
LEMMA NothingDue ==
  ASSUME ProcessAll, NEW d \in Docs, NoModes(d)
  PROVE  AllRead(d)
BY DEF NoModes, FullModes, IsDue, AllRead

\* Every action keeps CompletedIsRead: a round plans all that is unread, and
\* the pool drains without an exception only when all of it is marked.
LEMMA CompletedIsReadStays ==
  ASSUME TypeOK, [Next]_vars, ProcessAll, Known, Tidy, HalfShown,
         CompletedIsRead
  PROVE  CompletedIsRead'
<1> USE DEF docVars, pageVars, indexVars, apiVars, slotVars, taskVars,
            sortVars, Goto
<1>t. /\ \A s \in Slots : Doc(s) \in Docs
      /\ pc \in [Slots -> Labels] /\ round \in [Slots -> Nat]
      /\ fullTodo \in [Slots -> SUBSET PageNos]
      /\ halfDone \in [Slots -> SUBSET PageNos]
      /\ status \in [Docs -> Statuses]
  BY DocType DEF TypeOK
<1>1. ASSUME NEW t \in Slots PROVE ReadSoFar(t)'
  <2> SUFFICES ASSUME Exists(Doc(t))', pc'[t] \in After \cup {"extract", "modes"}
               PROVE  ReadSoFar(t)'
    BY DEF ReadSoFar
  <2>d. PICK d \in Docs : d = Doc(t)
    BY <1>t
  <2>1. Doc(t)' = d /\ (Still(t) \/ Works(t))
    BY <2>d, StepMoves, WorkStays DEF Still, Leaves, Doc, After
  <2>2. status[d] # "absent"
    <3>1. pc[t] # "idle"
      BY <2>1 DEF Still, After, Works, TryLock, Start, OpenPdf, PlanRound,
         PageStep, QuickPage, ReplaceChunks, MarkFull, PageRaises, PoolDrained,
         Supersede, Renumber, ReadChunks, UpsertPoints, DeleteOldPoints,
         MarkEmbedded, Finalize
    <3> QED BY <2>d, <3>1 DEF Known
  <2>3. Exists(d)'
    BY <2>1 DEF Exists
  <2>4. /\ d \in Docs /\ Exists(d) /\ (AllRead(d) => AllRead(d)')
        /\ \A p \in PageNos : <<d, p>> \in full => <<d, p>> \in full'
    BY <2>2, <2>3, StillThere
  <2>5. ReadSoFar(t)
    BY DEF CompletedIsRead
  <2>a. ASSUME AllRead(d)' PROVE ReadSoFar(t)'
    BY <2>1, <2>a DEF ReadSoFar, AllRead
  <2>6. CASE Still(t)
    BY <2>d, <2>1, <2>4, <2>5, <2>6 DEF Still, ReadSoFar
  <2>7. CASE Start(t)
    <3>1. pc'[t] = "supersede" /\ NoModes(d)
      BY <2>d, <1>t, <2>7 DEF Start, After
    <3> QED BY <2>4, <2>a, <3>1, NothingDue
  <2>8. CASE OpenPdf(t)
    BY <1>t, <2>8 DEF OpenPdf, Tidy, ReadSoFar, After
  <2>9. CASE PlanRound(t)
    <3>1. CASE NoModes(d)
      BY <2>4, <2>a, <3>1, NothingDue
    <3>2. CASE round[t] = 3
      BY <2>d, <2>4, <2>5, <2>9, <2>a, <3>2 DEF PlanRound, ReadSoFar
    <3>3. CASE ~NoModes(d) /\ round[t] # 3
      <4>1. /\ pc'[t] = "extract" /\ fullTodo'[t] = FullModes(d)
            /\ full' = full
        BY <2>d, <1>t, <2>9, <3>3 DEF PlanRound
      <4>2. \A p \in PageNos : <<d, p>> \in full \/ p \in FullModes(d)
        BY DEF FullModes, IsDue
      <4> QED BY <2>1, <4>1, <4>2 DEF ReadSoFar, After
    <3> QED BY <3>1, <3>2, <3>3
  <2>10. ASSUME NEW p \in PageNos, QuickPage(t, p) \/ ReplaceChunks(t, p)
         PROVE  ReadSoFar(t)'
    BY <2>d, <2>1, <2>4, <2>5, <2>10 DEF QuickPage, ReplaceChunks, ReadSoFar, After
  <2>11. ASSUME NEW p \in PageNos, MarkFull(t, p) PROVE ReadSoFar(t)'
    <3>1. <<d, p>> \in full'
      BY <2>d, <2>4, <2>11 DEF MarkFull, HalfShown
    <3>2. pc'[t] = "extract" /\ pc[t] = "extract"
          /\ fullTodo'[t] = fullTodo[t] \ {p}
      BY <1>t, <2>11 DEF MarkFull, After
    <3>3. \A q \in PageNos : <<d, q>> \in full \/ q \in fullTodo[t]
      BY <2>d, <2>4, <2>5, <3>2 DEF ReadSoFar
    <3>4. \A q \in PageNos : <<d, q>> \in full' \/ q \in fullTodo'[t]
      BY <2>4, <3>1, <3>2, <3>3
    <3> QED BY <2>1, <3>2, <3>4 DEF ReadSoFar, After
  <2>12. ASSUME NEW p \in PageNos, PageRaises(t, p) PROVE ReadSoFar(t)'
    BY <1>t, <2>12 DEF PageRaises, After
  <2>13. CASE PoolDrained(t)
    <3>1. pc[t] = "extract" /\ fullTodo[t] = {}
      BY <1>t, <2>13 DEF PoolDrained, After
    <3> QED BY <2>d, <2>4, <2>5, <2>a, <3>1 DEF ReadSoFar, AllRead
  <2>14. CASE \/ Supersede(t) \/ Renumber(t) \/ ReadChunks(t)
              \/ UpsertPoints(t) \/ DeleteOldPoints(t) \/ MarkEmbedded(t)
    <3>1. pc[t] \in After
      BY <2>14 DEF Supersede, Renumber, ReadChunks, UpsertPoints,
         DeleteOldPoints, MarkEmbedded, After
    <3> QED BY <2>d, <2>4, <2>5, <2>a, <3>1 DEF ReadSoFar
  <2>15. CASE TryLock(t) \/ Finalize(t)
    BY <1>t, <2>15 DEF TryLock, Finalize, After
  <2> QED BY <2>1, <2>6, <2>7, <2>8, <2>9, <2>10, <2>11, <2>12, <2>13, <2>14,
             <2>15 DEF Works, PageStep
<1>2. ASSUME NEW d \in Docs, status'[d] = "completed" PROVE AllRead(d)'
  <2>1. Exists(d)' /\ status[d] # "absent"
    BY <1>2, StepAffects DEF Affected, Exists
  <2>2. CASE status[d] = "completed"
    BY <2>1, <2>2, StillThere DEF CompletedIsRead
  <2>3. CASE status[d] # "completed"
    <3>1. PICK s \in Slots : pc[s] = "finalize" /\ Doc(s) = d
      BY <1>2, <2>3, StepAffects DEF Affected
    <3>2. Exists(d)
      BY <2>1, StillThere
    <3> QED BY <2>1, <3>1, <3>2, StillThere DEF CompletedIsRead, ReadSoFar,
               After
  <2> QED BY <2>2, <2>3
<1>3. \A s \in Slots : ReadSoFar(s)'
  BY <1>1 DEF ReadSoFar
<1>4. \A d \in Docs : status'[d] = "completed" => AllRead(d)'
  BY <1>2
<1> QED BY <1>3, <1>4 DEF CompletedIsRead

-----------------------------------------------------------------------------
(* The combined numbers.                                                   *)

\* Either every number is the manifest's, or some document will renumber before
\* it can be completed.
Numbered == \A pg \in pictured : pg[1] \in Live => combined[pg] = Manifest(pg, Live)
Indexing == {"embed", "upsert", "retire", "mark", "finalize"}
WillRenumber(d) ==
  /\ d \in counted /\ Exists(d) /\ status[d] # "completed"
  /\ \A s \in Slots : Doc(s) = d => pc[s] \notin Indexing
NumberedOrPending == Numbered \/ \E d \in Docs : WillRenumber(d)

\* The steps that change a page's stored number or the manifest's.
Renumbers ==
  \/ \E d \in Docs, p \in Docs \cup {NoDoc} : InitiateUpload(d, p)
  \/ \E d \in Docs : DeleteRow(d)
  \/ \E s \in Slots : \/ OpenPdf(s) \/ Supersede(s) \/ Renumber(s)
                      \/ \E p \in PageNos : QuickPage(s, p)
NumbersAlone == /\ UNCHANGED <<counted, superseded, pictured, combined>>
                /\ \A d \in Docs : Exists(d)' <=> Exists(d)

\* Every other step leaves them alone.
LEMMA OthersLeaveNumbers ==
  ASSUME TypeOK, [Next]_vars
  PROVE  Renumbers \/ NumbersAlone
<1> USE DEF docVars, pageVars, indexVars, apiVars, slotVars, taskVars,
            sortVars, Goto
<1> USE DEF Exists
<1>t. /\ status \in [Docs -> Statuses]
      /\ \A s \in Slots : Doc(s) \in Docs
  BY DocType DEF TypeOK
<1> DEFINE Goal == Renumbers \/ NumbersAlone
<1>1. ASSUME NEW d \in Docs, NEW p \in Docs \cup {NoDoc}, InitiateUpload(d, p)
      PROVE  Goal
  BY <1>1 DEF Renumbers
<1>2. ASSUME NEW d \in Docs, CompleteUpload(d) PROVE Goal
  BY <1>2, <1>t DEF CompleteUpload, NumbersAlone
<1>3. ASSUME NEW d \in Docs, Reprocess(d) PROVE Goal
  BY <1>3, <1>t DEF Reprocess, NumbersAlone, Live
<1>4. ASSUME NEW reembed \in BOOLEAN, Reindex(reembed) PROVE Goal
  BY <1>4, <1>t DEF Reindex, NumbersAlone
<1>5. ASSUME NEW d \in Docs, ReindexOne(d) PROVE Goal
  BY <1>5, <1>t DEF ReindexOne, NumbersAlone
<1>6. ASSUME NEW k \in Kinds, ChooseDisciplines(k) PROVE Goal
  BY <1>6, <1>t DEF ChooseDisciplines, NumbersAlone
<1>7. ASSUME NEW d \in Docs, DeleteRow(d) PROVE Goal
  BY <1>7 DEF Renumbers
<1>8. ASSUME NEW d \in Docs, CleanUpDeleted(d) PROVE Goal
  BY <1>8, <1>t DEF CleanUpDeleted, NumbersAlone
<1>9. CASE ReadTitleBlocks
  BY <1>9, <1>t DEF ReadTitleBlocks, NumbersAlone
<1>10. CASE ListenForSortedPages
  BY <1>10, <1>t DEF ListenForSortedPages, NumbersAlone
<1>11. ASSUME NEW s \in Slots, NEW id \in JobIds, TakeJob(s, id) PROVE Goal
  BY <1>11, <1>t DEF TakeJob, NumbersAlone
<1>12. ASSUME NEW id \in JobIds, StallJob(id) PROVE Goal
  BY <1>12, <1>t DEF StallJob, NumbersAlone
<1>13. ASSUME NEW s \in Slots, Crash(s) PROVE Goal
  BY <1>13, <1>t DEF Crash, NumbersAlone
<1>14. ASSUME NEW s \in Slots, TryLock(s) PROVE Goal
  BY <1>14, <1>t DEF TryLock, NumbersAlone
<1>15. ASSUME NEW s \in Slots, Start(s) PROVE Goal
  BY <1>15, <1>t DEF Start, NumbersAlone
<1>16. ASSUME NEW s \in Slots, OpenPdf(s) PROVE Goal
  BY <1>16 DEF Renumbers
<1>17. ASSUME NEW s \in Slots, PlanRound(s) PROVE Goal
  BY <1>17, <1>t DEF PlanRound, NumbersAlone
<1>18. ASSUME NEW s \in Slots, NEW p \in PageNos, QuickPage(s, p) PROVE Goal
  BY <1>18 DEF Renumbers
<1>19. ASSUME NEW s \in Slots, NEW p \in PageNos, ReplaceChunks(s, p)
      PROVE  Goal
  BY <1>19, <1>t DEF ReplaceChunks, NumbersAlone
<1>20. ASSUME NEW s \in Slots, NEW p \in PageNos, MarkFull(s, p) PROVE Goal
  BY <1>20, <1>t DEF MarkFull, NumbersAlone
<1>21. ASSUME NEW s \in Slots, NEW p \in PageNos, PageRaises(s, p) PROVE Goal
  BY <1>21, <1>t DEF PageRaises, NumbersAlone
<1>22. ASSUME NEW s \in Slots, PoolDrained(s) PROVE Goal
  BY <1>22, <1>t DEF PoolDrained, NumbersAlone
<1>23. ASSUME NEW s \in Slots, Supersede(s) PROVE Goal
  BY <1>23 DEF Renumbers
<1>24. ASSUME NEW s \in Slots, Renumber(s) PROVE Goal
  BY <1>24 DEF Renumbers
<1>25. ASSUME NEW s \in Slots, ReadChunks(s) PROVE Goal
  BY <1>25, <1>t DEF ReadChunks, NumbersAlone
<1>26. ASSUME NEW s \in Slots, UpsertPoints(s) PROVE Goal
  BY <1>26, <1>t DEF UpsertPoints, NumbersAlone
<1>27. ASSUME NEW s \in Slots, DeleteOldPoints(s) PROVE Goal
  BY <1>27, <1>t DEF DeleteOldPoints, NumbersAlone
<1>28. ASSUME NEW s \in Slots, MarkEmbedded(s) PROVE Goal
  BY <1>28, <1>t DEF MarkEmbedded, NumbersAlone
<1>29. ASSUME NEW s \in Slots, Finalize(s) PROVE Goal
  BY <1>29, <1>t DEF Finalize, NumbersAlone
<1>30. ASSUME NEW s \in Slots, Unlock(s) PROVE Goal
  BY <1>30, <1>t DEF Unlock, NumbersAlone
<1>31. ASSUME NEW s \in Slots, Notify(s) PROVE Goal
  BY <1>31, <1>t DEF Notify, NumbersAlone
<1>32. ASSUME NEW s \in Slots, CompleteJob(s) PROVE Goal
  BY <1>32, <1>t DEF CompleteJob, NumbersAlone
<1>33. ASSUME NEW s \in Slots, Raise(s) PROVE Goal
  BY <1>33, <1>t DEF Raise, NumbersAlone
<1>34. ASSUME NEW s \in Slots, HandleFailure(s) PROVE Goal
  BY <1>34, <1>t DEF HandleFailure, NumbersAlone
<1>35. CASE UNCHANGED vars
  BY <1>35, <1>t DEF vars, NumbersAlone
<1> QED
  BY <1>1, <1>2, <1>3, <1>4, <1>5, <1>6, <1>7, <1>8, <1>9, <1>10, <1>11,
     <1>12, <1>13, <1>14, <1>15, <1>16, <1>17, <1>18, <1>19, <1>20, <1>21,
     <1>22, <1>23, <1>24, <1>25, <1>26, <1>27, <1>28, <1>29, <1>30, <1>31,
     <1>32, <1>33, <1>34, <1>35 DEF Next, ApiStep, WorkStep, PageStep,
     FaultStep

\* The manifest depends on the documents of the set and on which are counted.
LEMMA ManifestSame ==
  ASSUME counted' = counted, Live' \cap counted = Live \cap counted, NEW pg
  PROVE  Manifest(pg, Live)' = Manifest(pg, Live)
BY DEF Manifest, OffsetOf

\* A step that leaves numbers and manifest alone keeps Numbered.
LEMMA NumberedAlone ==
  ASSUME NumbersAlone, Numbered
  PROVE  Numbered'
<1>1. Live' = Live
  BY DEF NumbersAlone, Live
<1> QED BY <1>1, ManifestSame DEF NumbersAlone, Numbered

\* An execution that holds its document and has not renumbered yet leaves it
\* waiting for that.
LEMMA HolderWillRenumber ==
  ASSUME TypeOK, [Next]_vars, Locked, Unfinished, NEW t \in Slots,
         pc[t] \in Busy, Doc(t)' = Doc(t), pc'[t] \in Busy \ Indexing,
         Doc(t) \in counted', Exists(Doc(t))'
  PROVE  \E d \in Docs : WillRenumber(d)'
<1>1. PICK d \in Docs : d = Doc(t)
  BY DocType DEF TypeOK
<1>2. d \in counted' /\ Exists(d)'
  BY <1>1 DEF Exists
<1>3. status'[d] # "completed"
  BY <1>1, UnfinishedStays DEF Unfinished
<1>4. ASSUME NEW s \in Slots, Doc(s)' = d PROVE pc'[s] \notin Indexing
  <2> SUFFICES ASSUME pc'[s] \in Indexing PROVE FALSE
    OBVIOUS
  <2>1. Locked'
    BY LockedStays
  <2>2. s = t
    BY <1>1, <1>4, <2>1 DEF Locked, Busy, Holding, Indexing
  <2> QED BY <2>2
<1> QED BY <1>2, <1>3, <1>4 DEF WillRenumber

\* While nobody deletes, every action keeps NumberedOrPending.
LEMMA NumberedStays ==
  ASSUME TypeOK, [Next]_vars, "delete" \notin Requests, Known, Locked, Rowed,
         Written, Progressed, Unfinished, NumberedOrPending
  PROVE  NumberedOrPending'
<1> USE DEF docVars, pageVars, indexVars, apiVars, slotVars, taskVars,
            sortVars, Goto
<1>t. /\ \A s \in Slots : Doc(s) \in Docs
      /\ pc \in [Slots -> Labels] /\ status \in [Docs -> Statuses]
      /\ pictured \subseteq Pages /\ counted \subseteq Docs
      /\ combined \in [Pages -> Nat]
  BY DocType DEF TypeOK
<1>1. CASE \E s \in Slots : Renumber(s)
  <2>1. /\ pictured' = pictured /\ Live' = Live /\ counted' = counted
        /\ \A pg \in pictured : pg[1] \in Live => combined'[pg] = Manifest(pg, Live)
    BY <1>1, <1>t DEF Renumber, Live, Exists
  <2>2. Numbered'
    BY <2>1, ManifestSame DEF Numbered
  <2> QED BY <2>2 DEF NumberedOrPending
<1>2. ASSUME NEW d \in Docs, WillRenumber(d), ~\E s \in Slots : Renumber(s)
      PROVE  WillRenumber(d)'
  <2>1. Exists(d)'
    BY <1>2, StepAffects DEF Affected, WillRenumber
  <2>2. d \in counted'
    BY <1>2, <2>1, NothingTaken DEF Kept, WillRenumber
  <2>3. status'[d] # "completed"
    BY <1>2, StepAffects DEF Affected, WillRenumber, Indexing
  <2>4. ASSUME NEW s \in Slots, Doc(s)' = d PROVE pc'[s] \notin Indexing
    <3> SUFFICES ASSUME pc'[s] \in Indexing PROVE FALSE
      OBVIOUS
    <3>1. Doc(s) = d /\ (Still(s) \/ Works(s))
      BY <2>4, StepMoves, WorkStays DEF Still, Leaves, Doc, Indexing
    <3>2. pc[s] \notin Indexing
      BY <1>2, <3>1 DEF WillRenumber
    <3>3. ~Still(s) /\ Works(s)
      BY <3>1, <3>2 DEF Still
    <3>4. pc'[s] \in {"upsert", "retire", "mark", "finalize"}
      BY <1>2, <3>3, Stages DEF Indexing
    <3> QED BY <3>2, <3>3, <3>4, Stages DEF ReadChunks, UpsertPoints,
               DeleteOldPoints, MarkEmbedded, Indexing
  <2> QED BY <2>1, <2>2, <2>3, <2>4 DEF WillRenumber
<1>3. CASE Numbered /\ NumbersAlone
  BY <1>3, NumberedAlone DEF NumberedOrPending
<1>4. ASSUME Numbered, NEW d \in Docs, NEW p \in Docs \cup {NoDoc},
             InitiateUpload(d, p)
      PROVE  Numbered'
  <2>1. /\ pictured' = pictured /\ counted' = counted /\ combined' = combined
        /\ superseded' = superseded
        /\ \A e \in Docs \ {d} : Exists(e)' <=> Exists(e)
    BY <1>4, <1>t DEF InitiateUpload, Exists
  <2>2. ~Exists(d) /\ d \notin counted
    BY <1>4 DEF InitiateUpload, Exists, Written
  <2>3. Live' \cap counted = Live \cap counted
    BY <2>1, <2>2, <1>t DEF Live
  <2>4. \A pg \in pictured : pg[1] \in Docs /\ Exists(pg[1])
    BY <1>t DEF Rowed, Pages
  <2>5. \A pg \in pictured : pg[1] \in Live' => pg[1] \in Live
    BY <2>1, <2>2, <2>4 DEF Live
  <2> QED BY <1>4, <2>1, <2>3, <2>5, ManifestSame DEF Numbered
<1>5. ASSUME Numbered, NEW t \in Slots, OpenPdf(t) PROVE NumberedOrPending'
  <2>1. pc[t] = "open" /\ pc'[t] = "modes" /\ Doc(t)' = Doc(t) /\ status' = status
    BY <1>5, <1>t DEF OpenPdf, Doc
  <2>2. CASE Exists(Doc(t))
    <3>1. Doc(t) \in counted' /\ Exists(Doc(t))'
      BY <1>5, <2>1, <2>2 DEF OpenPdf, Exists
    <3> QED BY <2>1, <3>1, HolderWillRenumber DEF Busy, Holding, Indexing,
               NumberedOrPending
  <2>3. CASE ~Exists(Doc(t))
    <3>1. NumbersAlone
      BY <1>5, <2>3 DEF OpenPdf, NumbersAlone, Exists
    <3> QED BY <1>5, <3>1, NumberedAlone DEF NumberedOrPending
  <2> QED BY <2>2, <2>3
<1>6. ASSUME Numbered, NEW t \in Slots, Supersede(t) PROVE NumberedOrPending'
  <2>1. CASE Exists(Doc(t))
    <3>1. /\ pc[t] = "supersede" /\ pc'[t] = "renumber" /\ Doc(t)' = Doc(t)
          /\ status' = status /\ counted' = counted
      BY <1>6, <1>t, <2>1 DEF Supersede, Doc
    <3>2. Doc(t) \in counted
      BY <2>1, <3>1 DEF Progressed, Progress, After
    <3>3. Doc(t) \in counted' /\ Exists(Doc(t))'
      BY <2>1, <3>1, <3>2 DEF Exists
    <3> QED BY <3>1, <3>3, HolderWillRenumber DEF Busy, Holding, Indexing,
               NumberedOrPending
  <2>2. CASE ~Exists(Doc(t))
    <3>1. NumbersAlone
      BY <1>6, <2>2 DEF Supersede, NumbersAlone, Exists
    <3> QED BY <1>6, <3>1, NumberedAlone DEF NumberedOrPending
  <2> QED BY <2>1, <2>2
<1>7. ASSUME Numbered, NEW t \in Slots, NEW p \in PageNos, QuickPage(t, p)
      PROVE  NumberedOrPending'
  <2>1. /\ pc[t] \in Pool /\ pc'[t] = pc[t] /\ Doc(t)' = Doc(t)
        /\ status' = status /\ counted' = counted /\ Exists(Doc(t))
    BY <1>7 DEF QuickPage, Doc, Pool
  <2>2. Doc(t) \in counted
    BY <2>1 DEF Progressed, Progress, Pool
  <2>3. Doc(t) \in counted' /\ Exists(Doc(t))'
    BY <2>1, <2>2 DEF Exists
  <2> QED BY <2>1, <2>3, HolderWillRenumber DEF Busy, Holding, Indexing, Pool,
             NumberedOrPending
<1>8. \A d \in Docs : ~DeleteRow(d)
  BY DEF DeleteRow, Request
<1> QED BY <1>1, <1>2, <1>3, <1>4, <1>5, <1>6, <1>7, <1>8, OthersLeaveNumbers
        DEF NumberedOrPending, Renumbers

-----------------------------------------------------------------------------
(* The theorems.                                                           *)

\* What every step keeps, whatever is requested and whatever fails.
Held == Unfinished /\ Written /\ Replaced /\ Pointed /\ FullIsPictured

\* It holds at first, ...
LEMMA HeldBegins == Init => Held
BY NoDocNotDoc DEF Init, Held, Unfinished, Busy, Holding, Written, Replaced,
   Pointed, Stored, FullIsPictured

\* ... and always.
THEOREM HeldHolds == Spec => []Held
<1>1. IInv /\ Held /\ [Next]_vars => Held'
  <2> SUFFICES ASSUME IInv, Held, [Next]_vars PROVE Held'
    OBVIOUS
  <2>1. Unfinished' /\ Written' /\ Replaced'
    BY UnfinishedStays, WrittenStays, ReplacedStays DEF IInv, Held
  <2>2. Pointed' /\ FullIsPictured'
    BY PointedStays, FullIsPicturedStays DEF IInv, Held
  <2> QED BY <2>1, <2>2 DEF Held
<1> QED BY <1>1, HeldBegins, InvariantHolds, PTL DEF Spec

\* Unless all vectors are thrown away while documents are processed, a live
\* completed document can be searched: every page it has read is embedded and
\* has its point, whatever fails, crashes, lapses or is revised meanwhile.
THEOREM SearchableHolds ==
  ASSUME "reembed" \notin Requests
  PROVE  Spec => []CompletedIsSearchable
<1>1. Init => Searchable
  BY DEF Init, Searchable, Indexed, Live, Exists
<1>2. IInv /\ Held /\ Searchable /\ [Next]_vars => Searchable'
  BY SearchableStays DEF IInv, Held
<1>3. IInv /\ Held /\ Searchable => CompletedIsSearchable
  <2> SUFFICES ASSUME IInv, Held, Searchable, NEW d \in Live,
                      status[d] = "completed", NEW pg \in full \cap PagesOf({d})
               PROVE  pg \in embedded \cap points
    BY DEF CompletedIsSearchable
  <2>1. pg[1] = d /\ pg[2] \in PageNos /\ pg = <<d, pg[2]>>
    BY DEF PagesOf, Pages
  <2>2. pg \in embedded
    BY <2>1 DEF Searchable, FullIn
  <2> QED BY <2>1, <2>2 DEF Held, Pointed
<1> QED BY <1>1, <1>2, <1>3, InvariantHolds, HeldHolds, PTL DEF Spec

\* In a project that processes everything, a completed document has been read
\* page for page, whatever failed, crashed or was delivered twice meanwhile.
THEOREM EverythingReadHolds == Spec => []EverythingIsRead
<1>1. Init => HalfShown /\ CompletedIsRead
  <2> SUFFICES ASSUME Init PROVE HalfShown /\ CompletedIsRead
    OBVIOUS
  <2>1. \A s \in Slots : Doc(s) \in Docs
    BY TypesBegin, DocType DEF TypeOK
  <2> QED BY <2>1 DEF Init, HalfShown, CompletedIsRead, ReadSoFar, Exists
<1>2. /\ IInv /\ HalfShown /\ (ProcessAll => CompletedIsRead) /\ [Next]_vars
      => HalfShown' /\ (ProcessAll => CompletedIsRead)'
  BY HalfShownStays, CompletedIsReadStays DEF IInv
<1>3. (ProcessAll => CompletedIsRead) => EverythingIsRead
  BY DEF EverythingIsRead, CompletedIsRead, AllRead, PagesOf, Pages
<1> QED BY <1>1, <1>2, <1>3, InvariantHolds, PTL DEF Spec

\* Unless documents are deleted, the stored numbers are the manifest's as soon
\* as every document that has pages is completed, in whatever order documents
\* and their revisions were processed.
THEOREM NumberedHolds ==
  ASSUME "delete" \notin Requests
  PROVE  Spec => []CompletedSetIsNumbered
<1>1. Init => NumberedOrPending
  BY DEF Init, NumberedOrPending, Numbered
<1>2. IInv /\ Held /\ NumberedOrPending /\ [Next]_vars => NumberedOrPending'
  BY NumberedStays DEF IInv, Held
<1>3. NumberedOrPending => CompletedSetIsNumbered
  BY DEF NumberedOrPending, WillRenumber, Numbered, CompletedSetIsNumbered
<1> QED BY <1>1, <1>2, <1>3, InvariantHolds, HeldHolds, PTL DEF Spec
=============================================================================
