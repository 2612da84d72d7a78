--------------------------- MODULE FullScanProofs ---------------------------
(***************************************************************************)
(* Theorems about FullScan for any number of tiles, executions, resumes,   *)
(* changes of the drawings and faults.  The inductive invariant says what  *)
(* an execution may hold at each point of a run, and what a resume request *)
(* can have read.                                                          *)
(***************************************************************************)
EXTENDS FullScan, FiniteSetTheorems, TLAPS

USE FullScanAssumption

\* Only a run that looks has tiles to ask for or calls in flight; one that
\* stops asks for nothing more; a tile is at one place of a run at a time.
Shaped(e) ==
  /\ e.pc \notin {"first", "close"} =>
       e.todo = {} /\ e.next = NoTile /\ \A t \in Tiles : e.call[t] = "none"
  /\ e.stop # "no" =>
       e.todo = {} /\ e.next = NoTile /\ e.pc \in {"set", "first", "close"}
  /\ \A t \in Tiles : e.call[t] # "none" => t \notin e.todo /\ t # e.next
  /\ e.next \notin e.todo
  /\ e.pc # "close" => \A t \in Tiles : e.call[t] # "saved"

Sound(e) == e \in Exec /\ Shaped(e)

ExecsSound == exec \in [Workers -> Exec] /\ \A w \in Workers : Sound(exec[w])

\* What an execution has saved is on file before it records the verdict.
SavedIsFound ==
  \A w \in Workers, t \in Tiles : exec[w].call[t] = "saved" => t \in found

\* A scan that can be resumed is neither planned nor cancelled.
ReadIsResumable == resuming.status \notin {"planned", "cancelled"}

IInv == TypeOK /\ ExecsSound /\ KeptIsSaved /\ SavedIsFound /\ ReadIsResumable

USE DEF rowVars, queueVars, boundVars, historyVars, FaultFrame

-----------------------------------------------------------------------------
(* What the steps of an execution do to what it holds.                     *)

\* The other executions keep what they hold.
LEMMA BecomesSound ==
  ASSUME ExecsSound, NEW w \in Workers, NEW e, Sound(e), Becomes(w, e)
  PROVE  /\ ExecsSound'
         /\ exec'[w] = e
         /\ \A v \in Workers \ {w} : exec'[v] = exec[v]
BY DEF ExecsSound, Becomes, Sound

\* An execution at rest holds nothing.
LEMMA NoExecSound == Sound(NoExec)
BY DEF Sound, Shaped, NoExec, NoCalls, Exec, Modes

\* An execution that is not looking moves on.
LEMMA GotoSound ==
  ASSUME NEW e, Sound(e), e.pc \notin {"set", "first", "close"},
         NEW pc \in {"idle", "planning", "tiles", "failing", "rest", "taken", "set"}
  PROVE  Sound([e EXCEPT !.pc = pc])
BY DEF Sound, Shaped, Exec

\* A run stops for a reason.
LEMMA StopSound ==
  ASSUME NEW e, Sound(e), e.pc \in {"set", "first", "close"},
         NEW why \in {"budget", "cancelled", "failed", "stale"}
  PROVE  Sound([e EXCEPT !.stop = why, !.todo = {}, !.next = NoTile])
BY DEF Sound, Shaped, Exec

\* A call in flight gets an answer, or its answer is written.
LEMMA CallSound ==
  ASSUME NEW e, Sound(e), NEW t \in Tiles, e.call[t] # "none",
         NEW c \in {"none", "again", "repair", "good", "bad", "saved"},
         c = "saved" => e.pc = "close"
  PROVE  Sound([e EXCEPT !.call[t] = c])
<1>. DEFINE f == [e EXCEPT !.call[t] = c]
<1>1. e \in Exec /\ Shaped(e)
  BY DEF Sound
<1>2. e.call \in [Tiles -> {"none", "sent", "again", "repair", "good", "bad", "saved"}]
  BY <1>1 DEF Exec
<1>3. f.call = [e.call EXCEPT ![t] = c]
  BY <1>1 DEF Exec
<1>4. f.call \in [Tiles -> {"none", "sent", "again", "repair", "good", "bad", "saved"}]
  BY <1>2, <1>3
<1>5. f \in Exec /\ f.pc = e.pc /\ f.todo = e.todo /\ f.next = e.next /\ f.stop = e.stop
  BY <1>1, <1>4 DEF Exec
<1>6. e.pc \in {"first", "close"}
  BY <1>1 DEF Shaped
<1>7. \A u \in Tiles : f.call[u] = IF u = t THEN c ELSE e.call[u]
  BY <1>2, <1>3
<1>8. Shaped(f)
  BY <1>1, <1>5, <1>6, <1>7 DEF Shaped
<1>. QED
  BY <1>5, <1>8 DEF Sound

\* An answer is given up, and the run with it.
LEMMA DropSound ==
  ASSUME NEW e, Sound(e), NEW t \in Tiles, e.call[t] # "none"
  PROVE  Sound([e EXCEPT !.call[t] = "none", !.stop = "failed",
                         !.todo = {}, !.next = NoTile])
<1>1. Sound([e EXCEPT !.call[t] = "none"])
  BY CallSound
<1>2. e \in Exec /\ e.pc \in {"first", "close"}
  BY DEF Sound, Shaped
<1>3. [e EXCEPT !.call[t] = "none"].pc = e.pc
  BY <1>2 DEF Exec
<1>4. Sound([[e EXCEPT !.call[t] = "none"] EXCEPT !.stop = "failed", !.todo = {}, !.next = NoTile])
  BY <1>1, <1>2, <1>3, StopSound
<1>5. [[e EXCEPT !.call[t] = "none"] EXCEPT !.stop = "failed", !.todo = {}, !.next = NoTile]
      = [e EXCEPT !.call[t] = "none", !.stop = "failed", !.todo = {}, !.next = NoTile]
  BY <1>2 DEF Exec
<1>. QED
  BY <1>4, <1>5
\* An execution that is done with a plan rests or ends.
LEMMA AfterPlanSound ==
  ASSUME ExecsSound, NEW w \in Workers, AfterPlan(w),
         exec[w].pc \in {"planning", "tiles", "failing"}
  PROVE  /\ ExecsSound'
         /\ \A v \in Workers, t \in Tiles : exec'[v].call[t] = exec[v].call[t]
<1>1. Sound(exec[w])
  BY DEF ExecsSound
<1>2. CASE Goto(w, "rest")
  <2>1. Sound([exec[w] EXCEPT !.pc = "rest"])
    BY <1>1, GotoSound
  <2>2. [exec[w] EXCEPT !.pc = "rest"].call = exec[w].call
    BY <1>1 DEF Sound, Exec
  <2>. QED
    BY <1>2, <2>1, <2>2, BecomesSound DEF Goto
<1>3. CASE Quit(w)
  <2>1. \A t \in Tiles : NoExec.call[t] = exec[w].call[t]
    BY <1>1 DEF Sound, Shaped, NoExec, NoCalls
  <2>. QED
    BY <1>3, <2>1, NoExecSound, BecomesSound DEF Quit
<1>. QED
  BY <1>2, <1>3 DEF AfterPlan

\* An execution's place in a run and its tiles to ask for change, its calls
\* stay.
LEMMA LooksSound ==
  ASSUME NEW e, Sound(e), e.stop = "no",
         NEW pc \in {"first", "close"}, NEW todo \in SUBSET Tiles, NEW copy \in Nat,
         \A t \in Tiles : e.call[t] = "none",
         e.next = NoTile
  PROVE  Sound([e EXCEPT !.pc = pc, !.todo = todo, !.copy = copy])
BY DEF Sound, Shaped, Exec

\* The next tile of a run is taken from those to ask for.
LEMMA NextSound ==
  ASSUME NEW e, Sound(e), NEW t \in e.todo
  PROVE  Sound([e EXCEPT !.next = t, !.todo = @ \ {t}])
BY DEF Sound, Shaped, Exec

\* The next tile is asked about, or passed over.
LEMMA SendSound ==
  ASSUME NEW e, Sound(e), e.next # NoTile
  PROVE  /\ Sound([e EXCEPT !.call[e.next] = "sent", !.next = NoTile])
         /\ Sound([e EXCEPT !.next = NoTile])
<1>. DEFINE f == [e EXCEPT !.call[e.next] = "sent", !.next = NoTile]
<1>1. e \in Exec /\ Shaped(e) /\ e.next \in Tiles
  BY DEF Sound, Exec
<1>2. e.call \in [Tiles -> {"none", "sent", "again", "repair", "good", "bad", "saved"}]
  BY <1>1 DEF Exec
<1>3. f.call = [e.call EXCEPT ![e.next] = "sent"]
  BY <1>1 DEF Exec
<1>4. f.call \in [Tiles -> {"none", "sent", "again", "repair", "good", "bad", "saved"}]
  BY <1>1, <1>2, <1>3
<1>5. f \in Exec /\ f.pc = e.pc /\ f.todo = e.todo /\ f.next = NoTile /\ f.stop = e.stop
  BY <1>1, <1>4 DEF Exec
<1>6. e.pc \in {"first", "close"} /\ e.stop = "no" /\ e.next \notin e.todo
  BY <1>1 DEF Shaped
<1>7. \A u \in Tiles : f.call[u] = IF u = e.next THEN "sent" ELSE e.call[u]
  BY <1>1, <1>2, <1>3
<1>8. Shaped(f)
  BY <1>1, <1>5, <1>6, <1>7 DEF Shaped, Exec
<1>9. Sound([e EXCEPT !.next = NoTile])
  BY <1>1, <1>6 DEF Sound, Shaped, Exec
<1>. QED
  BY <1>5, <1>8, <1>9 DEF Sound

-----------------------------------------------------------------------------
(* Every step keeps executions sound.                                      *)

\* An execution newly holds a saved answer only if it is on file.
NewSaved ==
  \A v \in Workers, t \in Tiles :
    exec'[v].call[t] = "saved" => exec[v].call[t] = "saved" \/ t \in found'

\* What one execution comes to hold is all that changes.
LEMMA BecomesKeeps ==
  ASSUME ExecsSound, NEW w \in Workers, NEW e, Sound(e), Becomes(w, e),
         \A t \in Tiles :
           e.call[t] = "saved" => exec[w].call[t] = "saved" \/ t \in found'
  PROVE  ExecsSound' /\ NewSaved
BY BecomesSound DEF NewSaved

\* Requests do not touch executions.
LEMMA ExecsKept ==
  ASSUME ExecsSound, UNCHANGED exec
  PROVE  ExecsSound' /\ NewSaved
BY DEF ExecsSound, NewSaved

\* A call in flight gets an answer.
LEMMA SetCallKeeps ==
  ASSUME ExecsSound, NEW w \in Workers, NEW t \in Tiles, exec[w].call[t] # "none",
         NEW c \in {"none", "again", "repair", "good", "bad"},
         SetCall(w, t, c)
  PROVE  ExecsSound' /\ NewSaved
<1>1. Sound(exec[w])
  BY DEF ExecsSound
<1>2. Sound([exec[w] EXCEPT !.call[t] = c])
  BY <1>1, CallSound
<1>3. \A u \in Tiles : [exec[w] EXCEPT !.call[t] = c].call[u] = "saved" => exec[w].call[u] = "saved"
  BY <1>1 DEF Sound, Exec
<1>. QED
  BY <1>2, <1>3, BecomesKeeps DEF SetCall

\* A run gives up.
LEMMA StopKeeps ==
  ASSUME ExecsSound, NEW w \in Workers, exec[w].pc \in {"set", "first", "close"},
         NEW why \in {"budget", "cancelled", "failed", "stale"},
         StopFor(w, why)
  PROVE  ExecsSound' /\ NewSaved
<1>1. Sound(exec[w])
  BY DEF ExecsSound
<1>2. Sound([exec[w] EXCEPT !.stop = why, !.todo = {}, !.next = NoTile])
  BY <1>1, StopSound
<1>3. [exec[w] EXCEPT !.stop = why, !.todo = {}, !.next = NoTile].call = exec[w].call
  BY <1>1 DEF Sound, Exec
<1>. QED
  BY <1>2, <1>3, BecomesKeeps DEF StopFor

\* An answer cannot be written, and the run gives up.
LEMMA DropKeeps ==
  ASSUME ExecsSound, NEW w \in Workers, NEW t \in Tiles, exec[w].call[t] # "none",
         Becomes(w, [exec[w] EXCEPT !.call[t] = "none", !.stop = "failed",
                                    !.todo = {}, !.next = NoTile])
  PROVE  ExecsSound' /\ NewSaved
<1>. DEFINE e == [exec[w] EXCEPT !.call[t] = "none", !.stop = "failed",
                                 !.todo = {}, !.next = NoTile]
<1>1. Sound(exec[w])
  BY DEF ExecsSound
<1>2. Sound(e)
  BY <1>1, DropSound
<1>3. e.call = [exec[w].call EXCEPT ![t] = "none"]
  BY <1>1 DEF Sound, Exec
<1>4. \A u \in Tiles : e.call[u] = "saved" => exec[w].call[u] = "saved"
  BY <1>1, <1>3 DEF Sound, Exec
<1>. QED
  BY <1>2, <1>4, BecomesKeeps

\* An execution moves on, or ends.
LEMMA GotoKeeps ==
  ASSUME ExecsSound, NEW w \in Workers, exec[w].pc \notin {"set", "first", "close"},
         NEW pc \in {"idle", "planning", "tiles", "failing", "rest", "taken", "set"},
         Goto(w, pc)
  PROVE  ExecsSound' /\ NewSaved
<1>1. Sound(exec[w])
  BY DEF ExecsSound
<1>2. Sound([exec[w] EXCEPT !.pc = pc])
  BY <1>1, GotoSound
<1>3. [exec[w] EXCEPT !.pc = pc].call = exec[w].call
  BY <1>1 DEF Sound, Exec
<1>. QED
  BY <1>2, <1>3, BecomesKeeps DEF Goto

\* An execution that ends holds nothing.
LEMMA QuitKeeps ==
  ASSUME ExecsSound, NEW w \in Workers, Quit(w)
  PROVE  ExecsSound' /\ NewSaved
<1>1. \A t \in Tiles : NoExec.call[t] # "saved"
  BY DEF NoExec, NoCalls
<1>. QED
  BY <1>1, NoExecSound, BecomesKeeps DEF Quit

\* An execution that takes a job holds nothing yet.
Fresh(e) ==
  /\ e \in Exec
  /\ e.pc \in {"planning", "rest", "taken"} /\ e.stop = "no"
  /\ e.todo = {} /\ e.next = NoTile /\ e.call = NoCalls

\* An execution takes a job, or finds it done.
LEMMA TakeKeeps ==
  ASSUME ExecsSound, NEW w \in Workers, NEW m \in Modes, NEW wanted,
         NEW e, Fresh(e), Take(w, m, wanted, e)
  PROVE  ExecsSound' /\ NewSaved
<1>. DEFINE f == [e EXCEPT !.mode = m]
<1>1. f \in Exec /\ f.call = NoCalls /\ f.pc = e.pc /\ f.stop = "no"
      /\ f.todo = {} /\ f.next = NoTile
  BY DEF Fresh, Exec
<1>2. Sound(f)
  BY <1>1 DEF Sound, Shaped, Fresh, NoCalls
<1>3. \A t \in Tiles : f.call[t] # "saved"
  BY <1>1 DEF NoCalls
<1>4. Becomes(w, f) \/ UNCHANGED exec
  BY DEF Take
<1>. HIDE DEF f
<1>. QED
  BY <1>2, <1>3, <1>4, BecomesKeeps, ExecsKept

\* Every step keeps what executions hold sound.
LEMMA ExecsStep ==
  TypeOK /\ ExecsSound /\ [Next]_vars => ExecsSound' /\ NewSaved
<1>. SUFFICES ASSUME TypeOK, ExecsSound, [Next]_vars
              PROVE  ExecsSound' /\ NewSaved
  OBVIOUS
<1>. DEFINE Keeps == ExecsSound' /\ NewSaved
<1>. \A w \in Workers : Sound(exec[w]) /\ exec[w] \in Exec /\ Shaped(exec[w])
  BY DEF ExecsSound, Sound
<1>1. CASE RequestStep \/ GoSilent
  BY <1>1, ExecsKept DEF RequestStep, GoSilent, AskPlan, AutoWait, WriteResume, Cancel,
     StopChecks, ChangeDrawings, AskChecks, AddJob, LoseJob, Start, AutoStart, Begin,
     ReadForResume
<1>2. ASSUME NEW w \in Workers, TakePlan(w) PROVE ExecsSound' /\ NewSaved
  <2>1. Fresh([NoExec EXCEPT !.pc = "planning", !.seen = drawings])
    BY DEF Fresh, NoExec, Exec, Modes, NoCalls, TypeOK
  <2>. QED
    BY <1>2, <2>1, TakeKeeps DEF TakePlan, Modes
<1>3. ASSUME NEW w \in Workers, TakeChecks(w) PROVE ExecsSound' /\ NewSaved
  <2>1. Fresh([NoExec EXCEPT !.pc = IF scan.status = "planning" THEN "planning" ELSE "rest", !.seen = drawings])
    BY DEF Fresh, NoExec, Exec, Modes, NoCalls, TypeOK
  <2>. QED
    BY <1>3, <2>1, TakeKeeps DEF TakeChecks, Modes
<1>4. ASSUME NEW w \in Workers, TakeRun(w) PROVE ExecsSound' /\ NewSaved
  <2>1. Fresh([NoExec EXCEPT !.pc = "taken", !.limit = scan.limit, !.seen = scan.sourced])
    BY DEF Fresh, NoExec, Exec, Modes, NoCalls, TypeOK, Row
  <2>. QED
    BY <1>4, <2>1, TakeKeeps DEF TakeRun, Modes
<1>5. ASSUME NEW w \in Workers, NoticePlanCancelled(w) PROVE ExecsSound' /\ NewSaved
  <2>1. CASE Goto(w, "rest")
    BY <1>5, <2>1, GotoKeeps DEF NoticePlanCancelled, At
  <2>2. CASE Quit(w)
    BY <2>2, QuitKeeps
  <2>. QED
    BY <1>5, <2>1, <2>2 DEF NoticePlanCancelled, AfterPlan
<1>6. ASSUME NEW w \in Workers, WritePlanned(w) PROVE ExecsSound' /\ NewSaved
  <2>1. CASE Goto(w, "rest")
    BY <1>6, <2>1, GotoKeeps DEF WritePlanned, At
  <2>2. CASE Quit(w)
    BY <2>2, QuitKeeps
  <2>. QED
    BY <1>6, <2>1, <2>2 DEF WritePlanned, AfterPlan
<1>7. ASSUME NEW w \in Workers, FailPlan(w) PROVE ExecsSound' /\ NewSaved
  <2>1. CASE Goto(w, "rest")
    BY <1>7, <2>1, GotoKeeps DEF FailPlan, At
  <2>2. CASE Quit(w)
    BY <2>2, QuitKeeps
  <2>. QED
    BY <1>7, <2>1, <2>2 DEF FailPlan, AfterPlan
<1>8. ASSUME NEW w \in Workers, PlanFails(w) PROVE ExecsSound' /\ NewSaved
  <2>1. CASE Goto(w, "rest") \/ Goto(w, "failing")
    BY <1>8, <2>1, GotoKeeps DEF PlanFails
  <2>2. CASE Quit(w)
    BY <2>2, QuitKeeps
  <2>. QED
    BY <1>8, <2>1, <2>2 DEF PlanFails, AfterPlan
<1>9. ASSUME NEW w \in Workers, WriteTiles(w) PROVE ExecsSound' /\ NewSaved
  BY <1>9, GotoKeeps DEF WriteTiles, At
<1>10. ASSUME NEW w \in Workers, SetRunning(w) PROVE ExecsSound' /\ NewSaved
  BY <1>10, GotoKeeps DEF SetRunning, At
<1>11. ASSUME NEW w \in Workers, NoticeChecksStopped(w) PROVE ExecsSound' /\ NewSaved
  <2>1. CASE Goto(w, "failing")
    BY <1>11, <2>1, GotoKeeps DEF NoticeChecksStopped
  <2>2. CASE Quit(w)
    BY <2>2, QuitKeeps
  <2>. QED
    BY <1>11, <2>1, <2>2 DEF NoticeChecksStopped
<1>12. ASSUME NEW w \in Workers, ChecksFail(w) PROVE ExecsSound' /\ NewSaved
  <2>1. CASE Goto(w, "failing")
    BY <1>12, <2>1, GotoKeeps DEF ChecksFail
  <2>2. CASE Quit(w)
    BY <2>2, QuitKeeps
  <2>. QED
    BY <1>12, <2>1, <2>2 DEF ChecksFail
<1>13. ASSUME NEW w \in Workers, ChecksDone(w) PROVE ExecsSound' /\ NewSaved
  BY <1>13, QuitKeeps DEF ChecksDone
<1>14. ASSUME NEW w \in Workers, Finish(w) PROVE ExecsSound' /\ NewSaved
  BY <1>14, QuitKeeps DEF Finish
<1>15. ASSUME NEW w \in Workers, EndStopped(w) PROVE ExecsSound' /\ NewSaved
  BY <1>15, QuitKeeps DEF EndStopped
<1>16. ASSUME NEW w \in Workers, Crash(w) PROVE ExecsSound' /\ NewSaved
  BY <1>16, QuitKeeps DEF Crash
<1>17. ASSUME NEW w \in Workers, BeginFirstLook(w) PROVE ExecsSound' /\ NewSaved
  <2>. DEFINE e == [exec[w] EXCEPT !.pc = "first", !.todo = PendingTiles, !.copy = scan.copy]
  <2>1. exec[w].pc = "set" /\ exec[w].stop = "no" /\ exec[w].next = NoTile
        /\ \A t \in Tiles : exec[w].call[t] = "none"
    BY <1>17 DEF BeginFirstLook, At, Shaped
  <2>2. PendingTiles \in SUBSET Tiles /\ scan.copy \in Nat
    BY DEF PendingTiles, TypeOK, Row
  <2>3. CASE StopFor(w, "stale") \/ StopFor(w, "cancelled")
    BY <2>1, <2>3, StopKeeps
  <2>4. CASE Becomes(w, e)
    <3>1. Sound(e)
      BY <2>1, <2>2, LooksSound
    <3>2. e.call = exec[w].call
      BY DEF Exec
    <3>. HIDE DEF e
    <3>. QED
      BY <2>4, <3>1, <3>2, BecomesKeeps
  <2>. QED
    BY <1>17, <2>3, <2>4 DEF BeginFirstLook
<1>18. ASSUME NEW w \in Workers, BeginCloseLook(w) PROVE ExecsSound' /\ NewSaved
  <2>. DEFINE e == [exec[w] EXCEPT !.pc = "close", !.todo = OpenTiles, !.copy = scan.copy]
  <2>1. exec[w].stop = "no" /\ exec[w].next = NoTile
        /\ \A t \in Tiles : exec[w].call[t] = "none"
    BY <1>18 DEF BeginCloseLook, Looking, InFlight
  <2>2. OpenTiles \in SUBSET Tiles /\ scan.copy \in Nat
    BY DEF OpenTiles, TypeOK, Row
  <2>3. Sound(e)
    BY <2>1, <2>2, LooksSound
  <2>4. e.call = exec[w].call
    BY DEF Exec
  <2>. QED
    BY <1>18, <2>3, <2>4, BecomesKeeps, ZenonT(30) DEF BeginCloseLook
<1>19. ASSUME NEW w \in Workers, Guard(w) PROVE ExecsSound' /\ NewSaved
  <2>1. PICK t \in exec[w].todo :
          IF scan.status = "cancelled" THEN StopFor(w, "cancelled")
          ELSE Becomes(w, [exec[w] EXCEPT !.next = t, !.todo = @ \ {t}])
    BY <1>19 DEF Guard
  <2>2. CASE StopFor(w, "cancelled")
    BY <1>19, <2>2, StopKeeps DEF Guard, Looking
  <2>3. CASE Becomes(w, [exec[w] EXCEPT !.next = t, !.todo = @ \ {t}])
    <3>. DEFINE e == [exec[w] EXCEPT !.next = t, !.todo = @ \ {t}]
    <3>1. Sound(e)
      BY NextSound
    <3>2. e.call = exec[w].call
      BY DEF Exec
    <3>3. Becomes(w, e)
      BY <2>3
    <3>. HIDE DEF e
    <3>. QED
      BY <3>1, <3>2, <3>3, BecomesKeeps
  <2>. QED
    BY <2>1, <2>2, <2>3
<1>20. ASSUME NEW w \in Workers, NoticeAccessLost(w) PROVE ExecsSound' /\ NewSaved
  BY <1>20, StopKeeps DEF NoticeAccessLost, Looking
<1>21. ASSUME NEW w \in Workers, BudgetStop(w) PROVE ExecsSound' /\ NewSaved
  <2>1. exec[w].pc \in {"first", "close"}
    BY <1>21 DEF BudgetStop, Shaped
  <2>. QED
    BY <1>21, <2>1, StopKeeps DEF BudgetStop
<1>22. ASSUME NEW w \in Workers, Raise(w) PROVE ExecsSound' /\ NewSaved
  BY <1>22, StopKeeps DEF Raise
<1>23. ASSUME NEW w \in Workers, Send(w) PROVE ExecsSound' /\ NewSaved
  <2>. DEFINE e == [exec[w] EXCEPT !.call[exec[w].next] = "sent", !.next = NoTile]
  <2>1. Sound(e)
    BY <1>23, SendSound DEF Send
  <2>2. e.call = [exec[w].call EXCEPT ![exec[w].next] = "sent"]
    BY DEF Exec
  <2>3. \A t \in Tiles : e.call[t] = "saved" => exec[w].call[t] = "saved"
    BY <2>2 DEF Exec
  <2>. QED
    BY <1>23, <2>1, <2>3, BecomesKeeps DEF Send
<1>24. ASSUME NEW w \in Workers, SkipNext(w) PROVE ExecsSound' /\ NewSaved
  <2>1. CASE StopFor(w, "failed")
    <3>1. exec[w].pc \in {"first", "close"}
      BY <1>24 DEF SkipNext, Shaped
    <3>. QED
      BY <2>1, <3>1, StopKeeps
  <2>2. CASE Becomes(w, [exec[w] EXCEPT !.next = NoTile])
    <3>1. Sound([exec[w] EXCEPT !.next = NoTile])
      BY <1>24, SendSound DEF SkipNext
    <3>2. [exec[w] EXCEPT !.next = NoTile].call = exec[w].call
      BY DEF Exec
    <3>. QED
      BY <2>2, <3>1, <3>2, BecomesKeeps
  <2>. QED
    BY <1>24, <2>1, <2>2 DEF SkipNext
<1>25. ASSUME NEW w \in Workers, NEW t \in Tiles, Reply(w, t) PROVE ExecsSound' /\ NewSaved
  BY <1>25, SetCallKeeps DEF Reply
<1>26. ASSUME NEW w \in Workers, NEW t \in Tiles, UnusableReply(w, t) PROVE ExecsSound' /\ NewSaved
  BY <1>26, SetCallKeeps DEF UnusableReply
<1>27. ASSUME NEW w \in Workers, NEW t \in Tiles, MisplacedReply(w, t) PROVE ExecsSound' /\ NewSaved
  BY <1>27, SetCallKeeps DEF MisplacedReply
<1>28. ASSUME NEW w \in Workers, NEW t \in Tiles, NoReply(w, t) PROVE ExecsSound' /\ NewSaved
  BY <1>28, SetCallKeeps DEF NoReply
<1>29. ASSUME NEW w \in Workers, NEW t \in Tiles, SaveLook(w, t) PROVE ExecsSound' /\ NewSaved
  BY <1>29, SetCallKeeps DEF SaveLook
<1>30. ASSUME NEW w \in Workers, NEW t \in Tiles, SettleReject(w, t) PROVE ExecsSound' /\ NewSaved
  BY <1>30, SetCallKeeps DEF SettleReject
<1>31. ASSUME NEW w \in Workers, NEW t \in Tiles, RecordVerdict(w, t) PROVE ExecsSound' /\ NewSaved
  BY <1>31, SetCallKeeps DEF RecordVerdict
<1>32. ASSUME NEW w \in Workers, NEW t \in Tiles, SaveFinding(w, t) PROVE ExecsSound' /\ NewSaved
  <2>1. Sound([exec[w] EXCEPT !.call[t] = "saved"])
    BY <1>32, CallSound DEF SaveFinding, At
  <2>2. \A u \in Tiles : [exec[w] EXCEPT !.call[t] = "saved"].call[u] = "saved"
                          => exec[w].call[u] = "saved" \/ u \in found'
    BY <1>32 DEF SaveFinding, Exec
  <2>. QED
    BY <1>32, <2>1, <2>2, BecomesKeeps DEF SaveFinding, SetCall
<1>33. ASSUME NEW w \in Workers, NEW t \in Tiles, VerdictHasNoRow(w, t) PROVE ExecsSound' /\ NewSaved
  BY <1>33, DropKeeps DEF VerdictHasNoRow
<1>34. ASSUME NEW w \in Workers, NEW t \in Tiles, SaveFails(w, t) PROVE ExecsSound' /\ NewSaved
  BY <1>34, DropKeeps DEF SaveFails
<1>35. ASSUME NEW w \in Workers, BatchTimeout(w) PROVE ExecsSound' /\ NewSaved
  <2>. DEFINE e == [exec[w] EXCEPT !.call = NoCalls, !.stop = "failed", !.todo = {}, !.next = NoTile]
  <2>1. e.call = NoCalls /\ e.pc = "first" /\ e.todo = {} /\ e.next = NoTile
    BY <1>35 DEF BatchTimeout, At, Exec
  <2>2. e \in Exec
    BY ZenonT(30) DEF Exec, NoCalls
  <2>3. Sound(e)
    BY <2>1, <2>2 DEF Sound, Shaped, NoCalls
  <2>4. \A t \in Tiles : e.call[t] # "saved"
    BY <2>1 DEF NoCalls
  <2>5. Becomes(w, e)
    BY <1>35 DEF BatchTimeout
  <2>. HIDE DEF e
  <2>. QED
    BY <2>3, <2>4, <2>5, BecomesKeeps
<1>36. ASSUME NEW w \in Workers, Lapse(w) PROVE ExecsSound' /\ NewSaved
  <2>. DEFINE e == [exec[w] EXCEPT !.late = TRUE]
  <2>1. e \in Exec /\ e.call = exec[w].call /\ e.pc = exec[w].pc /\ e.stop = exec[w].stop
        /\ e.todo = exec[w].todo /\ e.next = exec[w].next
    BY ZenonT(30) DEF Exec
  <2>2. Becomes(w, e)
    BY <1>36 DEF Lapse
  <2>. HIDE DEF e
  <2>3. Sound(e)
    BY <2>1 DEF Sound, Shaped
  <2>. QED
    BY <2>1, <2>2, <2>3, BecomesKeeps
<1>37. CASE UNCHANGED vars
  BY <1>37, ExecsKept DEF vars
<1>. QED
  BY <1>1, <1>2, <1>3, <1>4, <1>5, <1>6, <1>7, <1>8, <1>9, <1>10, <1>11, <1>12, <1>13, <1>14, <1>15, <1>16, <1>17, <1>18, <1>19, <1>20, <1>21, <1>22, <1>23, <1>24, <1>25, <1>26, <1>27, <1>28, <1>29, <1>30, <1>31, <1>32, <1>33, <1>34, <1>35, <1>36, <1>37
  DEF Next, TakeStep, WorkStep, PlanStep, RunStep, FaultStep

-----------------------------------------------------------------------------
(* Types, what is on file, and what a resume request has read.             *)

\* The row keeps its types under the writes of the requests and the workers.
LEMMA RowStep ==
  TypeOK /\ ExecsSound /\ [Next]_vars => scan' \in Row
<1>. SUFFICES ASSUME TypeOK, ExecsSound, [Next]_vars PROVE scan' \in Row
  OBVIOUS
<1>1. scan \in Row /\ drawings \in Nat /\ resuming.status \in Statuses \cup {"none"}
      /\ resuming.limit \in Nat /\ Limits \subseteq Nat
  BY DEF TypeOK
<1>2. \A w \in Workers : exec[w] \in Exec
  BY DEF ExecsSound, Sound
<1>3. CASE UNCHANGED scan
  BY <1>1, <1>3
<1>4. CASE RequestStep
  <2>1. CASE AskPlan \/ AutoWait \/ Cancel
    BY <1>1, <2>1 DEF AskPlan, AutoWait, Cancel, Row, Statuses
  <2>2. ASSUME NEW auto \in {"off", "undecided"}, AskChecks(auto) PROVE scan' \in Row
    BY <1>1, <2>2 DEF AskChecks, Row, Statuses
  <2>3. CASE WriteResume
    BY <1>1, <2>3 DEF WriteResume, Row, Statuses
  <2>4. ASSUME NEW l \in Limits, Start(l) \/ AutoStart(l) PROVE scan' \in Row
    <3>1. l \in Nat /\ scan.auto \in {"off", "undecided", "decided"}
      BY <1>1 DEF Row
    <3>2. PICK auto \in {"off", "undecided", "decided"} : Claim(l, auto)
      BY <2>4, <3>1 DEF Start, AutoStart, Begin
    <3>. QED
      BY <1>1, <3>1, <3>2 DEF Claim, Row, Statuses
  <2>. QED
    BY <1>3, <1>4, <2>1, <2>2, <2>3, <2>4 DEF RequestStep, StopChecks, ChangeDrawings,
       AddJob, LoseJob, ReadForResume
<1>5. CASE GoSilent
  BY <1>1, <1>5 DEF GoSilent, Row
<1>6. ASSUME NEW w \in Workers, TakeStep(w) PROVE scan' \in Row
  BY <1>1, <1>6 DEF TakeStep, TakePlan, TakeChecks, TakeRun, Row
<1>7. ASSUME NEW w \in Workers, PlanStep(w) PROVE scan' \in Row
  <2>1. CASE WriteTiles(w)
    <3>1. exec[w].seen \in Nat
      BY <1>2 DEF Exec
    <3>2. scan' = [scan EXCEPT !.copy = @ + 1, !.built = exec[w].seen]
      BY <2>1 DEF WriteTiles
    <3>3. scan.copy + 1 \in Nat
      BY <1>1 DEF Row
    <3>4. \A c \in Nat, b \in Nat : [scan EXCEPT !.copy = c, !.built = b] \in Row
      BY <1>1 DEF Row, Statuses
    <3>. QED
      BY <3>1, <3>2, <3>3, <3>4
  <2>2. CASE WritePlanned(w) \/ FailPlan(w)
    BY <1>1, <2>2 DEF WritePlanned, FailPlan, Row, Statuses
  <2>. QED
    BY <1>3, <1>7, <2>1, <2>2 DEF PlanStep, NoticePlanCancelled, NoticeChecksStopped,
       ChecksDone
<1>8. ASSUME NEW w \in Workers, RunStep(w) PROVE scan' \in Row
  <2>1. CASE SetRunning(w) \/ BeginFirstLook(w) \/ Finish(w) \/ EndStopped(w)
    BY <1>1, <2>1, ZenonT(30) DEF SetRunning, BeginFirstLook, Finish, EndStopped, Row, Statuses
  <2>2. CASE ~(SetRunning(w) \/ BeginFirstLook(w) \/ Finish(w) \/ EndStopped(w))
    BY <1>3, <1>8, <2>2 DEF RunStep, Guard, NoticeAccessLost, Send, BudgetStop, SkipNext,
       BeginCloseLook, Reply, UnusableReply, MisplacedReply, NoReply, SaveLook,
       SettleReject, SaveFinding, RecordVerdict, VerdictHasNoRow
  <2>. QED
    BY <2>1, <2>2
<1>9. ASSUME NEW w \in Workers, FaultStep(w) PROVE scan' \in Row
  BY <1>3, <1>9 DEF FaultStep, PlanFails, ChecksFail, Raise, BatchTimeout, Crash, Lapse,
     SaveFails
<1>. QED
  BY <1>3, <1>4, <1>5, <1>6, <1>7, <1>8, <1>9 DEF Next, WorkStep, vars

\* Tiles and findings keep their types.
LEMMA TilesStep ==
  TypeOK /\ ExecsSound /\ [Next]_vars =>
    /\ tile' \in [Tiles -> {"skipped", "pending", "failed", "open", "clear", "kept"}]
    /\ found' \subseteq Tiles
    /\ found \subseteq found'
<1>. DEFINE T == [Tiles -> {"skipped", "pending", "failed", "open", "clear", "kept"}]
<1>. DEFINE Typed == tile' \in T /\ found' \subseteq Tiles /\ found \subseteq found'
<1>. SUFFICES ASSUME TypeOK, ExecsSound, [Next]_vars PROVE Typed
  OBVIOUS
<1>1. tile \in T /\ found \subseteq Tiles
  BY DEF TypeOK
<1>2. CASE UNCHANGED <<tile, found>>
  BY <1>1, <1>2
<1>3. CASE RequestStep \/ GoSilent
  BY <1>2, <1>3 DEF RequestStep, GoSilent, AskPlan, AutoWait, WriteResume, Cancel, StopChecks,
     ChangeDrawings, AskChecks, AddJob, LoseJob, Start, AutoStart, Begin, Claim,
     ReadForResume
<1>4. ASSUME NEW w \in Workers, TakeStep(w) PROVE Typed
  BY <1>2, <1>4 DEF TakeStep, TakePlan, TakeChecks, TakeRun, Take
<1>5. ASSUME NEW w \in Workers, PlanStep(w) PROVE Typed
  <2>1. CASE WriteTiles(w)
    BY <1>1, <2>1 DEF WriteTiles
  <2>2. CASE ~WriteTiles(w)
    BY <1>2, <1>5, <2>2 DEF PlanStep, NoticePlanCancelled, WritePlanned, FailPlan,
       NoticeChecksStopped, ChecksDone
  <2>. QED
    BY <2>1, <2>2
<1>6. ASSUME NEW w \in Workers, RunStep(w) PROVE Typed
  <2>1. CASE SkipNext(w)
    BY <1>1, <2>1 DEF SkipNext
  <2>2. ASSUME NEW t \in Tiles,
               SaveLook(w, t) \/ SettleReject(w, t) \/ SaveFinding(w, t) \/ RecordVerdict(w, t)
        PROVE  Typed
    BY <1>1, <2>2 DEF SaveLook, SettleReject, SaveFinding, RecordVerdict
  <2>3. CASE UNCHANGED <<tile, found>>
    BY <1>2, <2>3
  <2>. QED
    BY <1>6, <2>1, <2>2, <2>3 DEF RunStep, SetRunning, BeginFirstLook, Finish, EndStopped,
       Guard, NoticeAccessLost, Send, BudgetStop, BeginCloseLook, Reply, UnusableReply,
       MisplacedReply, NoReply, VerdictHasNoRow
<1>7. ASSUME NEW w \in Workers, FaultStep(w) PROVE Typed
  BY <1>2, <1>7 DEF FaultStep, PlanFails, ChecksFail, Raise, BatchTimeout, Crash, Lapse,
     SaveFails
<1>. QED
  BY <1>2, <1>3, <1>4, <1>5, <1>6, <1>7 DEF Next, WorkStep, vars

\* The queue and the requests keep their types.
LEMMA QueueStep ==
  TypeOK /\ ExecsSound /\ [Next]_vars =>
    /\ adding' \in [Modes -> Nat] /\ jobs' \in [Modes -> Nat]
    /\ resuming' \in [status : Statuses \cup {"none"}, limit : Nat]
<1>. DEFINE Typed == /\ adding' \in [Modes -> Nat] /\ jobs' \in [Modes -> Nat]
                     /\ resuming' \in [status : Statuses \cup {"none"}, limit : Nat]
<1>. SUFFICES ASSUME TypeOK, ExecsSound, [Next]_vars PROVE Typed
  OBVIOUS
<1>1. /\ adding \in [Modes -> Nat] /\ jobs \in [Modes -> Nat]
      /\ resuming \in [status : Statuses \cup {"none"}, limit : Nat]
      /\ scan.status \in Statuses \cup {"none"} /\ scan.limit \in Nat /\ Limits \subseteq Nat
  BY DEF TypeOK, Row
<1>2. CASE UNCHANGED <<adding, jobs, resuming>>
  BY <1>1, <1>2
<1>3. CASE RequestStep \/ GoSilent
  <2>1. CASE AskPlan
    BY <1>1, <2>1 DEF AskPlan, Modes
  <2>2. ASSUME NEW auto \in {"off", "undecided"}, AskChecks(auto) PROVE Typed
    BY <1>1, <2>2 DEF AskChecks, Modes
  <2>3. CASE WriteResume
    BY <1>1, <2>3 DEF WriteResume, Modes, NoResume
  <2>4. ASSUME NEW l \in Limits, Start(l) \/ AutoStart(l) PROVE Typed
    BY <1>1, <2>4 DEF Start, AutoStart, Begin, Modes
  <2>5. ASSUME NEW m \in Modes, AddJob(m) \/ LoseJob(m) PROVE Typed
    BY <1>1, <2>5 DEF AddJob, LoseJob
  <2>6. ASSUME NEW l \in Limits \cup {scan.limit}, ReadForResume(l) PROVE Typed
    BY <1>1, <2>6 DEF ReadForResume
  <2>. QED
    BY <1>2, <1>3, <2>1, <2>2, <2>3, <2>4, <2>5, <2>6 DEF RequestStep, GoSilent, AutoWait,
       Cancel, StopChecks, ChangeDrawings
<1>4. ASSUME NEW w \in Workers, TakeStep(w) PROVE Typed
  BY <1>1, <1>4 DEF TakeStep, TakePlan, TakeChecks, TakeRun, Take, Modes
<1>5. ASSUME NEW w \in Workers, WorkStep(w) PROVE Typed
  BY <1>2, <1>5 DEF WorkStep, PlanStep, NoticePlanCancelled, WriteTiles, WritePlanned, FailPlan,
     NoticeChecksStopped, ChecksDone, RunStep, SetRunning, BeginFirstLook, Finish, EndStopped,
     Guard, NoticeAccessLost, Send, BudgetStop, SkipNext, BeginCloseLook, Reply,
     UnusableReply, MisplacedReply, NoReply, SaveLook, SettleReject, SaveFinding,
     RecordVerdict, VerdictHasNoRow
<1>6. ASSUME NEW w \in Workers, FaultStep(w) PROVE Typed
  <2>1. exec[w].mode \in Modes
    BY DEF ExecsSound, Sound, Exec
  <2>2. CASE Crash(w) \/ Lapse(w)
    BY <1>1, <2>1, <2>2 DEF Crash, Lapse
  <2>3. CASE ~(Crash(w) \/ Lapse(w))
    BY <1>2, <1>6, <2>3 DEF FaultStep, PlanFails, ChecksFail, Raise, BatchTimeout, SaveFails
  <2>. QED
    BY <2>2, <2>3
<1>. QED
  BY <1>2, <1>3, <1>4, <1>5, <1>6 DEF Next, vars

\* Counters, and the RFI scan that prepares the plan, keep their types.
LEMMA CountersStep ==
  TypeOK /\ [Next]_vars =>
    /\ code' \in {"none", "running", "completed", "failed"}
    /\ spent' \in Nat /\ drawings' \in Nat /\ resumes' \in Nat /\ faults' \in Nat
    /\ ceiling' \in Nat /\ repeats' \in Nat /\ doubled' \in BOOLEAN
<1>. DEFINE Typed == /\ code' \in {"none", "running", "completed", "failed"}
                     /\ spent' \in Nat /\ drawings' \in Nat /\ resumes' \in Nat /\ faults' \in Nat
                     /\ ceiling' \in Nat /\ repeats' \in Nat
<1>. SUFFICES ASSUME TypeOK, [Next]_vars PROVE Typed /\ doubled' \in BOOLEAN
  OBVIOUS
<1>1. /\ code \in {"none", "running", "completed", "failed"}
      /\ spent \in Nat /\ drawings \in Nat /\ resumes \in Nat /\ faults \in Nat
      /\ ceiling \in Nat /\ repeats \in Nat
      /\ resuming.limit \in Nat /\ Limits \subseteq Nat
  BY DEF TypeOK
<1>2. doubled \in BOOLEAN
  BY DEF TypeOK
<1>3. CASE RequestStep \/ GoSilent
  <2>1. Typed
    <3>1. CASE WriteResume
      BY <1>1, <3>1 DEF WriteResume, Higher
    <3>2. ASSUME NEW l \in Limits, Start(l) \/ AutoStart(l) PROVE Typed
      BY <1>1, <3>2 DEF Start, AutoStart, Begin, Higher
    <3>3. CASE ChangeDrawings \/ StopChecks
      BY <1>1, <3>3 DEF ChangeDrawings, StopChecks
    <3>4. ASSUME NEW m \in Modes, AddJob(m) \/ LoseJob(m) PROVE Typed
      BY <1>1, <3>4 DEF AddJob, LoseJob
    <3>5. ASSUME NEW l \in Limits \cup {scan.limit}, ReadForResume(l) PROVE Typed
      BY <1>1, <3>5 DEF ReadForResume
    <3>6. ASSUME NEW auto \in {"off", "undecided"}, AskChecks(auto) PROVE Typed
      BY <1>1, <3>6 DEF AskChecks
    <3>7. CASE AskPlan \/ AutoWait \/ Cancel \/ GoSilent
      BY <1>1, <3>7 DEF AskPlan, AutoWait, Cancel, GoSilent
    <3>. QED
      BY <1>3, <3>1, <3>2, <3>3, <3>4, <3>5, <3>6, <3>7 DEF RequestStep
  <2>2. doubled' = doubled
    BY <1>3 DEF RequestStep, GoSilent, AskPlan, AutoWait, WriteResume, Cancel, StopChecks,
       ChangeDrawings, AskChecks, AddJob, LoseJob, Start, AutoStart, Begin, ReadForResume
  <2>. QED
    BY <1>2, <2>1, <2>2
<1>4. ASSUME NEW w \in Workers, TakeStep(w) PROVE Typed /\ doubled' \in BOOLEAN
  <2>1. Typed
    BY <1>1, <1>4 DEF TakeStep, TakePlan, TakeChecks, TakeRun, Take
  <2>2. doubled' \in BOOLEAN
    BY <1>2, <1>4, Zenon DEF TakeStep, TakePlan, TakeChecks, TakeRun, Take
  <2>. QED
    BY <2>1, <2>2
<1>5. ASSUME NEW w \in Workers, WorkStep(w) \/ FaultStep(w) PROVE Typed /\ doubled' \in BOOLEAN
  <2>1. CASE PlanStep(w)
    BY <1>1, <1>2, <2>1 DEF PlanStep, NoticePlanCancelled, WriteTiles, WritePlanned, FailPlan,
       NoticeChecksStopped, ChecksDone
  <2>2. CASE RunStep(w)
    <3>1. doubled' = doubled /\ UNCHANGED <<code, boundVars, ceiling>>
      BY <2>2 DEF RunStep, SetRunning, BeginFirstLook, Finish, EndStopped, Guard,
         NoticeAccessLost, Send, BudgetStop, SkipNext, BeginCloseLook, Reply,
         UnusableReply, MisplacedReply, NoReply, SaveLook, SettleReject, SaveFinding,
         RecordVerdict, VerdictHasNoRow
    <3>2. spent' \in {spent, spent + 1} /\ repeats' \in {repeats, repeats + 1}
      BY <2>2 DEF RunStep, SetRunning, BeginFirstLook, Finish, EndStopped, Guard,
         NoticeAccessLost, Send, BudgetStop, SkipNext, BeginCloseLook, Reply,
         UnusableReply, MisplacedReply, NoReply, SaveLook, SettleReject, SaveFinding,
         RecordVerdict, VerdictHasNoRow
    <3>. QED
      BY <1>1, <1>2, <3>1, <3>2
  <2>3. CASE FaultStep(w)
    <3>1. UNCHANGED <<spent, drawings, resumes, historyVars>> /\ faults' = faults + 1
          /\ code' \in {code, "failed"}
      BY <2>3 DEF FaultStep, PlanFails, ChecksFail, Raise, BatchTimeout, SaveFails,
         Crash, Lapse, Fault
    <3>. QED
      BY <1>1, <1>2, <3>1
  <2>. QED
    BY <1>5, <2>1, <2>2, <2>3 DEF WorkStep
<1>6. CASE UNCHANGED vars
  BY <1>1, <1>2, <1>6 DEF vars
<1>. QED
  BY <1>3, <1>4, <1>5, <1>6 DEF Next

\* A tile is newly kept only by an execution that has saved its finding.
LEMMA KeptStep ==
  ASSUME TypeOK, ExecsSound, KeptIsSaved, SavedIsFound, [Next]_vars
  PROVE  KeptIsSaved' /\ SavedIsFound'
<1>1. ExecsSound' /\ NewSaved
  BY ExecsStep
<1>2. tile \in [Tiles -> {"skipped", "pending", "failed", "open", "clear", "kept"}]
  BY DEF TypeOK
<1>3. found \subseteq found'
  BY TilesStep
<1>4. SavedIsFound'
  BY <1>1, <1>3 DEF SavedIsFound, NewSaved
<1>. DEFINE Kept == \A t \in Tiles : tile'[t] = "kept" => tile[t] = "kept" \/ t \in found
<1>5. CASE UNCHANGED tile
  BY <1>3, <1>4, <1>5 DEF KeptIsSaved
<1>6. CASE RequestStep \/ GoSilent
  BY <1>5, <1>6 DEF RequestStep, GoSilent, AskPlan, AutoWait, WriteResume, Cancel, StopChecks,
     ChangeDrawings, AskChecks, AddJob, LoseJob, Start, AutoStart, Begin, Claim,
     ReadForResume
<1>7. ASSUME NEW w \in Workers, TakeStep(w) \/ PlanStep(w) PROVE Kept
  <2>1. CASE WriteTiles(w)
    BY <2>1 DEF WriteTiles
  <2>2. CASE UNCHANGED tile
    BY <1>2, <2>2
  <2>. QED
    BY <1>7, <2>1, <2>2 DEF TakeStep, TakePlan, TakeChecks, TakeRun, Take, PlanStep,
       NoticePlanCancelled, WritePlanned, FailPlan, NoticeChecksStopped, ChecksDone
<1>8. ASSUME NEW w \in Workers, RunStep(w) PROVE Kept
  <2>1. CASE SkipNext(w)
    BY <1>2, <2>1 DEF SkipNext
  <2>2. ASSUME NEW t \in Tiles, SaveLook(w, t) \/ SettleReject(w, t) PROVE Kept
    BY <1>2, <2>2 DEF SaveLook, SettleReject
  <2>3. ASSUME NEW t \in Tiles, RecordVerdict(w, t) PROVE Kept
    BY <1>2, <2>3 DEF RecordVerdict, SavedIsFound
  <2>4. CASE UNCHANGED tile
    BY <1>2, <2>4
  <2>. QED
    BY <1>8, <2>1, <2>2, <2>3, <2>4 DEF RunStep, SetRunning, BeginFirstLook, Finish,
       EndStopped, Guard, NoticeAccessLost, Send, BudgetStop, BeginCloseLook, Reply,
       UnusableReply, MisplacedReply, NoReply, SaveFinding, VerdictHasNoRow
<1>9. ASSUME NEW w \in Workers, FaultStep(w) PROVE Kept
  BY <1>9 DEF FaultStep, PlanFails, ChecksFail, Raise, BatchTimeout, Crash, Lapse, SaveFails
<1>. QED
  <2>1. CASE Kept
    BY <1>3, <1>4, <2>1 DEF KeptIsSaved
  <2>2. CASE UNCHANGED tile
    BY <1>3, <1>4, <2>2 DEF KeptIsSaved
  <2>. QED
    BY <1>5, <1>6, <1>7, <1>8, <1>9, <2>1, <2>2 DEF Next, WorkStep, vars

\* A resume request goes on only from a scan that it may resume.
LEMMA ReadStep ==
  ReadIsResumable /\ [Next]_vars => ReadIsResumable'
<1>. SUFFICES ASSUME ReadIsResumable, [Next]_vars PROVE ReadIsResumable'
  OBVIOUS
<1>1. CASE UNCHANGED resuming
  BY <1>1 DEF ReadIsResumable
<1>2. ASSUME NEW l, ReadForResume(l) PROVE ReadIsResumable'
  BY <1>2 DEF ReadForResume, CanResume, ShownStatus, ScanIsActive, Active, ReadIsResumable
<1>3. CASE WriteResume
  BY <1>3 DEF WriteResume, NoResume, ReadIsResumable
<1>4. CASE RequestStep \/ GoSilent
  BY <1>1, <1>2, <1>3, <1>4 DEF RequestStep, GoSilent, AskPlan, AutoWait, Cancel, StopChecks,
     ChangeDrawings, AskChecks, AddJob, LoseJob, Start, AutoStart, Begin
<1>5. ASSUME NEW w \in Workers, TakeStep(w) \/ WorkStep(w) \/ FaultStep(w)
      PROVE  UNCHANGED resuming
  BY <1>5 DEF TakeStep, TakePlan, TakeChecks, TakeRun, Take, WorkStep, PlanStep,
     NoticePlanCancelled, WriteTiles, WritePlanned, FailPlan, NoticeChecksStopped, ChecksDone,
     RunStep, SetRunning, BeginFirstLook, Finish, EndStopped, Guard, NoticeAccessLost, Send,
     BudgetStop, SkipNext, BeginCloseLook, Reply, UnusableReply, MisplacedReply, NoReply,
     SaveLook, SettleReject, SaveFinding, RecordVerdict, VerdictHasNoRow, FaultStep,
     PlanFails, ChecksFail, Raise, BatchTimeout, Crash, Lapse, SaveFails
<1>. QED
  BY <1>1, <1>4, <1>5 DEF Next, vars

-----------------------------------------------------------------------------
(* The invariant.                                                          *)

\* The first state satisfies it.
LEMMA InitInv == Init => IInv
<1>. SUFFICES ASSUME Init PROVE IInv
  OBVIOUS
<1>1. \A w \in Workers : exec[w] = NoExec
  BY DEF Init
<1>2. NoExec \in Exec
  BY NoExecSound DEF Sound
<1>3. ExecsSound
  BY <1>1, <1>2, NoExecSound DEF ExecsSound, Init
<1>4. TypeOK
  BY <1>2 DEF Init, TypeOK, Row, Statuses, NoJobs, NoResume, Modes
<1>5. SavedIsFound
  BY <1>1 DEF SavedIsFound, NoExec, NoCalls
<1>6. KeptIsSaved /\ ReadIsResumable
  BY DEF Init, KeptIsSaved, ReadIsResumable, NoResume
<1>. QED
  BY <1>3, <1>4, <1>5, <1>6 DEF IInv

\* Every step keeps it.
LEMMA NextInv == IInv /\ [Next]_vars => IInv'
<1>. SUFFICES ASSUME IInv, [Next]_vars PROVE IInv'
  OBVIOUS
<1>1. TypeOK /\ ExecsSound /\ KeptIsSaved /\ SavedIsFound /\ ReadIsResumable
  BY DEF IInv
<1>2. ExecsSound'
  BY <1>1, ExecsStep
<1>3. TypeOK'
  BY <1>1, <1>2, RowStep, TilesStep, QueueStep, CountersStep DEF TypeOK, ExecsSound
<1>. QED
  BY <1>1, <1>2, <1>3, KeptStep, ReadStep DEF IInv

\* It holds always.
THEOREM Invariant == Spec => []IInv
BY InitInv, NextInv, PTL DEF Spec

\* The row, the tiles, the queue and what executions hold are of their types,
\* whatever happens between the writes of routes/rfiFullScan.ts and
\* fullscan_run.py.
THEOREM TypesHold == Spec => []TypeOK
<1>1. IInv => TypeOK
  BY DEF IInv
<1>. QED
  BY <1>1, Invariant, PTL

\* settle writes the finding before _record_verdict: whatever crashes, repeats
\* or overlaps, a tile that says its problem was kept has its finding on file.
THEOREM KeptHolds == Spec => []KeptIsSaved
<1>1. IInv => KeptIsSaved
  BY DEF IInv
<1>. QED
  BY <1>1, Invariant, PTL

-----------------------------------------------------------------------------
(* What no step may do to the row.                                         *)

\* The status leaves "planned" for "queued" only through the claim.
LEMMA StartStep ==
  ASSUME IInv, [Next]_vars, scan.started, scan.status = "planned"
  PROVE  scan'.status # "queued"
<1>1. ReadIsResumable /\ scan \in Row
  BY DEF IInv, TypeOK
<1>2. CASE UNCHANGED scan
  BY <1>2
<1>3. CASE RequestStep
  <2>1. CASE Cancel \/ AutoWait
    BY <1>1, <2>1 DEF Cancel, AutoWait, Row
  <2>2. CASE WriteResume
    BY <1>1, <2>2 DEF WriteResume, ReadIsResumable
  <2>. QED
    BY <1>2, <1>3, <2>1, <2>2 DEF RequestStep, AskPlan, StopChecks, ChangeDrawings, AskChecks,
       AddJob, LoseJob, Start, AutoStart, Begin, Claim, ReadForResume
<1>4. CASE GoSilent
  BY <1>1, <1>4 DEF GoSilent, Row
<1>5. ASSUME NEW w \in Workers, TakeStep(w) PROVE scan'.status # "queued"
  BY <1>1, <1>5 DEF TakeStep, TakePlan, TakeChecks, TakeRun, Row
<1>6. ASSUME NEW w \in Workers, PlanStep(w) PROVE scan'.status # "queued"
  <2>1. CASE WriteTiles(w)
    <3>1. scan' = [scan EXCEPT !.copy = @ + 1, !.built = exec[w].seen]
      BY <2>1 DEF WriteTiles
    <3>. QED
      BY <1>1, <3>1 DEF Row
  <2>2. CASE WritePlanned(w) \/ FailPlan(w)
    BY <1>1, <2>2 DEF WritePlanned, FailPlan, Row
  <2>. QED
    BY <1>2, <1>6, <2>1, <2>2 DEF PlanStep, NoticePlanCancelled, NoticeChecksStopped,
       ChecksDone
<1>7. ASSUME NEW w \in Workers, RunStep(w) PROVE scan'.status # "queued"
  <2>1. CASE SetRunning(w) \/ BeginFirstLook(w) \/ Finish(w) \/ EndStopped(w)
    BY <1>1, <2>1 DEF SetRunning, BeginFirstLook, Finish, EndStopped, Row
  <2>2. CASE ~(SetRunning(w) \/ BeginFirstLook(w) \/ Finish(w) \/ EndStopped(w))
    BY <1>2, <1>7, <2>2 DEF RunStep, Guard, NoticeAccessLost, Send, BudgetStop, SkipNext,
       BeginCloseLook, Reply, UnusableReply, MisplacedReply, NoReply, SaveLook,
       SettleReject, SaveFinding, RecordVerdict, VerdictHasNoRow
  <2>. QED
    BY <2>1, <2>2
<1>8. ASSUME NEW w \in Workers, FaultStep(w) PROVE UNCHANGED scan
  BY <1>8 DEF FaultStep, PlanFails, ChecksFail, Raise, BatchTimeout, Crash, Lapse,
     SaveFails
<1>. QED
  BY <1>2, <1>3, <1>4, <1>5, <1>6, <1>7, <1>8 DEF Next, WorkStep, vars

\* The start route's and the one-click start's conditional updates: a plan is
\* started once, though a late planner may set the started scan back to
\* planned.
THEOREM StartedHolds == Spec => StartedOnce
<1>1. IInv /\ [Next]_vars =>
        [~(scan.started /\ scan.status = "planned" /\ scan'.status = "queued")]_vars
  BY StartStep
<1>. QED
  BY <1>1, Invariant, PTL DEF Spec, StartedOnce

\* The status leaves "cancelled" only so.
LEMMA CancelStep ==
  ASSUME IInv, [Next]_vars, scan.status = "cancelled", scan'.status # "cancelled"
  PROVE  \E w \in Workers : WritesOverCancel(w)
<1>1. ReadIsResumable /\ scan \in Row /\ \A w \in Workers : Sound(exec[w])
  BY DEF IInv, TypeOK, ExecsSound
<1>2. scan' # scan
  OBVIOUS
<1>3. CASE RequestStep
  <2>1. CASE WriteResume
    BY <1>1, <1>2, <2>1 DEF WriteResume, ReadIsResumable
  <2>. QED
    BY <1>2, <1>3, <2>1 DEF RequestStep, AskPlan, AutoWait, Cancel, StopChecks,
       ChangeDrawings, AskChecks, AddJob, LoseJob, Start, AutoStart, Begin, Claim,
       ReadForResume
<1>4. CASE GoSilent
  BY <1>4 DEF GoSilent, ScanIsActive, Active
<1>5. ASSUME NEW w \in Workers, TakeStep(w) PROVE FALSE
  BY <1>1, <1>2, <1>5 DEF TakeStep, TakePlan, TakeChecks, TakeRun, Row
<1>6. ASSUME NEW w \in Workers, PlanStep(w) PROVE WritesOverCancel(w)
  <2>1. CASE WriteTiles(w)
    <3>1. scan' = [scan EXCEPT !.copy = @ + 1, !.built = exec[w].seen]
      BY <2>1 DEF WriteTiles
    <3>. QED
      BY <1>1, <3>1 DEF Row
  <2>2. CASE WritePlanned(w) \/ FailPlan(w)
    BY <1>1, <2>2 DEF WritePlanned, FailPlan, At, WritesOverCancel, Row
  <2>. QED
    BY <1>2, <1>6, <2>1, <2>2 DEF PlanStep, NoticePlanCancelled, NoticeChecksStopped,
       ChecksDone
<1>7. ASSUME NEW w \in Workers, RunStep(w) PROVE WritesOverCancel(w)
  <2>1. CASE SetRunning(w)
    BY <1>1, <2>1 DEF SetRunning, At, WritesOverCancel, Row
  <2>2. CASE BeginFirstLook(w)
    BY <1>1, <2>2 DEF BeginFirstLook, Row
  <2>3. CASE Finish(w) \/ EndStopped(w)
    <3>1. /\ At(w, "close") \/ exec[w].stop # "no"
          /\ exec[w].todo = {} /\ exec[w].next = NoTile /\ InFlight(w) = {}
      BY <1>1, <2>3 DEF Finish, EndStopped, Sound, Shaped
    <3>2. ~Live(w)'
      BY <2>3 DEF Finish, EndStopped, Quit, Becomes, ExecsSound, IInv, Live, NoExec
    <3>. QED
      BY <3>1, <3>2 DEF WritesOverCancel, Asks
  <2>. QED
    BY <1>2, <1>7, <2>1, <2>2, <2>3 DEF RunStep, Guard, NoticeAccessLost, Send, BudgetStop,
       SkipNext, BeginCloseLook, Reply, UnusableReply, MisplacedReply, NoReply, SaveLook,
       SettleReject, SaveFinding, RecordVerdict, VerdictHasNoRow
<1>8. ASSUME NEW w \in Workers, FaultStep(w) PROVE UNCHANGED scan
  BY <1>8 DEF FaultStep, PlanFails, ChecksFail, Raise, BatchTimeout, Crash, Lapse,
     SaveFails
<1>. QED
  BY <1>2, <1>3, <1>4, <1>5, <1>6, <1>7, <1>8 DEF Next, WorkStep, vars

\* A cancel stands against every writer but the unconditional writes of run,
\* write_plan and finish.
THEOREM CancelHolds == Spec => CancelStays
<1>1. IInv /\ [Next]_vars =>
        [scan.status = "cancelled" /\ scan'.status # "cancelled" =>
           \E w \in Workers : WritesOverCancel(w)]_vars
  BY CancelStep
<1>. QED
  BY <1>1, Invariant, PTL DEF Spec, CancelStays

-----------------------------------------------------------------------------
(* One execution at a time.  What follows holds until a job is delivered   *)
(* again to a second execution while the first goes on.                    *)

\* An execution that still writes the row or its tiles.
Handling(w) == exec[w].pc \notin {"idle", "rest"}

OneInHand ==
  ~doubled => \A v, w \in Workers : Handling(v) /\ Handling(w) => v = w

\* There is a row before there is an execution, and an RFI scan that is past
\* its plan never finds the row planning again.
HasRow ==
  /\ \A w \in Workers : Live(w) => scan.status # "none"
  /\ \A w \in Workers : At(w, "rest") => scan.status # "planning"
  /\ code # "none" => scan.status # "none"

HandInv == IInv /\ OneInHand /\ HasRow

\* What one execution comes to hold, and that the others keep theirs.
LEMMA BecomesGives ==
  ASSUME ExecsSound, NEW w \in Workers, NEW e, Becomes(w, e)
  PROVE  exec'[w] = e /\ \A v \in Workers \ {w} : exec'[v] = exec[v]
BY DEF ExecsSound, Becomes

\* A step of an execution leaves the others alone.
Alone(w) == \A v \in Workers \ {w} : exec'[v] = exec[v]

\* The steps of a run and of a plan are steps of one execution.
LEMMA WorkIsAlone ==
  ASSUME ExecsSound, NEW w \in Workers, WorkStep(w) \/ FaultStep(w)
  PROVE  Alone(w) /\ UNCHANGED doubled
<1>1. \A e : Becomes(w, e) => Alone(w)
  BY BecomesGives DEF Alone
<1>2. \A t, c : SetCall(w, t, c) => Alone(w)
  BY <1>1 DEF SetCall
<1>3. \A why : StopFor(w, why) => Alone(w)
  BY <1>1 DEF StopFor
<1>4. (\A pc : Goto(w, pc) => Alone(w)) /\ (Quit(w) => Alone(w)) /\ (AfterPlan(w) => Alone(w))
  BY <1>1 DEF Goto, Quit, AfterPlan
<1>5. CASE PlanStep(w)
  BY <1>4, <1>5 DEF PlanStep, NoticePlanCancelled, WriteTiles, WritePlanned, FailPlan,
     NoticeChecksStopped, ChecksDone
<1>6. CASE FaultStep(w)
  BY <1>1, <1>3, <1>4, <1>6 DEF FaultStep, PlanFails, ChecksFail, Raise, BatchTimeout, Crash,
     Lapse, SaveFails
<1>7. CASE RunStep(w)
  <2>1. CASE SetRunning(w) \/ Finish(w) \/ EndStopped(w) \/ BeginCloseLook(w) \/ Send(w)
    BY <1>1, <1>4, <2>1 DEF SetRunning, Finish, EndStopped, BeginCloseLook, Send
  <2>2. CASE BeginFirstLook(w) \/ Guard(w) \/ NoticeAccessLost(w) \/ BudgetStop(w) \/ SkipNext(w)
    BY <1>1, <1>3, <2>2 DEF BeginFirstLook, Guard, NoticeAccessLost, BudgetStop, SkipNext
  <2>3. ASSUME NEW t \in Tiles,
               \/ Reply(w, t) \/ UnusableReply(w, t)
               \/ MisplacedReply(w, t) \/ NoReply(w, t) \/ SaveLook(w, t)
               \/ SettleReject(w, t) \/ SaveFinding(w, t) \/ RecordVerdict(w, t)
               \/ VerdictHasNoRow(w, t)
        PROVE  Alone(w) /\ UNCHANGED doubled
    BY <1>1, <1>2, <2>3 DEF Reply, UnusableReply, MisplacedReply, NoReply, SaveLook,
       SettleReject, SaveFinding, RecordVerdict, VerdictHasNoRow
  <2>. QED
    BY <1>7, <2>1, <2>2, <2>3 DEF RunStep
<1>. QED
  BY <1>5, <1>6, <1>7 DEF WorkStep

\* An execution that has let go of the row takes it up only as a new job.
LEMMA WorkKeepsHand ==
  ASSUME ExecsSound, HasRow, NEW w \in Workers, WorkStep(w) \/ FaultStep(w), Handling(w)'
  PROVE  Handling(w)
<1>. SUFFICES ASSUME ~Handling(w) PROVE FALSE
  OBVIOUS
<1>1. exec[w].pc \in {"idle", "rest"} /\ Sound(exec[w]) /\ exec[w] \in Exec
  BY DEF Handling, ExecsSound, Sound
<1>2. /\ exec[w].next = NoTile /\ exec[w].stop = "no"
      /\ \A t \in Tiles : exec[w].call[t] = "none"
  BY <1>1 DEF Sound, Shaped
<1>3. ~RunStep(w)
  BY <1>1, <1>2 DEF RunStep, SetRunning, BeginFirstLook, Finish, EndStopped, Guard, Looking,
     NoticeAccessLost, Send, BudgetStop, SkipNext, BeginCloseLook, Reply, UnusableReply,
     MisplacedReply, NoReply, SaveLook, SettleReject, SaveFinding, RecordVerdict,
     VerdictHasNoRow, At
<1>4. ~Quit(w)
  BY BecomesGives DEF Quit, NoExec, Handling
<1>5. ~PlanStep(w)
  BY <1>1, <1>4 DEF PlanStep, NoticePlanCancelled, WriteTiles, WritePlanned, FailPlan,
     NoticeChecksStopped, ChecksDone, At, HasRow, Live
<1>6. ~Lapse(w)
  <2>1. SUFFICES ASSUME Lapse(w) PROVE FALSE
    OBVIOUS
  <2>2. exec'[w] = [exec[w] EXCEPT !.late = TRUE]
    BY <2>1, BecomesGives DEF Lapse
  <2>. QED
    BY <1>1, <2>2 DEF Handling, Exec
<1>7. ~FaultStep(w)
  BY <1>1, <1>2, <1>4, <1>6 DEF FaultStep, PlanFails, ChecksFail, Raise, BatchTimeout, Crash,
     SaveFails, At, HasRow, Live
<1>. QED
  BY <1>3, <1>5, <1>7 DEF WorkStep

\* Taking a job leaves the status and the tiles, and gives the row to a second
\* execution only as the history says.
LEMMA TakeHand ==
  ASSUME TypeOK, ExecsSound, NEW w \in Workers, TakeStep(w)
  PROVE  /\ Alone(w) /\ ~Live(w)
         /\ scan'.status = scan.status
         /\ UNCHANGED <<code, tile, spent, ceiling, repeats>>
         /\ doubled => doubled'
         /\ Handling(w)' => scan.status \in {"planning", "queued", "running"}
                            /\ (InHand(w) => doubled')
         /\ Live(w)' => scan.status # "none" \/ code # "none"
         /\ At(w, "rest")' => scan.status # "planning"
         /\ scan'.limit = scan.limit
         /\ \/ exec'[w] = exec[w]
            \/ /\ exec'[w].pc \notin {"first", "close"} /\ exec'[w].call = NoCalls
               /\ exec'[w].limit \in {0, scan.limit}
<1>1. scan \in Row /\ exec \in [Workers -> Exec]
  BY DEF TypeOK
<1>. DEFINE Common == /\ Alone(w) /\ ~Live(w) /\ UNCHANGED <<code, tile, spent, ceiling, repeats>>
                      /\ doubled => doubled'
<1>2. ASSUME NEW m, NEW wanted, NEW e, e \in Exec, Take(w, m, wanted, e), m \in Modes
      PROVE  /\ Common
             /\ exec'[w] = exec[w] \/ (wanted /\ exec'[w] = [e EXCEPT !.mode = m])
             /\ wanted /\ e.pc # "rest" /\ InHand(w) => doubled'
  <2>1. \A f : Becomes(w, f) => Alone(w) /\ exec'[w] = f
    BY BecomesGives DEF Alone
  <2>2. Common
    BY <1>2, <2>1 DEF Take, Alone
  <2>3. exec'[w] = exec[w] \/ (wanted /\ exec'[w] = [e EXCEPT !.mode = m])
    BY <1>2, <2>1 DEF Take
  <2>4. wanted /\ e.pc # "rest" /\ InHand(w) => doubled'
    BY <1>2, Zenon DEF Take
  <2>. QED
    BY <2>2, <2>3, <2>4
<1>3. CASE TakePlan(w)
  <2>. DEFINE e == [NoExec EXCEPT !.pc = "planning", !.seen = drawings]
  <2>1. e \in Exec /\ e.pc = "planning" /\ e.call = NoCalls /\ e.limit = 0
    BY DEF NoExec, NoCalls, Exec, Modes, TypeOK
  <2>2. Take(w, "plan", scan.status = "planning", e) /\ "plan" \in Modes
        /\ scan'.status = scan.status /\ scan'.limit = scan.limit
    BY <1>1, <1>3 DEF TakePlan, Modes, Row
  <2>. HIDE DEF e
  <2>3. /\ Common
        /\ exec'[w] = exec[w] \/ (scan.status = "planning" /\ exec'[w] = [e EXCEPT !.mode = "plan"])
        /\ scan.status = "planning" /\ e.pc # "rest" /\ InHand(w) => doubled'
    BY <1>2, <2>1, <2>2
  <2>. QED
    BY <2>1, <2>2, <2>3 DEF Exec, Handling, Live, At
<1>4. CASE TakeChecks(w)
  <2>. DEFINE pc == IF scan.status = "planning" THEN "planning" ELSE "rest"
  <2>. DEFINE e == [NoExec EXCEPT !.pc = pc, !.seen = drawings]
  <2>1. e \in Exec /\ e.pc = pc /\ e.call = NoCalls /\ e.limit = 0
    BY DEF NoExec, NoCalls, Exec, Modes, TypeOK
  <2>2. Take(w, "checks", code = "running", e) /\ "checks" \in Modes
        /\ scan'.status = scan.status /\ scan'.limit = scan.limit
    BY <1>1, <1>4 DEF TakeChecks, Modes, Row
  <2>. HIDE DEF e
  <2>3. /\ Common
        /\ exec'[w] = exec[w] \/ (code = "running" /\ exec'[w] = [e EXCEPT !.mode = "checks"])
        /\ code = "running" /\ e.pc # "rest" /\ InHand(w) => doubled'
    BY <1>2, <2>1, <2>2
  <2>. QED
    BY <2>1, <2>2, <2>3 DEF Exec, Handling, Live, At
<1>5. CASE TakeRun(w)
  <2>. DEFINE e == [NoExec EXCEPT !.pc = "taken", !.limit = scan.limit, !.seen = scan.sourced]
  <2>1. e \in Exec /\ e.pc = "taken" /\ e.call = NoCalls /\ e.limit = scan.limit
    BY <1>1 DEF NoExec, NoCalls, Exec, Modes, Row
  <2>2. Take(w, "run", scan.status \in {"queued", "running"}, e) /\ "run" \in Modes
        /\ scan' = scan
    BY <1>5 DEF TakeRun, Modes
  <2>. HIDE DEF e
  <2>3. /\ Common
        /\ exec'[w] = exec[w] \/ (scan.status \in {"queued", "running"} /\ exec'[w] = [e EXCEPT !.mode = "run"])
        /\ scan.status \in {"queued", "running"} /\ e.pc # "rest" /\ InHand(w) => doubled'
    BY <1>2, <2>1, <2>2
  <2>. QED
    BY <2>1, <2>2, <2>3 DEF Exec, Handling, Live, At
<1>. QED
  BY <1>3, <1>4, <1>5 DEF TakeStep

\* A row stays, is planned once, and is ready only when a run finishes.
LEMMA StatusStep ==
  ASSUME TypeOK, ExecsSound, [Next]_vars
  PROVE  /\ scan'.status = "none" => scan.status = "none"
         /\ scan'.status = "planning" => scan.status \in {"none", "planning"}
         /\ scan'.status = "ready" =>
              scan.status = "ready" \/ \E w \in Workers : Finish(w)
<1>. DEFINE Good == /\ scan'.status = "none" => scan.status = "none"
                    /\ scan'.status = "planning" => scan.status \in {"none", "planning"}
                    /\ scan'.status = "ready" =>
                         scan.status = "ready" \/ \E w \in Workers : Finish(w)
<1>1. scan \in Row
  BY DEF TypeOK
<1>2. CASE scan'.status = scan.status
  BY <1>2
<1>3. CASE UNCHANGED scan
  BY <1>3
<1>4. CASE RequestStep
  <2>1. CASE AskPlan \/ Cancel
    BY <1>1, <2>1 DEF AskPlan, Cancel, Row
  <2>2. CASE AutoWait
    BY <1>1, <1>2, <2>2 DEF AutoWait, Row
  <2>3. CASE WriteResume
    BY <1>1, <2>3 DEF WriteResume, Row
  <2>4. ASSUME NEW auto \in {"off", "undecided"}, AskChecks(auto) PROVE Good
    BY <1>1, <2>4 DEF AskChecks, Row
  <2>5. ASSUME NEW l \in Limits, Start(l) \/ AutoStart(l) PROVE Good
    BY <1>1, <2>5 DEF Start, AutoStart, Begin, Claim, Row
  <2>. QED
    BY <1>3, <1>4, <2>1, <2>2, <2>3, <2>4, <2>5 DEF RequestStep, StopChecks, ChangeDrawings,
       AddJob, LoseJob, ReadForResume
<1>5. CASE GoSilent
  BY <1>1, <1>2, <1>5 DEF GoSilent, Row
<1>6. ASSUME NEW w \in Workers, TakeStep(w) PROVE Good
  BY <1>2, <1>6, TakeHand
<1>7. ASSUME NEW w \in Workers, PlanStep(w) PROVE Good
  <2>1. CASE WriteTiles(w)
    <3>1. scan' = [scan EXCEPT !.copy = @ + 1, !.built = exec[w].seen]
      BY <2>1 DEF WriteTiles
    <3>. QED
      BY <1>1, <1>2, <3>1 DEF Row
  <2>2. CASE WritePlanned(w) \/ FailPlan(w)
    BY <1>1, <2>2 DEF WritePlanned, FailPlan, Row
  <2>. QED
    BY <1>3, <1>7, <2>1, <2>2 DEF PlanStep, NoticePlanCancelled, NoticeChecksStopped,
       ChecksDone
<1>8. ASSUME NEW w \in Workers, RunStep(w) PROVE Good
  <2>1. CASE SetRunning(w) \/ EndStopped(w)
    BY <1>1, <2>1 DEF SetRunning, EndStopped, Row
  <2>2. CASE Finish(w)
    <3>1. scan'.status \in {"partial", "ready"}
      BY <1>1, <2>2 DEF Finish, Row
    <3>. QED
      BY <2>2, <3>1
  <2>3. CASE BeginFirstLook(w)
    BY <1>1, <1>2, <2>3 DEF BeginFirstLook, Row
  <2>. QED
    BY <1>3, <1>8, <2>1, <2>2, <2>3 DEF RunStep, Guard, NoticeAccessLost, Send, BudgetStop,
       SkipNext, BeginCloseLook, Reply, UnusableReply, MisplacedReply, NoReply, SaveLook,
       SettleReject, SaveFinding, RecordVerdict, VerdictHasNoRow
<1>9. ASSUME NEW w \in Workers, FaultStep(w) PROVE Good
  BY <1>3, <1>9 DEF FaultStep, PlanFails, ChecksFail, Raise, BatchTimeout, Crash, Lapse,
     SaveFails
<1>. QED
  BY <1>3, <1>4, <1>5, <1>6, <1>7, <1>8, <1>9 DEF Next, WorkStep, vars

\* Only a live execution works, and it rests only past its plan.
LEMMA WorkIsLive ==
  ASSUME TypeOK, ExecsSound, HasRow, NEW w \in Workers, WorkStep(w) \/ FaultStep(w)
  PROVE  /\ Live(w)
         /\ At(w, "rest")' => At(w, "rest") \/ scan'.status # "planning"
<1>1. Sound(exec[w]) /\ exec[w] \in Exec /\ scan \in Row
  BY DEF ExecsSound, Sound, TypeOK
<1>2. Live(w)
  <2>. SUFFICES ASSUME ~Live(w) PROVE FALSE
    OBVIOUS
  <2>1. /\ exec[w].pc = "idle" /\ exec[w].next = NoTile /\ exec[w].stop = "no"
        /\ \A t \in Tiles : exec[w].call[t] = "none"
    BY <1>1 DEF Live, Sound, Shaped
  <2>2. ~RunStep(w)
    BY <2>1 DEF RunStep, SetRunning, BeginFirstLook, Finish, EndStopped, Guard, Looking,
       NoticeAccessLost, Send, BudgetStop, SkipNext, BeginCloseLook, Reply, UnusableReply,
       MisplacedReply, NoReply, SaveLook, SettleReject, SaveFinding, RecordVerdict,
       VerdictHasNoRow, At
  <2>3. ~PlanStep(w)
    BY <2>1 DEF PlanStep, NoticePlanCancelled, WriteTiles, WritePlanned, FailPlan,
       NoticeChecksStopped, ChecksDone, At
  <2>4. ~FaultStep(w)
    BY <2>1 DEF FaultStep, PlanFails, ChecksFail, Raise, BatchTimeout, Crash, Lapse,
       SaveFails, At, Live
  <2>. QED
    BY <2>2, <2>3, <2>4 DEF WorkStep
<1>3. ASSUME At(w, "rest")', ~At(w, "rest") PROVE scan'.status # "planning"
  <2>1. \A e : Becomes(w, e) => exec'[w] = e
    BY BecomesGives
  <2>2. ~Quit(w)
    BY <1>3, <2>1 DEF Quit, At, NoExec
  <2>3. ASSUME NEW pc, Goto(w, pc) PROVE pc = "rest"
    <3>1. exec'[w] = [exec[w] EXCEPT !.pc = pc]
      BY <2>1, <2>3 DEF Goto
    <3>. QED
      BY <1>1, <1>3, <3>1 DEF At, Exec
  <2>4. PlanStep(w) => scan'.status # "planning"
    <3>. SUFFICES ASSUME PlanStep(w) PROVE scan'.status # "planning"
      OBVIOUS
    <3>1. CASE NoticePlanCancelled(w)
      BY <3>1 DEF NoticePlanCancelled
    <3>2. CASE WritePlanned(w) \/ FailPlan(w)
      BY <1>1, <3>2 DEF WritePlanned, FailPlan, Row
    <3>3. CASE WriteTiles(w) \/ NoticeChecksStopped(w) \/ ChecksDone(w)
      BY <2>2, <2>3, <3>3 DEF WriteTiles, NoticeChecksStopped, ChecksDone
    <3>. QED
      BY <3>1, <3>2, <3>3 DEF PlanStep
  <2>5. FaultStep(w) => scan'.status # "planning"
    <3>. SUFFICES ASSUME FaultStep(w) PROVE scan'.status # "planning"
      OBVIOUS
    <3>1. CASE PlanFails(w)
      BY <2>2, <2>3, <3>1 DEF PlanFails
    <3>2. CASE ChecksFail(w) \/ Crash(w)
      BY <2>2, <2>3, <3>2 DEF ChecksFail, Crash
    <3>3. ASSUME NEW e, e.pc = exec[w].pc, Becomes(w, e) PROVE FALSE
      BY <1>3, <2>1, <3>3 DEF At
    <3>4. CASE Raise(w) \/ Lapse(w)
      BY <1>1, <3>3, <3>4 DEF Raise, Lapse, StopFor, Exec
    <3>5. ASSUME NEW t \in Tiles, SaveFails(w, t) PROVE FALSE
      BY <1>1, <3>3, <3>5 DEF SaveFails, Exec
    <3>6. CASE BatchTimeout(w)
      BY <1>1, <3>3, <3>6 DEF BatchTimeout, Exec
    <3>. QED
      BY <3>1, <3>2, <3>4, <3>5, <3>6 DEF FaultStep
  <2>6. ~RunStep(w)
    <3>. SUFFICES ASSUME RunStep(w) PROVE FALSE
      OBVIOUS
    <3>1. ASSUME NEW e, e.pc # "rest", Becomes(w, e) PROVE FALSE
      BY <1>3, <2>1, <3>1 DEF At
    <3>2. exec[w].pc # "rest"
      BY <1>3 DEF At
    <3>3. ~(SetRunning(w) \/ Finish(w) \/ EndStopped(w))
      BY <2>2, <2>3 DEF SetRunning, Finish, EndStopped
    <3>4. \A t, c : ~SetCall(w, t, c)
      BY <1>1, <3>1, <3>2 DEF SetCall, Exec
    <3>5. \A why : ~StopFor(w, why)
      BY <1>1, <3>1, <3>2 DEF StopFor, Exec
    <3>6. ~(BeginFirstLook(w) \/ BeginCloseLook(w))
      BY <1>1, <3>1, <3>5 DEF BeginFirstLook, BeginCloseLook, Exec
    <3>7. ~(Guard(w) \/ NoticeAccessLost(w) \/ BudgetStop(w))
      BY <1>1, <3>1, <3>2, <3>5 DEF Guard, NoticeAccessLost, BudgetStop, Exec
    <3>8. ~(Send(w) \/ SkipNext(w))
      BY <1>1, <3>1, <3>2, <3>5 DEF Send, SkipNext, Exec
    <3>9. ASSUME NEW t \in Tiles, VerdictHasNoRow(w, t) PROVE FALSE
      BY <1>1, <3>1, <3>2, <3>9 DEF VerdictHasNoRow, Exec
    <3>. QED
      BY <3>3, <3>4, <3>6, <3>7, <3>8, <3>9 DEF RunStep, Reply, UnusableReply, MisplacedReply,
         NoReply, SaveLook, SettleReject, SaveFinding, RecordVerdict
  <2>. QED
    BY <2>4, <2>5, <2>6 DEF WorkStep
<1>. QED
  BY <1>2, <1>3

\* Requests and time leave executions and tiles alone.
LEMMA RequestFrame ==
  ASSUME RequestStep \/ GoSilent
  PROVE  UNCHANGED <<exec, tile, found, spent, repeats, doubled>>
BY DEF RequestStep, GoSilent, AskPlan, AutoWait, WriteResume, Cancel, StopChecks,
   ChangeDrawings, AskChecks, AddJob, LoseJob, Start, AutoStart, Begin, ReadForResume

\* The row keeps being there for every execution.
LEMMA HasRowStep ==
  ASSUME IInv, HasRow, [Next]_vars
  PROVE  HasRow'
<1>1. TypeOK /\ ExecsSound
  BY DEF IInv
<1>2. /\ scan'.status = "none" => scan.status = "none"
      /\ scan'.status = "planning" => scan.status \in {"none", "planning"}
  BY <1>1, StatusStep
<1>3. CASE UNCHANGED <<exec, code>>
  BY <1>2, <1>3 DEF HasRow, Live, At
<1>4. CASE RequestStep \/ GoSilent
  <2>1. CASE UNCHANGED code
    BY <1>3, <1>4, <2>1, RequestFrame
  <2>2. CASE StopChecks
    <3>1. UNCHANGED <<scan, exec>> /\ code = "running"
      BY <2>2 DEF StopChecks
    <3>. QED
      BY <3>1 DEF HasRow, Live, At
  <2>3. ASSUME NEW auto \in {"off", "undecided"}, AskChecks(auto) PROVE HasRow'
    <3>1. scan.status = "none" /\ scan'.status = "planning" /\ UNCHANGED exec
      BY <1>1, <2>3 DEF AskChecks, TypeOK, Row
    <3>. QED
      BY <3>1 DEF HasRow, Live, At
  <2>. QED
    BY <1>4, <2>1, <2>2, <2>3 DEF RequestStep, GoSilent, AskPlan, AutoWait, WriteResume, Cancel,
       ChangeDrawings, AddJob, LoseJob, Start, AutoStart, Begin, ReadForResume
<1>5. ASSUME NEW w \in Workers, TakeStep(w) PROVE HasRow'
  <2>1. /\ Alone(w) /\ scan'.status = scan.status /\ UNCHANGED code
        /\ Live(w)' => scan.status # "none" \/ code # "none"
        /\ At(w, "rest")' => scan.status # "planning"
    BY <1>1, <1>5, TakeHand
  <2>. QED
    BY <2>1 DEF HasRow, Live, At, Alone
<1>6. ASSUME NEW w \in Workers, WorkStep(w) \/ FaultStep(w) PROVE HasRow'
  <2>1. Alone(w) /\ Live(w) /\ (At(w, "rest")' => At(w, "rest") \/ scan'.status # "planning")
    BY <1>1, <1>6, WorkIsAlone, WorkIsLive
  <2>. QED
    BY <1>2, <2>1 DEF HasRow, Live, At, Alone
<1>. QED
  BY <1>3, <1>4, <1>5, <1>6 DEF Next, vars

\* A second execution takes the row only when the history says so.
LEMMA OneInHandStep ==
  ASSUME IInv, OneInHand, HasRow, [Next]_vars
  PROVE  OneInHand'
<1>1. TypeOK /\ ExecsSound
  BY DEF IInv
<1>2. CASE UNCHANGED <<exec, doubled>>
  BY <1>2 DEF OneInHand, Handling
<1>3. CASE RequestStep \/ GoSilent
  BY <1>2, <1>3, RequestFrame
<1>4. ASSUME NEW w \in Workers, TakeStep(w) PROVE OneInHand'
  <2>1. Alone(w) /\ (doubled => doubled') /\ (Handling(w)' => (InHand(w) => doubled'))
    BY <1>1, <1>4, TakeHand
  <2>. QED
    BY <2>1 DEF OneInHand, Handling, Alone, InHand
<1>5. ASSUME NEW w \in Workers, WorkStep(w) \/ FaultStep(w) PROVE OneInHand'
  <2>1. Alone(w) /\ UNCHANGED doubled /\ (Handling(w)' => Handling(w))
    BY <1>1, <1>5, WorkIsAlone, WorkKeepsHand
  <2>. QED
    BY <2>1 DEF OneInHand, Handling, Alone
<1>. QED
  BY <1>2, <1>3, <1>4, <1>5 DEF Next, vars

\* One execution at a time, always.
THEOREM HandInvariant == Spec => []HandInv
<1>1. Init => OneInHand /\ HasRow
  BY DEF Init, OneInHand, HasRow, Handling, Live, At, NoExec
<1>2. HandInv /\ [Next]_vars => HandInv'
  BY NextInv, HasRowStep, OneInHandStep DEF HandInv
<1>. QED
  BY <1>1, <1>2, InitInv, PTL DEF Spec, HandInv

-----------------------------------------------------------------------------
(* A scan that is ready.                                                   *)

Complete == \A t \in Tiles : tile[t] \in {"skipped", "clear", "kept"}

\* A ready scan is complete, and nobody has it in hand.
ReadyRests ==
  ~doubled /\ scan.status = "ready" => Complete /\ \A w \in Workers : ~Handling(w)

\* Only an execution with the row in hand writes tiles.
LEMMA TilesNeedHand ==
  ASSUME ExecsSound, NEW w \in Workers, WorkStep(w) \/ FaultStep(w), ~Handling(w)
  PROVE  UNCHANGED tile
<1>1. exec[w].pc \in {"idle", "rest"} /\ exec[w].next = NoTile
  BY DEF Handling, ExecsSound, Sound, Shaped
<1>. QED
  BY <1>1 DEF WorkStep, PlanStep, NoticePlanCancelled, WriteTiles, WritePlanned, FailPlan,
     NoticeChecksStopped, ChecksDone, RunStep, SetRunning, BeginFirstLook, Finish, EndStopped,
     Guard, NoticeAccessLost, Send, BudgetStop, SkipNext, BeginCloseLook, Reply, UnusableReply,
     MisplacedReply, NoReply, SaveLook, SettleReject, SaveFinding, RecordVerdict,
     VerdictHasNoRow, FaultStep, PlanFails, ChecksFail, Raise, BatchTimeout, Crash, Lapse,
     SaveFails, At

\* Every step keeps a ready scan complete.
LEMMA ReadyStep ==
  ASSUME HandInv, ReadyRests, [Next]_vars
  PROVE  ReadyRests'
<1>. SUFFICES ASSUME ~doubled', scan'.status = "ready"
              PROVE  Complete' /\ \A w \in Workers : ~Handling(w)'
  BY DEF ReadyRests
<1>1. TypeOK /\ ExecsSound /\ OneInHand /\ HasRow
  BY DEF HandInv, IInv
<1>2. ~doubled
  <2>1. ASSUME NEW w \in Workers, TakeStep(w) PROVE doubled => doubled'
    BY <1>1, <2>1, TakeHand
  <2>2. ASSUME NEW w \in Workers, WorkStep(w) \/ FaultStep(w) PROVE UNCHANGED doubled
    BY <1>1, <2>2, WorkIsAlone
  <2>. QED
    BY <2>1, <2>2, RequestFrame DEF Next, vars
<1>3. scan.status = "ready" \/ \E w \in Workers : Finish(w)
  BY <1>1, StatusStep
<1>4. ASSUME NEW w \in Workers, Finish(w)
      PROVE  Complete' /\ \A v \in Workers : ~Handling(v)'
  <2>1. tile \in [Tiles -> {"skipped", "pending", "failed", "open", "clear", "kept"}]
    BY <1>1 DEF TypeOK
  <2>2. Unfinished = {} /\ UNCHANGED tile /\ Quit(w)
    BY <1>1, <1>4 DEF Finish, TypeOK, Row
  <2>3. Complete'
    BY <2>1, <2>2 DEF Complete, Unfinished, PendingTiles, OpenTiles
  <2>4. exec'[w] = NoExec /\ \A v \in Workers \ {w} : exec'[v] = exec[v]
    BY <1>1, <2>2, BecomesGives DEF Quit
  <2>5. Handling(w)
    BY <1>1, <1>4 DEF Finish, At, Handling, ExecsSound, Sound, Shaped
  <2>. QED
    BY <1>1, <1>2, <2>3, <2>4, <2>5 DEF OneInHand, Handling, NoExec
<1>5. CASE scan.status = "ready"
  <2>1. Complete /\ \A w \in Workers : ~Handling(w)
    BY <1>2, <1>5 DEF ReadyRests
  <2>2. CASE UNCHANGED <<tile, exec>>
    BY <2>1, <2>2 DEF Complete, Handling
  <2>3. ASSUME NEW w \in Workers, TakeStep(w)
        PROVE  Complete' /\ \A v \in Workers : ~Handling(v)'
    <3>1. /\ Alone(w) /\ UNCHANGED tile
          /\ Handling(w)' => scan.status \in {"planning", "queued", "running"}
      BY <1>1, <2>3, TakeHand
    <3>. QED
      BY <1>5, <2>1, <3>1 DEF Alone, Handling, Complete
  <2>4. ASSUME NEW w \in Workers, WorkStep(w) \/ FaultStep(w)
        PROVE  Complete' /\ \A v \in Workers : ~Handling(v)'
    <3>1. Alone(w) /\ (Handling(w)' => Handling(w)) /\ UNCHANGED tile
      BY <1>1, <2>1, <2>4, WorkIsAlone, WorkKeepsHand, TilesNeedHand
    <3>. QED
      BY <2>1, <3>1 DEF Alone, Handling, Complete
  <2>. QED
    BY <2>2, <2>3, <2>4, RequestFrame DEF Next, vars
<1>. QED
  BY <1>3, <1>4, <1>5

\* finish calls a scan ready only with a verdict on everything it planned to
\* look at, and nothing undoes that, until two executions share the scan.
THEOREM ReadyHolds == Spec => []ReadyIsComplete
<1>1. Init => ReadyRests
  BY DEF Init, ReadyRests
<1>2. HandInv /\ ReadyRests /\ [Next]_vars => ReadyRests'
  BY ReadyStep
<1>3. ReadyRests => ReadyIsComplete
  BY DEF ReadyRests, ReadyIsComplete, Complete
<1>. QED
  BY <1>1, <1>2, <1>3, HandInvariant, PTL DEF Spec

-----------------------------------------------------------------------------
(* What an execution asks for, and what it has asked.                      *)

\* Calls that nobody has paid for yet.
Asked(w) == {t \in Tiles : exec[w].call[t] \in {"sent", "again", "repair"}}

\* A step after which an execution is not looking.
Ends(w) == /\ exec'[w].pc \notin {"first", "close"}
           /\ exec'[w].limit \in {0, exec[w].limit}
           /\ UNCHANGED <<spent, repeats>>

\* A step with which a look begins.
Begins(w) ==
  /\ exec'[w].limit = exec[w].limit /\ exec'[w].next = NoTile
  /\ \A t \in Tiles : exec'[w].call[t] = "none"
  /\ \/ exec'[w].pc = "first" /\ exec'[w].todo = PendingTiles
     \/ exec'[w].pc = "close" /\ exec'[w].todo = OpenTiles
  /\ UNCHANGED <<tile, spent, repeats>>

\* A step within a look: nothing is added to what is asked for, and a tile that
\* still is asked for keeps what it says.
Stays(w) ==
  /\ exec'[w].pc = exec[w].pc
  /\ exec'[w].limit = exec[w].limit
  /\ Asks(w)' \subseteq Asks(w)
  /\ \A t \in Asks(w)' : tile'[t] = tile[t]

\* One that asks the model nothing.
Rests(w) == Asked(w)' \subseteq Asked(w) /\ UNCHANGED <<spent, repeats>>

\* One with an answer that is paid for.
Answers(w, t) == Reply(w, t) \/ UnusableReply(w, t) \/ MisplacedReply(w, t)

\* What a run holds after it stops.
LEMMA StopFields ==
  ASSUME ExecsSound, NEW w \in Workers, NEW why, StopFor(w, why)
  PROVE  /\ exec'[w].pc = exec[w].pc /\ exec'[w].limit = exec[w].limit
         /\ exec'[w].todo = {} /\ exec'[w].next = NoTile
         /\ exec'[w].call = exec[w].call
<1>1. exec[w] \in Exec
  BY DEF ExecsSound, Sound
<1>2. exec'[w] = [exec[w] EXCEPT !.stop = why, !.todo = {}, !.next = NoTile]
  BY BecomesGives DEF StopFor
<1>. QED
  BY <1>1, <1>2 DEF Exec

\* What a run holds after a call's state changes.
LEMMA CallFields ==
  ASSUME ExecsSound, NEW w \in Workers, NEW t \in Tiles, NEW c, SetCall(w, t, c)
  PROVE  /\ exec'[w].pc = exec[w].pc /\ exec'[w].limit = exec[w].limit
         /\ exec'[w].todo = exec[w].todo /\ exec'[w].next = exec[w].next
         /\ \A u \in Tiles : exec'[w].call[u] = IF u = t THEN c ELSE exec[w].call[u]
<1>1. exec[w] \in Exec
  BY DEF ExecsSound, Sound
<1>2. exec'[w] = [exec[w] EXCEPT !.call[t] = c]
  BY BecomesGives DEF SetCall
<1>. QED
  BY <1>1, <1>2 DEF Exec

\* What a run holds after an answer is given up.
LEMMA DropFields ==
  ASSUME ExecsSound, NEW w \in Workers, NEW t \in Tiles,
         Becomes(w, [exec[w] EXCEPT !.call[t] = "none", !.stop = "failed",
                                    !.todo = {}, !.next = NoTile])
  PROVE  /\ exec'[w].pc = exec[w].pc /\ exec'[w].limit = exec[w].limit
         /\ exec'[w].todo = {} /\ exec'[w].next = NoTile
         /\ \A u \in Tiles : exec'[w].call[u] = IF u = t THEN "none" ELSE exec[w].call[u]
<1>1. exec[w] \in Exec
  BY DEF ExecsSound, Sound
<1>2. exec'[w] = [exec[w] EXCEPT !.call[t] = "none", !.stop = "failed",
                                 !.todo = {}, !.next = NoTile]
  BY BecomesGives
<1>. QED
  BY <1>1, <1>2 DEF Exec

\* A run that stops asks for less.
LEMMA StopStays ==
  ASSUME ExecsSound, NEW w \in Workers, NEW why, StopFor(w, why),
         UNCHANGED <<spent, repeats>>,
         \A t \in Tiles : exec[w].call[t] # "none" => tile'[t] = tile[t]
  PROVE  Stays(w) /\ Rests(w)
BY StopFields DEF Stays, Rests, Asks, InFlight, Asked

\* An answer that is written leaves the other tiles.
LEMMA CallStays ==
  ASSUME ExecsSound, NEW w \in Workers, NEW t \in Tiles, exec[w].call[t] # "none",
         NEW c, SetCall(w, t, c), c = "none" \/ UNCHANGED tile,
         \A u \in Tiles : u # t => tile'[u] = tile[u]
  PROVE  Stays(w) /\ (c \notin {"sent", "again", "repair"} => Asked(w)' \subseteq Asked(w))
<1>1. exec[w] \in Exec /\ Shaped(exec[w])
  BY DEF ExecsSound, Sound
<1>. QED
  BY <1>1, CallFields DEF Stays, Asks, InFlight, Asked, Shaped, Exec

\* An execution that moves on outside a look is not looking.
LEMMA GotoEnds ==
  ASSUME ExecsSound, NEW w \in Workers,
         NEW pc \in {"idle", "planning", "tiles", "failing", "rest", "taken", "set"},
         Goto(w, pc), UNCHANGED <<spent, repeats>>
  PROVE  Ends(w)
<1>1. exec[w] \in Exec
  BY DEF ExecsSound, Sound
<1>2. exec'[w] = [exec[w] EXCEPT !.pc = pc]
  BY BecomesGives DEF Goto
<1>. QED
  BY <1>1, <1>2 DEF Exec, Ends

\* Nor is one that ends.
LEMMA QuitEnds ==
  ASSUME ExecsSound, NEW w \in Workers, Quit(w), UNCHANGED <<spent, repeats>>
  PROVE  Ends(w)
BY BecomesGives DEF Quit, Ends, NoExec

\* What the steps of an execution do to what it asks for.
LEMMA Moves ==
  ASSUME TypeOK, ExecsSound, NEW w \in Workers, WorkStep(w) \/ FaultStep(w)
  PROVE  \/ Ends(w)
         \/ Begins(w)
         \/ Stays(w) /\ (Rests(w) \/ Send(w) \/ \E t \in Tiles : Answers(w, t))
<1>. DEFINE Moved == \/ Ends(w)
                     \/ Begins(w)
                     \/ Stays(w) /\ (Rests(w) \/ Send(w) \/ \E t \in Tiles : Answers(w, t))
<1>. exec[w] \in Exec /\ Shaped(exec[w])
  BY DEF ExecsSound, Sound
<1>. tile \in [Tiles -> {"skipped", "pending", "failed", "open", "clear", "kept"}]
  BY DEF TypeOK
<1>1. AfterPlan(w) /\ UNCHANGED <<spent, repeats>> => Ends(w)
  BY GotoEnds, QuitEnds DEF AfterPlan
<1>2. CASE PlanStep(w)
  BY <1>1, <1>2, GotoEnds, QuitEnds DEF PlanStep, NoticePlanCancelled, WriteTiles, WritePlanned,
     FailPlan, NoticeChecksStopped, ChecksDone
<1>3. CASE PlanFails(w) \/ ChecksFail(w) \/ Crash(w)
  BY <1>1, <1>3, GotoEnds, QuitEnds DEF PlanFails, ChecksFail, Crash
<1>4. CASE Raise(w)
  BY <1>4, StopStays DEF Raise
<1>5. CASE Lapse(w)
  <2>1. exec'[w] = [exec[w] EXCEPT !.late = TRUE] /\ UNCHANGED <<tile, spent, repeats>>
    BY <1>5, BecomesGives DEF Lapse
  <2>2. Stays(w) /\ Rests(w)
    BY <2>1 DEF Stays, Rests, Asks, InFlight, Asked, Exec
  <2>. QED
    BY <2>2
<1>6. CASE BatchTimeout(w)
  <2>1. /\ exec'[w] = [exec[w] EXCEPT !.call = NoCalls, !.stop = "failed", !.todo = {}, !.next = NoTile]
        /\ UNCHANGED <<tile, spent, repeats>>
    BY <1>6, BecomesGives DEF BatchTimeout
  <2>2. exec'[w].pc = exec[w].pc /\ exec'[w].limit = exec[w].limit /\ exec'[w].todo = {}
        /\ exec'[w].next = NoTile /\ \A t \in Tiles : exec'[w].call[t] = "none"
    BY <2>1 DEF Exec, NoCalls
  <2>3. Stays(w) /\ Rests(w)
    BY <2>1, <2>2 DEF Stays, Rests, Asks, InFlight, Asked
  <2>. QED
    BY <2>3
<1>7. ASSUME NEW t \in Tiles, SaveFails(w, t) \/ VerdictHasNoRow(w, t) PROVE Moved
  <2>1. /\ Becomes(w, [exec[w] EXCEPT !.call[t] = "none", !.stop = "failed",
                                      !.todo = {}, !.next = NoTile])
        /\ UNCHANGED <<tile, spent, repeats>>
    BY <1>7 DEF SaveFails, VerdictHasNoRow
  <2>2. /\ exec'[w].pc = exec[w].pc /\ exec'[w].limit = exec[w].limit
        /\ exec'[w].todo = {} /\ exec'[w].next = NoTile
        /\ \A u \in Tiles : exec'[w].call[u] = IF u = t THEN "none" ELSE exec[w].call[u]
    BY <2>1, DropFields
  <2>3. Asks(w)' \subseteq Asks(w) /\ Asked(w)' \subseteq Asked(w)
    BY <2>2 DEF Asks, InFlight, Asked
  <2>4. Stays(w) /\ Rests(w)
    BY <2>1, <2>2, <2>3 DEF Stays, Rests
  <2>. QED
    BY <2>4
<1>8. CASE SetRunning(w) \/ Finish(w) \/ EndStopped(w)
  BY <1>8, GotoEnds, QuitEnds DEF SetRunning, Finish, EndStopped
<1>9. CASE BeginFirstLook(w)
  <2>1. CASE StopFor(w, "stale") \/ StopFor(w, "cancelled")
    BY <1>9, <2>1, StopStays DEF BeginFirstLook
  <2>2. CASE Becomes(w, [exec[w] EXCEPT !.pc = "first", !.todo = PendingTiles, !.copy = scan.copy])
    <3>1. exec'[w] = [exec[w] EXCEPT !.pc = "first", !.todo = PendingTiles, !.copy = scan.copy]
      BY <2>2, BecomesGives
    <3>2. Begins(w)
      BY <1>9, <3>1 DEF BeginFirstLook, At, Shaped, Exec, Begins
    <3>. QED
      BY <3>2
  <2>. QED
    BY <1>9, <2>1, <2>2 DEF BeginFirstLook
<1>10. CASE BeginCloseLook(w)
  <2>1. exec'[w] = [exec[w] EXCEPT !.pc = "close", !.todo = OpenTiles, !.copy = scan.copy]
    BY <1>10, BecomesGives DEF BeginCloseLook
  <2>2. Begins(w)
    BY <1>10, <2>1 DEF BeginCloseLook, InFlight, Exec, Begins
  <2>. QED
    BY <2>2
<1>11. CASE NoticeAccessLost(w) \/ BudgetStop(w)
  BY <1>11, StopStays DEF NoticeAccessLost, BudgetStop
<1>12. CASE Guard(w)
  <2>1. PICK t \in exec[w].todo :
          IF scan.status = "cancelled" THEN StopFor(w, "cancelled")
          ELSE Becomes(w, [exec[w] EXCEPT !.next = t, !.todo = @ \ {t}])
    BY <1>12 DEF Guard
  <2>2. UNCHANGED <<tile, spent, repeats>>
    BY <1>12 DEF Guard
  <2>3. CASE StopFor(w, "cancelled")
    BY <2>2, <2>3, StopStays
  <2>4. CASE Becomes(w, [exec[w] EXCEPT !.next = t, !.todo = @ \ {t}])
    <3>1. exec'[w] = [exec[w] EXCEPT !.next = t, !.todo = @ \ {t}]
      BY <2>4, BecomesGives
    <3>2. /\ exec'[w].pc = exec[w].pc /\ exec'[w].limit = exec[w].limit
          /\ exec'[w].todo = exec[w].todo \ {t} /\ exec'[w].next = t
          /\ exec'[w].call = exec[w].call
      BY <3>1 DEF Exec
    <3>3. Stays(w) /\ Rests(w)
      BY <2>2, <3>2 DEF Stays, Rests, Asks, InFlight, Asked
    <3>. QED
      BY <3>3
  <2>. QED
    BY <2>1, <2>3, <2>4
<1>13. CASE Send(w)
  <2>1. exec'[w] = [exec[w] EXCEPT !.call[exec[w].next] = "sent", !.next = NoTile]
        /\ UNCHANGED tile /\ exec[w].next \in Tiles
    BY <1>13, BecomesGives DEF Send, Exec
  <2>2. /\ exec'[w].pc = exec[w].pc /\ exec'[w].limit = exec[w].limit
        /\ exec'[w].todo = exec[w].todo /\ exec'[w].next = NoTile
        /\ \A u \in Tiles : exec'[w].call[u] = IF u = exec[w].next THEN "sent" ELSE exec[w].call[u]
    BY <2>1 DEF Exec
  <2>3. Stays(w)
    BY <2>1, <2>2 DEF Stays, Asks, InFlight
  <2>. QED
    BY <1>13, <2>3
<1>14. CASE SkipNext(w)
  <2>1. /\ exec[w].next \in Tiles /\ UNCHANGED <<spent, repeats>>
        /\ \A u \in Tiles : u # exec[w].next => tile'[u] = tile[u]
    BY <1>14 DEF SkipNext, Exec
  <2>2. exec[w].call[exec[w].next] = "none" /\ exec[w].next \notin exec[w].todo
    BY <2>1 DEF Shaped
  <2>3. CASE StopFor(w, "failed")
    BY <2>1, <2>2, <2>3, StopStays
  <2>4. CASE Becomes(w, [exec[w] EXCEPT !.next = NoTile])
    <3>1. exec'[w] = [exec[w] EXCEPT !.next = NoTile]
      BY <2>4, BecomesGives
    <3>2. /\ exec'[w].pc = exec[w].pc /\ exec'[w].limit = exec[w].limit
          /\ exec'[w].todo = exec[w].todo /\ exec'[w].next = NoTile
          /\ exec'[w].call = exec[w].call
      BY <3>1 DEF Exec
    <3>3. Stays(w) /\ Rests(w)
      BY <2>1, <2>2, <3>2 DEF Stays, Rests, Asks, InFlight, Asked, Exec
    <3>. QED
      BY <3>3
  <2>. QED
    BY <1>14, <2>3, <2>4 DEF SkipNext
<1>15. ASSUME NEW t \in Tiles, Answers(w, t) PROVE Moved
  <2>1. exec[w].call[t] # "none" /\ UNCHANGED tile
        /\ \E c : SetCall(w, t, c)
    BY <1>15 DEF Answers, Reply, UnusableReply, MisplacedReply
  <2>2. Stays(w)
    BY <2>1, CallStays
  <2>. QED
    BY <1>15, <2>2
<1>16. ASSUME NEW t \in Tiles,
              NoReply(w, t) \/ SaveLook(w, t) \/ SettleReject(w, t) \/ SaveFinding(w, t)
              \/ RecordVerdict(w, t)
       PROVE  Moved
  <2>1. /\ exec[w].call[t] # "none" /\ UNCHANGED <<spent, repeats>>
        /\ \A u \in Tiles : u # t => tile'[u] = tile[u]
    BY <1>16 DEF NoReply, SaveLook, SettleReject, SaveFinding, RecordVerdict
  <2>2. PICK c \in {"none", "good", "bad", "saved"} :
          SetCall(w, t, c) /\ (c = "none" \/ UNCHANGED tile)
    BY <1>16 DEF NoReply, SaveLook, SettleReject, SaveFinding, RecordVerdict
  <2>3. Stays(w) /\ Rests(w)
    BY <2>1, <2>2, CallStays DEF Rests
  <2>. QED
    BY <2>3
<1>. QED
  BY <1>2, <1>3, <1>4, <1>5, <1>6, <1>7, <1>8, <1>9, <1>10, <1>11, <1>12, <1>13, <1>14, <1>15,
     <1>16 DEF WorkStep, RunStep, FaultStep, Answers

-----------------------------------------------------------------------------
(* What is asked for waits for it.                                         *)

\* No step takes the history of a shared scan back.
LEMMA DoubledStays ==
  ASSUME TypeOK, ExecsSound, [Next]_vars, ~doubled'
  PROVE  ~doubled
<1>1. ASSUME NEW w \in Workers, TakeStep(w) PROVE doubled => doubled'
  BY <1>1, TakeHand
<1>2. ASSUME NEW w \in Workers, WorkStep(w) \/ FaultStep(w) PROVE UNCHANGED doubled
  BY <1>2, WorkIsAlone
<1>. QED
  BY <1>1, <1>2, RequestFrame DEF Next, vars

\* An execution that does not look asks for nothing.
LEMMA IdleAsksNothing ==
  ASSUME ExecsSound, NEW w \in Workers, exec[w].pc \notin {"first", "close"}
  PROVE  Asks(w) = {} /\ Asked(w) = {}
BY DEF ExecsSound, Sound, Shaped, Asks, InFlight, Asked

\* Every step keeps what is asked for among what waits for it.
LEMMA BoughtStep ==
  ASSUME HandInv, BoughtOnce, [Next]_vars
  PROVE  BoughtOnce'
<1>. DEFINE Right(w) == \A t \in Asks(w) :
                          /\ At(w, "first") => tile[t] \in {"pending", "failed"}
                          /\ At(w, "close") => tile[t] = "open"
<1>. SUFFICES ASSUME ~doubled' PROVE \A w \in Workers : Right(w)'
  BY DEF BoughtOnce
<1>1. TypeOK /\ ExecsSound /\ OneInHand /\ HasRow /\ ExecsSound'
  BY NextInv DEF HandInv, IInv
<1>2. ~doubled /\ \A w \in Workers : Right(w)
  BY <1>1, DoubledStays DEF BoughtOnce
<1>3. CASE UNCHANGED <<exec, tile>>
  BY <1>2, <1>3 DEF Asks, InFlight, At
<1>4. ASSUME NEW w \in Workers, Alone(w), UNCHANGED tile, NEW v \in Workers \ {w}
      PROVE  Right(v)'
  BY <1>2, <1>4 DEF Alone, Asks, InFlight, At
<1>5. ASSUME NEW w \in Workers, TakeStep(w) PROVE \A v \in Workers : Right(v)'
  <2>1. /\ Alone(w) /\ UNCHANGED tile
        /\ exec'[w] = exec[w] \/ exec'[w].pc \notin {"first", "close"}
    BY <1>1, <1>5, TakeHand
  <2>2. CASE exec'[w] = exec[w]
    BY <1>2, <1>4, <2>1, <2>2 DEF Asks, InFlight, At
  <2>3. CASE exec'[w].pc \notin {"first", "close"}
    BY <1>4, <2>1, <2>3 DEF At
  <2>. QED
    BY <2>1, <2>2, <2>3
<1>6. ASSUME NEW w \in Workers, WorkStep(w) \/ FaultStep(w), NEW v \in Workers
      PROVE  Right(v)'
  <2>1. Alone(w) /\ (~Handling(w) => UNCHANGED tile)
    BY <1>1, <1>6, WorkIsAlone, TilesNeedHand
  <2>2. CASE v # w
    <3>1. CASE UNCHANGED tile
      BY <1>4, <2>1, <2>2, <3>1
    <3>2. CASE Handling(w)
      <4>1. ~Handling(v) /\ exec'[v] = exec[v]
        BY <1>1, <1>2, <2>1, <2>2, <3>2 DEF OneInHand, Alone
      <4>. QED
        BY <4>1 DEF Handling, At
    <3>. QED
      BY <2>1, <3>1, <3>2
  <2>3. CASE v = w
    <3>1. CASE Ends(w)
      BY <2>3, <3>1 DEF Ends, At
    <3>2. CASE Begins(w)
      <4>1. Asks(w)' = exec'[w].todo /\ UNCHANGED tile
        BY <3>2 DEF Begins, Asks, InFlight
      <4>. QED
        BY <2>3, <3>2, <4>1 DEF Begins, PendingTiles, OpenTiles, At
    <3>3. CASE Stays(w)
      BY <1>2, <2>3, <3>3 DEF Stays, At
    <3>. QED
      BY <1>1, <1>6, <3>1, <3>2, <3>3, Moves
  <2>. QED
    BY <2>2, <2>3
<1>. QED
  BY <1>3, <1>5, <1>6, RequestFrame DEF Next, vars

\* A resumed, retried or repeated run asks only about areas that have no
\* answer and problems that have no verdict, as _pending_tiles and
\* _open_issues mean it to.
THEOREM BoughtHolds == Spec => []BoughtOnce
<1>1. Init => BoughtOnce
  BY DEF Init, BoughtOnce, At, NoExec
<1>2. HandInv /\ BoughtOnce /\ [Next]_vars => BoughtOnce'
  BY BoughtStep
<1>. QED
  BY <1>1, <1>2, HandInvariant, PTL DEF Spec

-----------------------------------------------------------------------------
(* The ceiling.                                                            *)

\* No limit is above the highest one set.
LimitsBelow == /\ scan.limit <= ceiling
               /\ \A w \in Workers : exec[w].limit <= ceiling

\* What is spent and what is asked for and not paid for yet.
Reserved ==
  ~doubled =>
    /\ spent <= ceiling + repeats
    /\ \A w \in Workers : spent + Cardinality(Asked(w)) <= ceiling + repeats

\* There are finitely many calls.
LEMMA AskedFinite ==
  ASSUME NEW w \in Workers
  PROVE  /\ IsFiniteSet(Asked(w)) /\ Cardinality(Asked(w)) \in Nat
         /\ IsFiniteSet(InFlight(w)) /\ Cardinality(InFlight(w)) \in Nat
         /\ Asked(w) \subseteq InFlight(w)
         /\ Cardinality(Asked(w)) <= Cardinality(InFlight(w))
<1>1. Asked(w) \subseteq Tiles /\ InFlight(w) \subseteq Tiles /\ Asked(w) \subseteq InFlight(w)
  BY DEF Asked, InFlight
<1>. QED
  BY <1>1, FS_Subset, FS_CardinalityType

\* A ceiling is only ever raised.
LEMMA CeilingStep ==
  ASSUME TypeOK, ExecsSound, LimitsBelow, [Next]_vars
  PROVE  /\ ceiling' >= ceiling /\ ceiling' \in Nat
         /\ LimitsBelow'
<1>. DEFINE Good == ceiling' >= ceiling /\ ceiling' \in Nat /\ LimitsBelow'
<1>1. /\ scan \in Row /\ ceiling \in Nat /\ resuming.limit \in Nat /\ Limits \subseteq Nat
      /\ \A w \in Workers : exec[w] \in Exec /\ exec[w].limit \in Nat
  BY DEF TypeOK, ExecsSound, Sound, Exec
<1>2. CASE scan'.limit = scan.limit /\ UNCHANGED <<exec, ceiling>>
  BY <1>1, <1>2 DEF LimitsBelow
<1>3. \A l \in Nat : Higher(l) \in Nat /\ Higher(l) >= l /\ Higher(l) >= ceiling
  BY <1>1 DEF Higher
<1>4. CASE RequestStep \/ GoSilent
  <2>1. ASSUME NEW l \in Limits, Start(l) \/ AutoStart(l) PROVE Good
    <3>1. scan'.limit = l /\ ceiling' = Higher(l) /\ UNCHANGED exec /\ l \in Nat
      BY <1>1, <2>1 DEF Start, AutoStart, Begin, Claim, Row
    <3>. QED
      BY <1>1, <1>3, <3>1 DEF LimitsBelow
  <2>2. CASE WriteResume
    <3>1. CASE scan'.limit = resuming.limit /\ ceiling' = Higher(resuming.limit) /\ UNCHANGED exec
      BY <1>1, <1>3, <3>1 DEF LimitsBelow
    <3>. QED
      BY <1>1, <1>2, <2>2, <3>1 DEF WriteResume, Row
  <2>3. CASE AskPlan \/ AutoWait \/ Cancel \/ GoSilent \/ \E auto \in {"off", "undecided"} : AskChecks(auto)
    <3>1. scan'.limit = scan.limit /\ UNCHANGED <<exec, ceiling>>
      BY <1>1, <2>3 DEF AskPlan, AutoWait, Cancel, GoSilent, AskChecks, Row
    <3>. QED
      BY <1>2, <3>1
  <2>4. CASE UNCHANGED <<scan, exec, ceiling>>
    BY <1>2, <2>4
  <2>. QED
    BY <1>4, <2>1, <2>2, <2>3, <2>4 DEF RequestStep, StopChecks, ChangeDrawings, AddJob, LoseJob,
       ReadForResume
<1>5. ASSUME NEW w \in Workers, TakeStep(w) PROVE Good
  <2>1. /\ Alone(w) /\ UNCHANGED ceiling /\ scan'.limit = scan.limit
        /\ exec'[w] = exec[w] \/ exec'[w].limit \in {0, scan.limit}
    BY <1>1, <1>5, TakeHand
  <2>. QED
    BY <1>1, <2>1 DEF Alone, LimitsBelow
<1>6. ASSUME NEW w \in Workers, WorkStep(w) \/ FaultStep(w) PROVE Good
  <2>1. Alone(w) /\ exec'[w].limit \in {0, exec[w].limit}
    BY <1>6, WorkIsAlone, Moves DEF Ends, Begins, Stays
  <2>2. UNCHANGED ceiling
    BY <1>6 DEF WorkStep, PlanStep, NoticePlanCancelled, WriteTiles, WritePlanned, FailPlan,
       NoticeChecksStopped, ChecksDone, RunStep, SetRunning, BeginFirstLook, Finish, EndStopped,
       Guard, NoticeAccessLost, Send, BudgetStop, SkipNext, BeginCloseLook, Reply,
       UnusableReply, MisplacedReply, NoReply, SaveLook, SettleReject, SaveFinding,
       RecordVerdict, VerdictHasNoRow, FaultStep, PlanFails, ChecksFail, Raise, BatchTimeout,
       Crash, Lapse, SaveFails
  <2>3. scan'.limit = scan.limit
    <3>1. CASE UNCHANGED scan
      BY <3>1
    <3>2. CASE WriteTiles(w)
      <4>1. scan' = [scan EXCEPT !.copy = @ + 1, !.built = exec[w].seen]
        BY <3>2 DEF WriteTiles
      <4>. QED
        BY <1>1, <4>1 DEF Row
    <3>3. CASE WritePlanned(w) \/ FailPlan(w) \/ SetRunning(w) \/ BeginFirstLook(w) \/ Finish(w)
               \/ EndStopped(w)
      BY <1>1, <3>3 DEF WritePlanned, FailPlan, SetRunning, BeginFirstLook, Finish, EndStopped, Row
    <3>. QED
      BY <1>6, <3>1, <3>2, <3>3 DEF WorkStep, PlanStep, NoticePlanCancelled,
         NoticeChecksStopped, ChecksDone, RunStep, Guard, NoticeAccessLost, Send, BudgetStop,
         SkipNext, BeginCloseLook, Reply, UnusableReply, MisplacedReply, NoReply, SaveLook,
         SettleReject, SaveFinding, RecordVerdict, VerdictHasNoRow, FaultStep, PlanFails,
         ChecksFail, Raise, BatchTimeout, Crash, Lapse, SaveFails
  <2>. QED
    BY <1>1, <2>1, <2>2, <2>3 DEF Alone, LimitsBelow
<1>7. CASE UNCHANGED vars
  BY <1>2, <1>7 DEF vars
<1>. QED
  BY <1>4, <1>5, <1>6, <1>7 DEF Next

\* A step of one execution keeps what it has reserved.
LEMMA ReservedOne ==
  ASSUME TypeOK, ExecsSound, LimitsBelow, NEW w \in Workers, WorkStep(w) \/ FaultStep(w),
         spent <= ceiling + repeats,
         spent + Cardinality(Asked(w)) <= ceiling + repeats,
         ExecsSound'
  PROVE  /\ spent' + Cardinality(Asked(w)') <= ceiling + repeats'
         /\ spent' <= ceiling + repeats'
         /\ UNCHANGED <<spent, repeats>> \/ Handling(w)
<1>. DEFINE Good == /\ spent' + Cardinality(Asked(w)') <= ceiling + repeats'
                    /\ spent' <= ceiling + repeats'
                    /\ UNCHANGED <<spent, repeats>> \/ Handling(w)
<1>1. /\ spent \in Nat /\ ceiling \in Nat /\ repeats \in Nat
      /\ exec[w] \in Exec /\ Shaped(exec[w]) /\ exec[w].limit <= ceiling /\ exec[w].limit \in Nat
  BY DEF TypeOK, ExecsSound, Sound, LimitsBelow, Exec
<1>2. /\ IsFiniteSet(Asked(w)) /\ Cardinality(Asked(w)) \in Nat
      /\ IsFiniteSet(InFlight(w)) /\ Cardinality(InFlight(w)) \in Nat
      /\ Cardinality(Asked(w)) <= Cardinality(InFlight(w))
  BY AskedFinite
<1>3. ASSUME Asked(w)' \subseteq Asked(w), UNCHANGED <<spent, repeats>> PROVE Good
  <2>1. Cardinality(Asked(w)') <= Cardinality(Asked(w)) /\ Cardinality(Asked(w)') \in Nat
    BY <1>2, <1>3, FS_Subset, FS_CardinalityType
  <2>. QED
    BY <1>1, <1>2, <1>3, <2>1
<1>4. CASE Ends(w)
  <2>1. Asked(w)' = {}
    BY <1>4 DEF Ends, ExecsSound, Sound, Shaped, Asked
  <2>. QED
    BY <1>3, <1>4, <2>1 DEF Ends
<1>5. CASE Begins(w)
  <2>1. Asked(w)' = {}
    BY <1>5 DEF Begins, Asked
  <2>. QED
    BY <1>3, <1>5, <2>1 DEF Begins
<1>6. CASE Rests(w)
  BY <1>3, <1>6 DEF Rests
<1>7. CASE Send(w)
  <2>. DEFINE t == exec[w].next
  <2>1. t \in Tiles /\ exec[w].limit - spent - Cardinality(InFlight(w)) >= 1
        /\ UNCHANGED <<spent, repeats>>
    BY <1>1, <1>7 DEF Send, Room, Exec
  <2>2. exec'[w] = [exec[w] EXCEPT !.call[t] = "sent", !.next = NoTile]
    BY <1>7, BecomesGives DEF Send
  <2>3. exec[w].call[t] = "none"
    BY <1>1, <2>1 DEF Shaped
  <2>4. \A u \in Tiles : exec'[w].call[u] = IF u = t THEN "sent" ELSE exec[w].call[u]
    BY <1>1, <2>1, <2>2 DEF Exec
  <2>5. Asked(w)' = Asked(w) \cup {t} /\ t \notin Asked(w)
    BY <2>1, <2>3, <2>4 DEF Asked
  <2>. HIDE DEF t
  <2>6. Cardinality(Asked(w)') = Cardinality(Asked(w)) + 1
    BY <1>2, <2>5, FS_AddElement
  <2>. QED
    BY <1>1, <1>2, <2>1, <2>6
<1>8. ASSUME NEW t \in Tiles, Answers(w, t) PROVE Good
  <2>1. exec[w].call[t] \in {"sent", "again", "repair"} /\ spent' = spent + 1
    BY <1>8 DEF Answers, Reply, UnusableReply, MisplacedReply
  <2>2. Handling(w) /\ t \in Asked(w)
    BY <1>1, <2>1 DEF Handling, Shaped, Asked
  <2>3. \/ SetCall(w, t, "good") /\ UNCHANGED repeats
        \/ SetCall(w, t, "bad") /\ UNCHANGED repeats
        \/ SetCall(w, t, "again") /\ repeats' = repeats + 1
        \/ SetCall(w, t, "repair") /\ repeats' = repeats + 1
    BY <1>8 DEF Answers, Reply, UnusableReply, MisplacedReply
  <2>4. CASE (SetCall(w, t, "good") \/ SetCall(w, t, "bad")) /\ UNCHANGED repeats
    <3>. PICK c \in {"good", "bad"} : SetCall(w, t, c)
      BY <2>4
    <3>0. \A u \in Tiles : exec'[w].call[u] = IF u = t THEN c ELSE exec[w].call[u]
      BY CallFields
    <3>1. Asked(w)' = Asked(w) \ {t}
      BY <3>0 DEF Asked
    <3>2. Cardinality(Asked(w)') = Cardinality(Asked(w)) - 1 /\ Cardinality(Asked(w)') \in Nat
      BY <1>2, <2>2, <3>1, FS_RemoveElement, FS_CardinalityType
    <3>. QED
      BY <1>1, <1>2, <2>1, <2>2, <2>4, <3>2
  <2>5. CASE (SetCall(w, t, "again") \/ SetCall(w, t, "repair")) /\ repeats' = repeats + 1
    <3>. PICK c \in {"again", "repair"} : SetCall(w, t, c)
      BY <2>5
    <3>0. \A u \in Tiles : exec'[w].call[u] = IF u = t THEN c ELSE exec[w].call[u]
      BY CallFields
    <3>1. Asked(w)' = Asked(w)
      BY <2>2, <3>0 DEF Asked
    <3>. QED
      BY <1>1, <1>2, <2>1, <2>2, <2>5, <3>1
  <2>. QED
    BY <2>3, <2>4, <2>5
<1>. QED
  BY <1>4, <1>5, <1>6, <1>7, <1>8, Moves

\* A higher ceiling leaves as much room.
LEMMA Below ==
  ASSUME NEW s \in Nat, NEW n \in Nat, NEW c \in Nat, NEW d \in Nat, NEW r \in Nat,
         d >= c, s + n <= c + r
  PROVE  s + n <= d + r /\ s <= d + r
OBVIOUS

\* Nothing in flight, too.
LEMMA BelowAlone ==
  ASSUME NEW s \in Nat, NEW c \in Nat, NEW d \in Nat, NEW r \in Nat,
         d >= c, s <= c + r
  PROVE  s <= d + r /\ s + 0 <= d + r
OBVIOUS

\* Every step keeps what is spent and reserved under the ceiling.
LEMMA ReservedStep ==
  ASSUME HandInv, LimitsBelow, Reserved, [Next]_vars
  PROVE  Reserved'
<1>. SUFFICES ASSUME ~doubled'
     PROVE  /\ spent' <= ceiling' + repeats'
            /\ \A w \in Workers : spent' + Cardinality(Asked(w)') <= ceiling' + repeats'
  BY DEF Reserved
<1>. DEFINE Good == /\ spent' <= ceiling' + repeats'
                    /\ \A w \in Workers : spent' + Cardinality(Asked(w)') <= ceiling' + repeats'
<1>1. /\ TypeOK /\ ExecsSound /\ OneInHand /\ HasRow /\ ExecsSound' /\ TypeOK'
      /\ spent \in Nat /\ ceiling \in Nat /\ repeats \in Nat
  BY NextInv DEF HandInv, IInv, TypeOK
<1>0. ~doubled
  BY <1>1, DoubledStays
<1>2. /\ spent <= ceiling + repeats
      /\ \A w \in Workers : spent + Cardinality(Asked(w)) <= ceiling + repeats
  BY <1>0 DEF Reserved
<1>3. ceiling' >= ceiling /\ ceiling' \in Nat /\ spent' \in Nat /\ repeats' \in Nat
  BY <1>1, CeilingStep DEF TypeOK
<1>4. Cardinality({}) = 0 /\ \A w \in Workers : Cardinality(Asked(w)) \in Nat
  BY AskedFinite, FS_EmptySet
<1>5. CASE UNCHANGED <<exec, spent, repeats>>
  <2>1. spent' <= ceiling' + repeats'
    <3>1. spent' <= ceiling + repeats'
      BY <1>2, <1>5
    <3>. QED
      BY <1>1, <1>3, <3>1, BelowAlone
  <2>2. ASSUME NEW w \in Workers PROVE spent' + Cardinality(Asked(w)') <= ceiling' + repeats'
    <3>1. Asked(w)' = Asked(w) /\ spent' = spent /\ repeats' = repeats
      BY <1>5 DEF Asked
    <3>2. spent + Cardinality(Asked(w)) <= ceiling' + repeats
      BY <1>1, <1>2, <1>3, <1>4, Below
    <3>. QED
      BY <3>1, <3>2
  <2>. QED
    BY <2>1, <2>2
<1>6. ASSUME NEW w \in Workers, TakeStep(w) PROVE Good
  <2>1. /\ Alone(w) /\ UNCHANGED <<spent, repeats, ceiling>>
        /\ exec'[w] = exec[w] \/ exec'[w].call = NoCalls
    BY <1>1, <1>6, TakeHand
  <2>2. \A v \in Workers : Asked(v)' = Asked(v) \/ Asked(v)' = {}
    BY <2>1 DEF Alone, Asked, NoCalls
  <2>. QED
    BY <1>1, <1>2, <1>4, <2>1, <2>2
<1>7. ASSUME NEW w \in Workers, WorkStep(w) \/ FaultStep(w) PROVE Good
  <2>1. /\ spent' + Cardinality(Asked(w)') <= ceiling + repeats'
        /\ spent' <= ceiling + repeats'
        /\ UNCHANGED <<spent, repeats>> \/ Handling(w)
    BY <1>1, <1>2, <1>7, ReservedOne
  <2>2. Alone(w)
    BY <1>1, <1>7, WorkIsAlone
  <2>3. IsFiniteSet(Asked(w)') /\ Cardinality(Asked(w)') \in Nat
    <3>1. Asked(w)' \subseteq Tiles
      BY DEF Asked
    <3>. QED
      BY <3>1, FS_Subset, FS_CardinalityType
  <2>4. ASSUME NEW v \in Workers \ {w}
        PROVE  spent' + Cardinality(Asked(v)') <= ceiling' + repeats'
    <3>1. Asked(v)' = Asked(v)
      BY <2>2 DEF Alone, Asked
    <3>2. CASE UNCHANGED <<spent, repeats>>
      BY <1>1, <1>2, <1>3, <1>4, <3>1, <3>2
    <3>3. CASE Handling(w)
      <4>1. ~Handling(v)
        BY <1>0, <1>1, <3>3 DEF OneInHand
      <4>2. Asked(v) = {}
        BY <1>1, <4>1, IdleAsksNothing DEF Handling
      <4>3. spent' + 0 <= ceiling' + repeats'
        BY <1>1, <1>3, <2>1, BelowAlone
      <4>. QED
        BY <1>4, <3>1, <4>2, <4>3
    <3>. QED
      BY <2>1, <3>2, <3>3
  <2>5. spent' <= ceiling' + repeats'
        /\ spent' + Cardinality(Asked(w)') <= ceiling' + repeats'
    BY <1>1, <1>3, <2>1, <2>3, Below
  <2>. QED
    BY <2>4, <2>5
<1>. QED
  BY <1>5, <1>6, <1>7, RequestFrame DEF Next, vars

\* Over crashes, retries and resumes, what the ledger says is spent never
\* passes the highest ceiling a person set, but for the calls that ask and
\* repair_boxes made a second time without reserving them.
THEOREM CeilingHolds == Spec => []WithinCeiling
<1>1. Init => LimitsBelow /\ Reserved
  <2>. SUFFICES ASSUME Init PROVE LimitsBelow /\ Reserved
    OBVIOUS
  <2>1. \A w \in Workers : Asked(w) = {}
    BY DEF Init, Asked, NoExec, NoCalls
  <2>2. Cardinality({}) = 0
    BY FS_EmptySet
  <2>3. spent = 0 /\ ceiling = 0 /\ repeats = 0 /\ scan.limit = 0
        /\ \A w \in Workers : exec[w].limit = 0
    BY DEF Init, NoExec
  <2>4. /\ spent <= ceiling + repeats
        /\ \A w \in Workers : spent + Cardinality(Asked(w)) <= ceiling + repeats
    BY <2>1, <2>2, <2>3
  <2>. QED
    BY <2>3, <2>4 DEF LimitsBelow, Reserved
<1>2. HandInv /\ LimitsBelow /\ [Next]_vars => LimitsBelow'
  BY CeilingStep DEF HandInv, IInv
<1>3. HandInv /\ LimitsBelow /\ Reserved /\ [Next]_vars => Reserved'
  BY ReservedStep
<1>4. Reserved => WithinCeiling
  BY DEF Reserved, WithinCeiling
<1>. QED
  BY <1>1, <1>2, <1>3, <1>4, HandInvariant, PTL DEF Spec


=============================================================================
