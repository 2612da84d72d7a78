-------------------------- MODULE ReviewRunsProofs --------------------------
(***************************************************************************)
(* Theorems about module ReviewRuns, for every set of runs, keys, requests *)
(* and workers and every bound.  Three facts carry them: a run without a   *)
(* key was never claimed; a run that is cancelled and was not written over *)
(* is not about to be; and while no twin was let through unseen, at most   *)
(* one run has been let through and is not over.                           *)
(***************************************************************************)
EXTENDS ReviewRuns, TLAPS

USE ReviewRunsAssumption DEF ReviewRunsAssumption, bounds, world, history

\* What is in hand is an execution of a run, what is served a request for one.
HasRun ==
  /\ \A w \in Workers : exec[w].pc # "free" => exec[w].run \in Runs
  /\ \A q \in Requests : request[q].pc # "free" =>
       request[q].run \in Runs /\ request[q].key \in Keys

\* A run that was claimed has a key.
Claims ==
  /\ \A r \in Runs : starts[r] <= 1 /\ (row[r].key = NoKey => starts[r] = 0)
  /\ \A r, t \in Runs : row[r].key = row[t].key /\ row[r].key # NoKey => r = t

\* A cancel that was not written over stands, and nobody is about to write.
Heeds ==
  \A r \in stopped \ escaped :
    /\ row[r].status = "cancelled"
    /\ \A w \in Workers : ~(exec[w].pc = "read" /\ exec[w].run = r)

\* A run that was let through and is not over.
LetThrough(r) ==
  \/ row[r].status \in {"queued", "running"}
  \/ \E q \in Requests : request[q].run = r /\ request[q].pc \in {"claim", "add"}

Alone ==
  ~excused => \A r, t \in Runs : LetThrough(r) /\ LetThrough(t) => r = t

\* The types, in four parts.
RowTypes ==
  /\ row \in [Runs -> [status : Statuses, key : Keys \cup {NoKey}, heart : {"beats", "silent"}]]
  /\ job \in [Runs -> [state : {"none", "waiting", "active", "done"},
                       holder : Workers \cup {NoWorker}, stalls : 0..MaxStalls]]
RequestTypes ==
  request \in [Requests -> [pc : {"free", "evidence", "twins", "claim", "add"},
                            run : Runs \cup {NoRun}, key : Keys \cup {NoKey}]]
ExecTypes ==
  exec \in [Workers -> [pc : Stages \cup {"free", "read", "head", "saving", "filed"},
                        run : Runs \cup {NoRun}]]
CountTypes ==
  /\ changes \in 0..MaxChanges /\ faults \in 0..MaxFaults
  /\ starts \in [Runs -> Nat] /\ stopped \in SUBSET Runs /\ escaped \in SUBSET Runs
FlagTypes == current \in BOOLEAN /\ allowed \in BOOLEAN /\ excused \in BOOLEAN

IInv == TypeOK /\ HasRun /\ Claims /\ Heeds /\ Alone

Over == {"ready", "partial", "failed", "cancelled", "stale"}

\* An execution goes on to another place.
GoesOn(w, pc) ==
  /\ exec[w].pc # "free"
  /\ Goto(w, pc)
  /\ UNCHANGED <<row, job, request, world, bounds, history>>

-----------------------------------------------------------------------------
LEMMA TypesAreParts ==
  TypeOK <=> RowTypes /\ RequestTypes /\ ExecTypes /\ CountTypes /\ FlagTypes
  BY Zenon DEF TypeOK, RowTypes, RequestTypes, ExecTypes, CountTypes, FlagTypes

\* A step of an execution that has begun leads on, or ends it.
LEMMA WorkerGoesOnOrEnds ==
  ASSUME NEW w \in Workers,
         \/ Begin(w) \/ Checkpoint(w) \/ NoticeCancel(w) \/ SkipToSaving(w)
         \/ File(w) \/ WriteOutcome(w) \/ Fail(w)
  PROVE  \/ exec[w].pc # "free" /\ \E s \in Over : Ends(w, s)
         \/ \E pc \in Stages \cup {"saving", "filed"} : GoesOn(w, pc)
<1>1. CASE Begin(w)
  BY <1>1 DEF Begin, Over, GoesOn, Stages
<1>2. CASE Checkpoint(w)
  BY <1>2 DEF Checkpoint, Over, GoesOn, Stages, Following
<1>3. CASE NoticeCancel(w)
  BY <1>3 DEF NoticeCancel, Over, Stages
<1>4. CASE SkipToSaving(w)
  BY <1>4 DEF SkipToSaving, GoesOn, Stages
<1>5. CASE File(w)
  BY <1>5 DEF File, GoesOn
<1>6. CASE WriteOutcome(w)
  BY <1>6 DEF WriteOutcome, Over
<1>7. CASE Fail(w)
  BY <1>7 DEF Fail, Over, Stages
<1>8. QED
  BY <1>1, <1>2, <1>3, <1>4, <1>5, <1>6, <1>7

\* What the two checks of a start request do.
LEMMA EvidenceIsChecked ==
  ASSUME NEW q \in Requests, CheckEvidence(q)
  PROVE  /\ request[q].pc = "evidence"
         /\ \/ request' = [request EXCEPT ![q].pc = "twins"]
            \/ request' = [request EXCEPT ![q] = NoRequest]
         /\ \/ row' = row
            \/ /\ row[request[q].run].status = "planned"
               /\ row' = [row EXCEPT ![request[q].run].status = "stale"]
         /\ UNCHANGED <<job, exec, changes, faults, starts, stopped, escaped, excused>>
  BY Zenon DEF CheckEvidence, Step, Answer, SetStatus

LEMMA TwinsAreChecked ==
  ASSUME NEW q \in Requests, CheckTwins(q)
  PROVE  /\ request[q].pc = "twins"
         /\ \/ request' = [request EXCEPT ![q] = NoRequest] /\ UNCHANGED excused
            \/ /\ request' = [request EXCEPT ![q].pc = "claim"]
               /\ excused => excused'
               /\ \A t \in Runs \ {request[q].run} :
                    ~ReviewIsActive(t) /\ (Unseen(q, t) => excused')
         /\ UNCHANGED <<row, job, exec, changes, faults, starts, stopped, escaped>>
  BY Zenon DEF CheckTwins, Step, Answer

LEMMA InitHolds == Init => IInv
<1>. SUFFICES ASSUME Init PROVE IInv
  OBVIOUS
<1>1. TypeOK
  <2>1. RowTypes
    BY DEF Init, RowTypes, Statuses, NoJob
  <2>2. RequestTypes
    BY DEF Init, RequestTypes, NoRequest
  <2>3. ExecTypes
    BY DEF Init, ExecTypes, NoExec
  <2>4. CountTypes
    BY DEF Init, CountTypes
  <2>5. FlagTypes
    BY DEF Init, FlagTypes
  <2>6. QED
    BY <2>1, <2>2, <2>3, <2>4, <2>5, TypesAreParts
<1>2. HasRun
  BY DEF Init, HasRun, NoRequest, NoExec
<1>3. Claims
  BY DEF Init, Claims
<1>4. Heeds
  BY DEF Init, Heeds
<1>5. Alone
  BY DEF Init, Alone, LetThrough, NoRequest
<1>6. QED
  BY <1>1, <1>2, <1>3, <1>4, <1>5 DEF IInv

\* Every step keeps the types.
LEMMA TypesNext ==
  ASSUME RowTypes, RequestTypes, ExecTypes, CountTypes, FlagTypes, HasRun, [Next]_vars
  PROVE  TypeOK'
<1>1. ASSUME NEW q \in Requests, NEW r \in Runs, NEW k \in Keys, AskStart(q, r, k)
     PROVE  TypeOK'
  BY <1>1
  DEF TypeOK, RowTypes, RequestTypes, ExecTypes, CountTypes, FlagTypes, HasRun, Statuses,
      Stages, AskStart
<1>2. ASSUME NEW q \in Requests, CheckEvidence(q)
     PROVE  TypeOK'
  <2>0. /\ request[q].pc = "evidence"
        /\ \/ request' = [request EXCEPT ![q].pc = "twins"]
           \/ request' = [request EXCEPT ![q] = NoRequest]
        /\ \/ row' = row
           \/ /\ row[request[q].run].status = "planned"
              /\ row' = [row EXCEPT ![request[q].run].status = "stale"]
        /\ UNCHANGED <<job, exec, changes, faults, starts, stopped, escaped, excused>>
    BY ONLY <1>2, q \in Requests, EvidenceIsChecked, Zenon
  <2>1. RowTypes'
    <3>1. request[q].run \in Runs
      BY <2>0 DEF HasRun
    <3>2. CASE row' = row
      BY <2>0, <3>2, RowTypes DEF RowTypes
    <3>3. CASE row' = [row EXCEPT ![request[q].run].status = "stale"]
      BY <2>0, <3>1, <3>3, RowTypes DEF RowTypes, Statuses
    <3>4. QED
      BY <2>0, <3>2, <3>3
  <2>2. RequestTypes'
    BY <2>0, RequestTypes DEF RequestTypes, HasRun, NoRequest
  <2>3. ExecTypes'
    BY <2>0, ExecTypes DEF ExecTypes, HasRun, Stages, NoRequest
  <2>4. CountTypes'
    BY <2>0, CountTypes DEF CountTypes, HasRun, NoRequest
  <2>5. FlagTypes'
    BY <1>2, FlagTypes DEF FlagTypes, CheckEvidence
  <2>6. QED
    BY <2>1, <2>2, <2>3, <2>4, <2>5, Zenon
       DEF TypeOK, RowTypes, RequestTypes, ExecTypes, CountTypes, FlagTypes
<1>3. ASSUME NEW q \in Requests, CheckTwins(q)
     PROVE  TypeOK'
  <2>0. /\ request[q].pc = "twins"
        /\ \/ request' = [request EXCEPT ![q] = NoRequest] /\ excused' = excused
           \/ /\ request' = [request EXCEPT ![q].pc = "claim"]
              /\ excused => excused'
              /\ \A t \in Runs \ {request[q].run} :
                   ~ReviewIsActive(t) /\ (Unseen(q, t) => excused')
        /\ UNCHANGED <<row, job, exec, changes, faults, starts, stopped, escaped>>
    BY ONLY <1>3, q \in Requests, TwinsAreChecked, Zenon
  <2>1. RowTypes'
    BY <2>0, RowTypes DEF RowTypes, HasRun, Statuses, NoRequest
  <2>2. RequestTypes'
    BY <2>0, RequestTypes DEF RequestTypes, HasRun, NoRequest
  <2>3. ExecTypes'
    BY <2>0, ExecTypes DEF ExecTypes, HasRun, Stages, NoRequest
  <2>4. CountTypes'
    BY <2>0, CountTypes DEF CountTypes, HasRun, NoRequest
  <2>5. FlagTypes'
    BY <1>3, FlagTypes DEF FlagTypes, CheckTwins
  <2>6. QED
    BY <2>1, <2>2, <2>3, <2>4, <2>5, Zenon
       DEF TypeOK, RowTypes, RequestTypes, ExecTypes, CountTypes, FlagTypes
<1>4. ASSUME NEW q \in Requests, Claim(q)
     PROVE  TypeOK'
  <2>1. RowTypes'
    BY <1>4, RowTypes DEF RowTypes, HasRun, Statuses, Claim, Claimed, Step, Answer, NoRequest
  <2>2. RequestTypes'
    BY <1>4, RequestTypes DEF RequestTypes, HasRun, Claim, Claimed, Step, Answer, NoRequest
  <2>3. ExecTypes'
    BY <1>4, ExecTypes DEF ExecTypes, HasRun, Stages, Claim, Claimed, Step, Answer, NoRequest
  <2>4. CountTypes'
    BY <1>4, CountTypes DEF CountTypes, HasRun, Claim, Claimed, Step, Answer, NoRequest
  <2>5. FlagTypes'
    BY <1>4, FlagTypes DEF FlagTypes, HasRun, Claim, Claimed, Step, Answer, NoRequest
  <2>6. QED
    BY <2>1, <2>2, <2>3, <2>4, <2>5, Zenon
       DEF TypeOK, RowTypes, RequestTypes, ExecTypes, CountTypes, FlagTypes
<1>5. ASSUME NEW q \in Requests, AddJob(q)
     PROVE  TypeOK'
  <2>1. RowTypes'
    BY <1>5, RowTypes DEF RowTypes, HasRun, Statuses, AddJob, Answer, NoRequest
  <2>2. RequestTypes'
    BY <1>5, RequestTypes DEF RequestTypes, HasRun, AddJob, Answer, NoRequest
  <2>3. ExecTypes'
    BY <1>5, ExecTypes DEF ExecTypes, HasRun, Stages, AddJob, Answer, NoRequest
  <2>4. CountTypes'
    BY <1>5, CountTypes DEF CountTypes, HasRun, AddJob, Answer, NoRequest
  <2>5. FlagTypes'
    BY <1>5, FlagTypes DEF FlagTypes, HasRun, AddJob, Answer, NoRequest
  <2>6. QED
    BY <2>1, <2>2, <2>3, <2>4, <2>5, Zenon
       DEF TypeOK, RowTypes, RequestTypes, ExecTypes, CountTypes, FlagTypes
<1>6. ASSUME NEW q \in Requests, LoseJob(q)
     PROVE  TypeOK'
  BY <1>6
  DEF TypeOK, RowTypes, RequestTypes, ExecTypes, CountTypes, FlagTypes, HasRun, Statuses,
      Stages, LoseJob, Answer, NoRequest
<1>7. ASSUME NEW r \in Runs, Cancel(r)
     PROVE  TypeOK'
  <2>1. RowTypes'
    BY <1>7, RowTypes DEF RowTypes, HasRun, Statuses, Cancel, SetStatus
  <2>2. RequestTypes'
    BY <1>7, RequestTypes DEF RequestTypes, HasRun, Cancel, SetStatus
  <2>3. ExecTypes'
    BY <1>7, ExecTypes DEF ExecTypes, HasRun, Stages, Cancel, SetStatus
  <2>4. CountTypes'
    BY <1>7, CountTypes DEF CountTypes, HasRun, Cancel, SetStatus
  <2>5. FlagTypes'
    BY <1>7, FlagTypes DEF FlagTypes, HasRun, Cancel, SetStatus
  <2>6. QED
    BY <2>1, <2>2, <2>3, <2>4, <2>5, Zenon
       DEF TypeOK, RowTypes, RequestTypes, ExecTypes, CountTypes, FlagTypes
<1>8. ASSUME NEW r \in Runs, StallJob(r)
     PROVE  TypeOK'
  BY <1>8
  DEF TypeOK, RowTypes, RequestTypes, ExecTypes, CountTypes, FlagTypes, HasRun, Statuses,
      Stages, StallJob, Stalled
<1>9. ASSUME NEW r \in Runs, Lapse(r)
     PROVE  TypeOK'
  BY <1>9
  DEF TypeOK, RowTypes, RequestTypes, ExecTypes, CountTypes, FlagTypes, HasRun, Statuses,
      Stages, Lapse, Stalled
<1>10. ASSUME NEW r \in Runs, GoSilent(r)
     PROVE  TypeOK'
  <2>1. RowTypes'
    BY <1>10, RowTypes DEF RowTypes, HasRun, Statuses, GoSilent
  <2>2. RequestTypes'
    BY <1>10, RequestTypes DEF RequestTypes, HasRun, GoSilent
  <2>3. ExecTypes'
    BY <1>10, ExecTypes DEF ExecTypes, HasRun, Stages, GoSilent
  <2>4. CountTypes'
    BY <1>10, CountTypes DEF CountTypes, HasRun, GoSilent
  <2>5. FlagTypes'
    BY <1>10, FlagTypes DEF FlagTypes, HasRun, GoSilent
  <2>6. QED
    BY <2>1, <2>2, <2>3, <2>4, <2>5, Zenon
       DEF TypeOK, RowTypes, RequestTypes, ExecTypes, CountTypes, FlagTypes
<1>11. CASE Change
  <2>1. RowTypes'
    BY <1>11, RowTypes DEF RowTypes, HasRun, Statuses, Change
  <2>2. RequestTypes'
    BY <1>11, RequestTypes DEF RequestTypes, HasRun, Change
  <2>3. ExecTypes'
    BY <1>11, ExecTypes DEF ExecTypes, HasRun, Stages, Change
  <2>4. CountTypes'
    BY <1>11, CountTypes DEF CountTypes, HasRun, Change
  <2>5. FlagTypes'
    BY <1>11, FlagTypes DEF FlagTypes, HasRun, Change
  <2>6. QED
    BY <2>1, <2>2, <2>3, <2>4, <2>5, Zenon
       DEF TypeOK, RowTypes, RequestTypes, ExecTypes, CountTypes, FlagTypes
<1>12. ASSUME NEW w \in Workers, NEW r \in Runs, Take(w, r)
     PROVE  TypeOK'
  <2>1. RowTypes'
    BY <1>12, RowTypes DEF RowTypes, HasRun, Statuses, Take
  <2>2. RequestTypes'
    BY <1>12, RequestTypes DEF RequestTypes, HasRun, Take
  <2>3. ExecTypes'
    BY <1>12, ExecTypes DEF ExecTypes, HasRun, Stages, Take
  <2>4. CountTypes'
    BY <1>12, CountTypes DEF CountTypes, HasRun, Take
  <2>5. FlagTypes'
    BY <1>12, FlagTypes DEF FlagTypes, HasRun, Take
  <2>6. QED
    BY <2>1, <2>2, <2>3, <2>4, <2>5, Zenon
       DEF TypeOK, RowTypes, RequestTypes, ExecTypes, CountTypes, FlagTypes
<1>13. ASSUME NEW w \in Workers, SetRunning(w)
     PROVE  TypeOK'
  <2>1. RowTypes'
    BY <1>13, RowTypes DEF RowTypes, HasRun, Statuses, SetRunning, Goto
  <2>2. RequestTypes'
    BY <1>13, RequestTypes DEF RequestTypes, HasRun, SetRunning, Goto
  <2>3. ExecTypes'
    BY <1>13, ExecTypes DEF ExecTypes, HasRun, Stages, SetRunning, Goto
  <2>4. CountTypes'
    BY <1>13, CountTypes DEF CountTypes, HasRun, SetRunning, Goto
  <2>5. FlagTypes'
    BY <1>13, FlagTypes DEF FlagTypes, HasRun, SetRunning, Goto
  <2>6. QED
    BY <2>1, <2>2, <2>3, <2>4, <2>5, Zenon
       DEF TypeOK, RowTypes, RequestTypes, ExecTypes, CountTypes, FlagTypes
<1>14. ASSUME NEW w \in Workers, NEW s \in Over, exec[w].pc # "free", Ends(w, s)
     PROVE  TypeOK'
  <2>1. RowTypes'
    <3>1. exec[w].run \in Runs
      BY <1>14 DEF HasRun
    <3>2. row' \in [Runs -> [status : Statuses, key : Keys \cup {NoKey},
                            heart : {"beats", "silent"}]]
      BY <1>14, <3>1, RowTypes DEF RowTypes, Statuses, Ends, SetStatus, Over
    <3>3. job' \in [Runs -> [state : {"none", "waiting", "active", "done"},
                            holder : Workers \cup {NoWorker}, stalls : 0..MaxStalls]]
      BY <1>14, <3>1, RowTypes DEF RowTypes, Ends, Done
    <3>4. QED
      BY <3>2, <3>3 DEF RowTypes
  <2>2. RequestTypes'
    BY <1>14, RequestTypes DEF RequestTypes, HasRun, Ends, SetStatus, Done, NoExec, Over
  <2>3. ExecTypes'
    BY <1>14, ExecTypes DEF ExecTypes, HasRun, Stages, Ends, SetStatus, Done, NoExec, Over
  <2>4. CountTypes'
    BY <1>14, CountTypes DEF CountTypes, HasRun, Ends, SetStatus, Done, NoExec, Over
  <2>5. FlagTypes'
    BY <1>14, FlagTypes DEF FlagTypes, HasRun, Ends, SetStatus, Done, NoExec, Over
  <2>6. QED
    BY <2>1, <2>2, <2>3, <2>4, <2>5, Zenon
       DEF TypeOK, RowTypes, RequestTypes, ExecTypes, CountTypes, FlagTypes
<1>15. ASSUME NEW w \in Workers, NEW pc \in Stages \cup {"saving", "filed"}, GoesOn(w, pc)
     PROVE  TypeOK'
  BY <1>15
  DEF TypeOK, RowTypes, RequestTypes, ExecTypes, CountTypes, FlagTypes, HasRun, Statuses,
      Stages, GoesOn, Goto
<1>16. ASSUME NEW w \in Workers, Crash(w)
     PROVE  TypeOK'
  BY <1>16
  DEF TypeOK, RowTypes, RequestTypes, ExecTypes, CountTypes, FlagTypes, HasRun, Statuses,
      Stages, Crash, NoExec
<1>17. CASE UNCHANGED vars
  BY <1>17
  DEF TypeOK, RowTypes, RequestTypes, ExecTypes, CountTypes, FlagTypes, HasRun, Statuses,
      Stages, vars
<1>18. QED
  BY WorkerGoesOnOrEnds, <1>1, <1>2, <1>3, <1>4, <1>5, <1>6, <1>7, <1>8, <1>9, <1>10, <1>11, <1>12,
     <1>13, <1>14, <1>15, <1>16, <1>17 DEF Next, Serve, Work

\* Every step keeps the runs of executions and requests.
LEMMA HasRunNext ==
  ASSUME RowTypes, RequestTypes, ExecTypes, CountTypes, HasRun, [Next]_vars
  PROVE  HasRun'
<1>1. ASSUME NEW q \in Requests, NEW r \in Runs, NEW k \in Keys, AskStart(q, r, k)
     PROVE  HasRun'
  BY <1>1 DEF RowTypes, RequestTypes, ExecTypes, HasRun, AskStart
<1>2. ASSUME NEW q \in Requests, CheckEvidence(q)
     PROVE  HasRun'
  <2>1. /\ request[q].pc = "evidence"
        /\ \/ request' = [request EXCEPT ![q].pc = "twins"]
           \/ request' = [request EXCEPT ![q] = NoRequest]
        /\ \/ row' = row
           \/ /\ row[request[q].run].status = "planned"
              /\ row' = [row EXCEPT ![request[q].run].status = "stale"]
        /\ UNCHANGED <<job, exec, changes, faults, starts, stopped, escaped, excused>>
    BY ONLY <1>2, q \in Requests, EvidenceIsChecked, Zenon
  <2>. QED
    BY <2>1, SMTT(30)
    DEF RowTypes, RequestTypes, ExecTypes, CountTypes, HasRun, NoRequest
<1>3. ASSUME NEW q \in Requests, CheckTwins(q)
     PROVE  HasRun'
  <2>1. /\ request[q].pc = "twins"
        /\ \/ request' = [request EXCEPT ![q] = NoRequest] /\ excused' = excused
           \/ /\ request' = [request EXCEPT ![q].pc = "claim"]
              /\ excused => excused'
              /\ \A t \in Runs \ {request[q].run} :
                   ~ReviewIsActive(t) /\ (Unseen(q, t) => excused')
        /\ UNCHANGED <<row, job, exec, changes, faults, starts, stopped, escaped>>
    BY ONLY <1>3, q \in Requests, TwinsAreChecked, Zenon
  <2>. QED
    BY <2>1
    DEF RowTypes, RequestTypes, ExecTypes, CountTypes, HasRun, NoRequest
<1>4. ASSUME NEW q \in Requests, Claim(q)
     PROVE  HasRun'
  BY <1>4 DEF RowTypes, RequestTypes, ExecTypes, HasRun, Claim, Claimed, Step, Answer, NoRequest
<1>5. ASSUME NEW q \in Requests, AddJob(q)
     PROVE  HasRun'
  BY <1>5 DEF RowTypes, RequestTypes, ExecTypes, HasRun, AddJob, Answer, NoRequest
<1>6. ASSUME NEW q \in Requests, LoseJob(q)
     PROVE  HasRun'
  BY <1>6 DEF RowTypes, RequestTypes, ExecTypes, HasRun, LoseJob, Answer, NoRequest
<1>7. ASSUME NEW r \in Runs, Cancel(r)
     PROVE  HasRun'
  BY <1>7 DEF RowTypes, RequestTypes, ExecTypes, HasRun, Cancel, SetStatus
<1>8. ASSUME NEW r \in Runs, StallJob(r)
     PROVE  HasRun'
  BY <1>8 DEF RowTypes, RequestTypes, ExecTypes, HasRun, StallJob, Stalled
<1>9. ASSUME NEW r \in Runs, Lapse(r)
     PROVE  HasRun'
  BY <1>9 DEF RowTypes, RequestTypes, ExecTypes, HasRun, Lapse, Stalled
<1>10. ASSUME NEW r \in Runs, GoSilent(r)
     PROVE  HasRun'
  BY <1>10 DEF RowTypes, RequestTypes, ExecTypes, HasRun, GoSilent
<1>11. CASE Change
  BY <1>11 DEF RowTypes, RequestTypes, ExecTypes, HasRun, Change
<1>12. ASSUME NEW w \in Workers, NEW r \in Runs, Take(w, r)
     PROVE  HasRun'
  <2>1. exec' = exec \/ exec' = [exec EXCEPT ![w] = [pc |-> "read", run |-> r]]
    BY <1>12 DEF Take
  <2>. QED
    BY <1>12, <2>1 DEF RequestTypes, ExecTypes, HasRun, Take
<1>13. ASSUME NEW w \in Workers, SetRunning(w)
     PROVE  HasRun'
  BY <1>13 DEF RowTypes, RequestTypes, ExecTypes, HasRun, SetRunning, Goto
<1>14. ASSUME NEW w \in Workers, NEW s \in Over, exec[w].pc # "free", Ends(w, s)
     PROVE  HasRun'
  BY <1>14 DEF RowTypes, RequestTypes, ExecTypes, HasRun, Ends, SetStatus, Done, NoExec, Over
<1>15. ASSUME NEW w \in Workers, NEW pc \in Stages \cup {"saving", "filed"}, GoesOn(w, pc)
     PROVE  HasRun'
  BY <1>15 DEF RowTypes, RequestTypes, ExecTypes, HasRun, GoesOn, Goto
<1>16. ASSUME NEW w \in Workers, Crash(w)
     PROVE  HasRun'
  BY <1>16 DEF RowTypes, RequestTypes, ExecTypes, HasRun, Crash, NoExec
<1>17. CASE UNCHANGED vars
  BY <1>17 DEF RowTypes, RequestTypes, ExecTypes, HasRun, vars
<1>18. QED
  BY WorkerGoesOnOrEnds, <1>1, <1>2, <1>3, <1>4, <1>5, <1>6, <1>7, <1>8, <1>9, <1>10, <1>11, <1>12,
     <1>13, <1>14, <1>15, <1>16, <1>17 DEF Next, Serve, Work

\* Only a claim gives a run a key, and it had none.
LEMMA ClaimsNext ==
  ASSUME RowTypes, RequestTypes, ExecTypes, CountTypes, HasRun, Claims, [Next]_vars
  PROVE  Claims'
<1>1. ASSUME NEW q \in Requests, NEW r \in Runs, NEW k \in Keys, AskStart(q, r, k)
     PROVE  Claims'
  BY <1>1 DEF RowTypes, RequestTypes, ExecTypes, CountTypes, HasRun, Claims, AskStart
<1>2. ASSUME NEW q \in Requests, CheckEvidence(q)
     PROVE  Claims'
  <2>1. /\ request[q].pc = "evidence"
        /\ \/ request' = [request EXCEPT ![q].pc = "twins"]
           \/ request' = [request EXCEPT ![q] = NoRequest]
        /\ \/ row' = row
           \/ /\ row[request[q].run].status = "planned"
              /\ row' = [row EXCEPT ![request[q].run].status = "stale"]
        /\ UNCHANGED <<job, exec, changes, faults, starts, stopped, escaped, excused>>
    BY ONLY <1>2, q \in Requests, EvidenceIsChecked, Zenon
  <2>2. request[q].run \in Runs
    BY <2>1 DEF HasRun
  <2>3. \A r \in Runs : row'[r].key = row[r].key
    BY <2>1, <2>2 DEF RowTypes
  <2>. QED
    BY <2>1, <2>3 DEF Claims
<1>3. ASSUME NEW q \in Requests, CheckTwins(q)
     PROVE  Claims'
  <2>1. /\ request[q].pc = "twins"
        /\ \/ request' = [request EXCEPT ![q] = NoRequest] /\ excused' = excused
           \/ /\ request' = [request EXCEPT ![q].pc = "claim"]
              /\ excused => excused'
              /\ \A t \in Runs \ {request[q].run} :
                   ~ReviewIsActive(t) /\ (Unseen(q, t) => excused')
        /\ UNCHANGED <<row, job, exec, changes, faults, starts, stopped, escaped>>
    BY ONLY <1>3, q \in Requests, TwinsAreChecked, Zenon
  <2>. QED
    BY <2>1
    DEF RowTypes, RequestTypes, ExecTypes, CountTypes, HasRun, Claims, NoRequest
<1>4. ASSUME NEW q \in Requests, Claim(q)
     PROVE  Claims'
  BY <1>4, SMTT(30)
  DEF RowTypes, RequestTypes, ExecTypes, CountTypes, HasRun, Claims, Claim, Claimed, Step,
      Answer, NoRequest
<1>5. ASSUME NEW q \in Requests, AddJob(q)
     PROVE  Claims'
  BY <1>5
  DEF RowTypes, RequestTypes, ExecTypes, CountTypes, HasRun, Claims, AddJob, Answer,
      NoRequest
<1>6. ASSUME NEW q \in Requests, LoseJob(q)
     PROVE  Claims'
  BY <1>6
  DEF RowTypes, RequestTypes, ExecTypes, CountTypes, HasRun, Claims, LoseJob, Answer,
      NoRequest
<1>7. ASSUME NEW r \in Runs, Cancel(r)
     PROVE  Claims'
  BY <1>7 DEF RowTypes, RequestTypes, ExecTypes, CountTypes, HasRun, Claims, Cancel, SetStatus
<1>8. ASSUME NEW r \in Runs, StallJob(r)
     PROVE  Claims'
  BY <1>8 DEF RowTypes, RequestTypes, ExecTypes, CountTypes, HasRun, Claims, StallJob, Stalled
<1>9. ASSUME NEW r \in Runs, Lapse(r)
     PROVE  Claims'
  BY <1>9 DEF RowTypes, RequestTypes, ExecTypes, CountTypes, HasRun, Claims, Lapse, Stalled
<1>10. ASSUME NEW r \in Runs, GoSilent(r)
     PROVE  Claims'
  BY <1>10 DEF RowTypes, RequestTypes, ExecTypes, CountTypes, HasRun, Claims, GoSilent
<1>11. CASE Change
  BY <1>11 DEF RowTypes, RequestTypes, ExecTypes, CountTypes, HasRun, Claims, Change
<1>12. ASSUME NEW w \in Workers, NEW r \in Runs, Take(w, r)
     PROVE  Claims'
  BY <1>12 DEF RowTypes, RequestTypes, ExecTypes, CountTypes, HasRun, Claims, Take
<1>13. ASSUME NEW w \in Workers, SetRunning(w)
     PROVE  Claims'
  BY <1>13 DEF RowTypes, RequestTypes, ExecTypes, CountTypes, HasRun, Claims, SetRunning, Goto
<1>14. ASSUME NEW w \in Workers, NEW s \in Over, exec[w].pc # "free", Ends(w, s)
     PROVE  Claims'
  BY <1>14
  DEF RowTypes, RequestTypes, ExecTypes, CountTypes, HasRun, Claims, Ends, SetStatus, Done,
      NoExec, Over
<1>15. ASSUME NEW w \in Workers, NEW pc \in Stages \cup {"saving", "filed"}, GoesOn(w, pc)
     PROVE  Claims'
  BY <1>15 DEF RowTypes, RequestTypes, ExecTypes, CountTypes, HasRun, Claims, GoesOn, Goto
<1>16. ASSUME NEW w \in Workers, Crash(w)
     PROVE  Claims'
  BY <1>16 DEF RowTypes, RequestTypes, ExecTypes, CountTypes, HasRun, Claims, Crash, NoExec
<1>17. CASE UNCHANGED vars
  BY <1>17 DEF RowTypes, RequestTypes, ExecTypes, CountTypes, HasRun, Claims, vars
<1>18. QED
  BY WorkerGoesOnOrEnds, <1>1, <1>2, <1>3, <1>4, <1>5, <1>6, <1>7, <1>8, <1>9, <1>10, <1>11, <1>12,
     <1>13, <1>14, <1>15, <1>16, <1>17 DEF Next, Serve, Work

\* A cancel is written over only where it is recorded as such.
LEMMA HeedsNext ==
  ASSUME RowTypes, RequestTypes, ExecTypes, CountTypes, HasRun, Heeds, [Next]_vars
  PROVE  Heeds'
<1>1. ASSUME NEW q \in Requests, NEW r \in Runs, NEW k \in Keys, AskStart(q, r, k)
     PROVE  Heeds'
  BY <1>1 DEF RowTypes, RequestTypes, ExecTypes, CountTypes, HasRun, Heeds, AskStart
<1>2. ASSUME NEW q \in Requests, CheckEvidence(q)
     PROVE  Heeds'
  <2>1. /\ request[q].pc = "evidence"
        /\ \/ request' = [request EXCEPT ![q].pc = "twins"]
           \/ request' = [request EXCEPT ![q] = NoRequest]
        /\ \/ row' = row
           \/ /\ row[request[q].run].status = "planned"
              /\ row' = [row EXCEPT ![request[q].run].status = "stale"]
        /\ UNCHANGED <<job, exec, changes, faults, starts, stopped, escaped, excused>>
    BY ONLY <1>2, q \in Requests, EvidenceIsChecked, Zenon
  <2>. QED
    BY <2>1
    DEF RowTypes, RequestTypes, ExecTypes, CountTypes, HasRun, Heeds, NoRequest
<1>3. ASSUME NEW q \in Requests, CheckTwins(q)
     PROVE  Heeds'
  <2>1. /\ request[q].pc = "twins"
        /\ \/ request' = [request EXCEPT ![q] = NoRequest] /\ excused' = excused
           \/ /\ request' = [request EXCEPT ![q].pc = "claim"]
              /\ excused => excused'
              /\ \A t \in Runs \ {request[q].run} :
                   ~ReviewIsActive(t) /\ (Unseen(q, t) => excused')
        /\ UNCHANGED <<row, job, exec, changes, faults, starts, stopped, escaped>>
    BY ONLY <1>3, q \in Requests, TwinsAreChecked, Zenon
  <2>. QED
    BY <2>1
    DEF RowTypes, RequestTypes, ExecTypes, CountTypes, HasRun, Heeds, NoRequest
<1>4. ASSUME NEW q \in Requests, Claim(q)
     PROVE  Heeds'
  BY <1>4
  DEF RowTypes, RequestTypes, ExecTypes, CountTypes, HasRun, Heeds, Claim, Claimed, Step,
      Answer, NoRequest
<1>5. ASSUME NEW q \in Requests, AddJob(q)
     PROVE  Heeds'
  BY <1>5
  DEF RowTypes, RequestTypes, ExecTypes, CountTypes, HasRun, Heeds, AddJob, Answer,
      NoRequest
<1>6. ASSUME NEW q \in Requests, LoseJob(q)
     PROVE  Heeds'
  BY <1>6
  DEF RowTypes, RequestTypes, ExecTypes, CountTypes, HasRun, Heeds, LoseJob, Answer,
      NoRequest
<1>7. ASSUME NEW r \in Runs, Cancel(r)
     PROVE  Heeds'
  BY <1>7 DEF RowTypes, ExecTypes, CountTypes, HasRun, Heeds, Cancel, SetStatus, InHand
<1>8. ASSUME NEW r \in Runs, StallJob(r)
     PROVE  Heeds'
  BY <1>8 DEF RowTypes, RequestTypes, ExecTypes, CountTypes, HasRun, Heeds, StallJob, Stalled
<1>9. ASSUME NEW r \in Runs, Lapse(r)
     PROVE  Heeds'
  BY <1>9 DEF RowTypes, RequestTypes, ExecTypes, CountTypes, HasRun, Heeds, Lapse, Stalled
<1>10. ASSUME NEW r \in Runs, GoSilent(r)
     PROVE  Heeds'
  BY <1>10 DEF RowTypes, RequestTypes, ExecTypes, CountTypes, HasRun, Heeds, GoSilent
<1>11. CASE Change
  BY <1>11 DEF RowTypes, RequestTypes, ExecTypes, CountTypes, HasRun, Heeds, Change
<1>12. ASSUME NEW w \in Workers, NEW r \in Runs, Take(w, r)
     PROVE  Heeds'
  <2>1. \/ exec' = exec
        \/ /\ row[r].status # "cancelled"
           /\ exec' = [exec EXCEPT ![w] = [pc |-> "read", run |-> r]]
    BY <1>12 DEF Take
  <2>. QED
    BY <1>12, <2>1 DEF RowTypes, ExecTypes, CountTypes, Heeds, Take
<1>13. ASSUME NEW w \in Workers, SetRunning(w)
     PROVE  Heeds'
  BY <1>13 DEF RowTypes, RequestTypes, ExecTypes, CountTypes, HasRun, Heeds, SetRunning, Goto
<1>14. ASSUME NEW w \in Workers, NEW s \in Over, exec[w].pc # "free", Ends(w, s)
     PROVE  Heeds'
  BY <1>14
  DEF RowTypes, RequestTypes, ExecTypes, CountTypes, HasRun, Heeds, Ends, SetStatus, Done,
      NoExec, Over
<1>15. ASSUME NEW w \in Workers, NEW pc \in Stages \cup {"saving", "filed"}, GoesOn(w, pc)
     PROVE  Heeds'
  BY <1>15
  DEF RowTypes, RequestTypes, ExecTypes, CountTypes, HasRun, Heeds, Stages, GoesOn, Goto
<1>16. ASSUME NEW w \in Workers, Crash(w)
     PROVE  Heeds'
  BY <1>16 DEF RowTypes, RequestTypes, ExecTypes, CountTypes, HasRun, Heeds, Crash, NoExec
<1>17. CASE UNCHANGED vars
  BY <1>17 DEF RowTypes, RequestTypes, ExecTypes, CountTypes, HasRun, Heeds, vars
<1>18. QED
  BY WorkerGoesOnOrEnds, <1>1, <1>2, <1>3, <1>4, <1>5, <1>6, <1>7, <1>8, <1>9, <1>10, <1>11, <1>12,
     <1>13, <1>14, <1>15, <1>16, <1>17 DEF Next, Serve, Work

\* A request that passes the check seeing everybody finds no other run let through.
LEMMA AloneNext ==
  ASSUME RowTypes, RequestTypes, ExecTypes, CountTypes, HasRun, Alone, [Next]_vars
  PROVE  Alone'
<1>1. ASSUME NEW q \in Requests, NEW r \in Runs, NEW k \in Keys, AskStart(q, r, k)
     PROVE  Alone'
  BY <1>1 DEF RowTypes, RequestTypes, ExecTypes, CountTypes, HasRun, Alone, LetThrough, AskStart
<1>2. ASSUME NEW q \in Requests, CheckEvidence(q)
     PROVE  Alone'
  <2>1. /\ request[q].pc = "evidence"
        /\ \/ request' = [request EXCEPT ![q].pc = "twins"]
           \/ request' = [request EXCEPT ![q] = NoRequest]
        /\ \/ row' = row
           \/ /\ row[request[q].run].status = "planned"
              /\ row' = [row EXCEPT ![request[q].run].status = "stale"]
        /\ UNCHANGED <<job, exec, changes, faults, starts, stopped, escaped, excused>>
    BY ONLY <1>2, q \in Requests, EvidenceIsChecked, Zenon
  <2>2. request[q].run \in Runs
    BY <2>1 DEF HasRun
  <2>3. ASSUME NEW r \in Runs, LetThrough(r)'
        PROVE  LetThrough(r)
    <3>1. row'[r].status \in {"queued", "running"} => row'[r] = row[r]
      BY <2>1, <2>2 DEF RowTypes
    <3>2. \A p \in Requests : request'[p].pc \in {"claim", "add"} =>
            request'[p] = request[p]
      BY <2>1 DEF RequestTypes, NoRequest
    <3>3. QED
      BY <2>3, <3>1, <3>2 DEF LetThrough
  <2>4. QED
    BY <2>1, <2>3 DEF Alone
<1>3. ASSUME NEW q \in Requests, CheckTwins(q)
     PROVE  Alone'
  <2>1. /\ request[q].pc = "twins"
        /\ \/ request' = [request EXCEPT ![q] = NoRequest] /\ excused' = excused
           \/ /\ request' = [request EXCEPT ![q].pc = "claim"]
              /\ excused => excused'
              /\ \A t \in Runs \ {request[q].run} :
                   ~ReviewIsActive(t) /\ (Unseen(q, t) => excused')
        /\ UNCHANGED <<row, job, exec, changes, faults, starts, stopped, escaped>>
    BY ONLY <1>3, q \in Requests, TwinsAreChecked, Zenon
  <2>2. request[q].run \in Runs
    BY <2>1 DEF HasRun
  <2>3. CASE request' = [request EXCEPT ![q] = NoRequest] /\ excused' = excused
    <3>1. \A p \in Requests : request'[p].pc \in {"claim", "add"} =>
            request'[p] = request[p]
      BY <2>3 DEF RequestTypes, NoRequest
    <3>2. \A r \in Runs : LetThrough(r)' => LetThrough(r)
      BY <2>1, <3>1 DEF LetThrough
    <3>3. QED
      BY <2>3, <3>2 DEF Alone
  <2>4. CASE /\ request' = [request EXCEPT ![q].pc = "claim"]
             /\ excused => excused'
             /\ \A t \in Runs \ {request[q].run} :
                  ~ReviewIsActive(t) /\ (Unseen(q, t) => excused')
    <3>1. ASSUME ~excused', NEW t \in Runs, t # request[q].run
          PROVE  ~LetThrough(t)'
      <4>1. ~ReviewIsActive(t) /\ ~Unseen(q, t)
        BY <2>4, <3>1
      <4>2. row[t].status \notin {"queued", "running"}
        BY <4>1 DEF ReviewIsActive, Unseen, RowTypes
      <4>3. \A p \in Requests : request'[p].pc \in {"claim", "add"} => request'[p].run # t
        BY <2>4, <3>1, <4>1 DEF Unseen, RequestTypes
      <4>4. QED
        BY <2>1, <4>2, <4>3 DEF LetThrough
    <3>2. QED
      BY <3>1 DEF Alone
  <2>5. QED
    BY <2>1, <2>3, <2>4
<1>4. ASSUME NEW q \in Requests, Claim(q)
     PROVE  Alone'
  <2>1. request[q].pc = "claim" /\ request[q].run \in Runs /\ excused' = excused
    BY <1>4 DEF Claim, HasRun
  <2>2. ASSUME NEW r \in Runs, LetThrough(r)'
        PROVE  LetThrough(r)
    <3>1. CASE r = request[q].run
      BY <2>1, <3>1 DEF LetThrough
    <3>2. CASE r # request[q].run
      <4>1. row'[r] = row[r]
        BY <1>4, <2>1, <3>2 DEF RowTypes, Claim, Claimed
      <4>2. \A p \in Requests : request'[p].run = r => request'[p] = request[p]
        BY <1>4, <2>1, <3>2 DEF RequestTypes, Claim, Claimed, Step, Answer, NoRequest
      <4>3. QED
        BY <2>2, <4>1, <4>2 DEF LetThrough
    <3>3. QED
      BY <3>1, <3>2
  <2>3. QED
    BY <2>1, <2>2 DEF Alone
<1>5. ASSUME NEW q \in Requests, AddJob(q)
     PROVE  Alone'
  BY <1>5
  DEF RowTypes, RequestTypes, ExecTypes, CountTypes, HasRun, Alone, LetThrough, AddJob,
      Answer, NoRequest
<1>6. ASSUME NEW q \in Requests, LoseJob(q)
     PROVE  Alone'
  BY <1>6
  DEF RowTypes, RequestTypes, ExecTypes, CountTypes, HasRun, Alone, LetThrough, LoseJob,
      Answer, NoRequest
<1>7. ASSUME NEW r \in Runs, Cancel(r)
     PROVE  Alone'
  BY <1>7, SMTT(30)
  DEF RowTypes, RequestTypes, ExecTypes, CountTypes, HasRun, Alone, LetThrough, Cancel,
      SetStatus
<1>8. ASSUME NEW r \in Runs, StallJob(r)
     PROVE  Alone'
  BY <1>8
  DEF RowTypes, RequestTypes, ExecTypes, CountTypes, HasRun, Alone, LetThrough, StallJob,
      Stalled
<1>9. ASSUME NEW r \in Runs, Lapse(r)
     PROVE  Alone'
  BY <1>9
  DEF RowTypes, RequestTypes, ExecTypes, CountTypes, HasRun, Alone, LetThrough, Lapse,
      Stalled
<1>10. ASSUME NEW r \in Runs, GoSilent(r)
     PROVE  Alone'
  BY <1>10
  DEF RowTypes, RequestTypes, ExecTypes, CountTypes, HasRun, Alone, LetThrough, GoSilent
<1>11. CASE Change
  BY <1>11 DEF RowTypes, RequestTypes, ExecTypes, CountTypes, HasRun, Alone, LetThrough, Change
<1>12. ASSUME NEW w \in Workers, NEW r \in Runs, Take(w, r)
     PROVE  Alone'
  BY <1>12 DEF RowTypes, RequestTypes, ExecTypes, CountTypes, HasRun, Alone, LetThrough, Take
<1>13. ASSUME NEW w \in Workers, SetRunning(w)
     PROVE  Alone'
  <2>1. /\ exec[w].pc = "read" /\ request' = request
        /\ row' = [row EXCEPT ![exec[w].run].status = "running",
                              ![exec[w].run].heart = "beats"]
        /\ ~excused' => ~excused /\ row[exec[w].run].status \in {"queued", "running"}
    BY <1>13, Zenon DEF SetRunning
  <2>2. exec[w].run \in Runs
    BY <2>1 DEF HasRun
  <2>3. ASSUME ~excused', NEW r \in Runs, LetThrough(r)'
        PROVE  LetThrough(r)
    <3>1. r # exec[w].run => row'[r] = row[r]
      BY <2>1, <2>2 DEF RowTypes
    <3>2. QED
      BY <2>1, <2>3, <3>1 DEF LetThrough
  <2>4. QED
    BY <2>1, <2>3 DEF Alone
<1>14. ASSUME NEW w \in Workers, NEW s \in Over, exec[w].pc # "free", Ends(w, s)
     PROVE  Alone'
  BY <1>14
  DEF RowTypes, RequestTypes, ExecTypes, CountTypes, HasRun, Alone, LetThrough, Ends,
      SetStatus, Done, NoExec, Over
<1>15. ASSUME NEW w \in Workers, NEW pc \in Stages \cup {"saving", "filed"}, GoesOn(w, pc)
     PROVE  Alone'
  BY <1>15
  DEF RowTypes, RequestTypes, ExecTypes, CountTypes, HasRun, Alone, LetThrough, GoesOn, Goto
<1>16. ASSUME NEW w \in Workers, Crash(w)
     PROVE  Alone'
  BY <1>16
  DEF RowTypes, RequestTypes, ExecTypes, CountTypes, HasRun, Alone, LetThrough, Crash,
      NoExec
<1>17. CASE UNCHANGED vars
  BY <1>17 DEF RowTypes, RequestTypes, ExecTypes, CountTypes, HasRun, Alone, LetThrough, vars
<1>18. QED
  BY WorkerGoesOnOrEnds, <1>1, <1>2, <1>3, <1>4, <1>5, <1>6, <1>7, <1>8, <1>9, <1>10, <1>11, <1>12,
     <1>13, <1>14, <1>15, <1>16, <1>17 DEF Next, Serve, Work

-----------------------------------------------------------------------------
\* The three facts and the types hold in every state, of whatever the API and the
\* workers do in whatever order.
THEOREM InvariantHolds == Spec => []IInv
<1>1. IInv /\ [Next]_vars => IInv'
  BY TypesAreParts, TypesNext, HasRunNext, ClaimsNext, HeedsNext, AloneNext DEF IInv
<1>2. QED
  BY InitHolds, <1>1, PTL DEF Spec

\* Every variable has its type, however many runs, requests and workers there are.
THEOREM TypesHold == Spec => []TypeOK
<1>1. IInv => TypeOK
  BY DEF IInv
<1>2. QED
  BY InvariantHolds, <1>1, PTL

\* A double click, a repeated request or two tabs start a run once (startReview).
THEOREM StartedHolds == Spec => []StartedOnce
<1>1. IInv => StartedOnce
  BY DEF IInv, Claims, StartedOnce
<1>2. QED
  BY InvariantHolds, <1>1, PTL

\* Two reviews of one scope are paid for at once only when one was let through with
\* the other unseen (startReview's check and its claim are two steps).
THEOREM TwinsHold == Spec => []TwinsAreRefused
<1>1. IInv => TwinsAreRefused
  BY Zenon DEF IInv, Alone, LetThrough, TwinsAreRefused, Paying
<1>2. QED
  BY InvariantHolds, <1>1, PTL

\* Where the step of an execution leads.
Rests(w) ==
  \/ exec'[w].pc = exec[w].pc
  \/ exec'[w].pc \in {"free", "read", "saving", "filed"}

\* Only three steps bring an execution to a place that costs anything.
LEMMA OnlyThreeSteps ==
  ASSUME ExecTypes, [Next]_vars, NEW w \in Workers
  PROVE  \/ Rests(w)
         \/ exec[w].pc = "read" /\ exec'[w].pc = "head"
         \/ allowed /\ exec'[w].pc = "discovery"
         \/ /\ allowed /\ row[exec[w].run].status # "cancelled"
            /\ exec'[w].pc \in Stages
<1>. DEFINE Goal == \/ Rests(w)
                    \/ exec[w].pc = "read" /\ exec'[w].pc = "head"
                    \/ allowed /\ exec'[w].pc = "discovery"
                    \/ /\ allowed /\ row[exec[w].run].status # "cancelled"
                       /\ exec'[w].pc \in Stages
<1>1. CASE exec' = exec
  BY <1>1 DEF Rests
<1>2. ASSUME NEW v \in Workers, NEW r \in Runs, Take(v, r)
      PROVE  Goal
  <2>1. exec' = exec \/ exec' = [exec EXCEPT ![v] = [pc |-> "read", run |-> r]]
    BY <1>2 DEF Take
  <2>2. QED
    BY <2>1 DEF ExecTypes, Rests
<1>3. ASSUME NEW v \in Workers, SetRunning(v)
      PROVE  Goal
  BY <1>3 DEF SetRunning, Goto, ExecTypes, Rests
<1>4. ASSUME NEW v \in Workers, NEW s \in Statuses, Ends(v, s)
      PROVE  Goal
  BY <1>4 DEF Ends, Done, NoExec, ExecTypes, Rests
<1>5. ASSUME NEW v \in Workers, Begin(v)
      PROVE  Goal
  <2>1. CASE Ends(v, "stale") \/ Ends(v, "cancelled")
    BY <2>1, <1>4 DEF Statuses
  <2>2. CASE allowed /\ Goto(v, "discovery")
    <3>1. v = w => exec'[w].pc = "discovery"
      BY <2>2 DEF Goto, ExecTypes
    <3>2. v # w => exec'[w].pc = exec[w].pc
      BY <2>2 DEF Goto, ExecTypes
    <3>3. QED
      BY <2>2, <3>1, <3>2, Zenon DEF Rests
  <2>3. QED
    BY <1>5, <2>1, <2>2, Zenon DEF Begin
<1>6. ASSUME NEW v \in Workers, Checkpoint(v)
      PROVE  Goal
  <2>1. CASE Ends(v, "cancelled")
    BY <2>1, <1>4 DEF Statuses
  <2>2. CASE /\ allowed /\ row[exec[v].run].status # "cancelled"
             /\ exec[v].pc \in Stages /\ Goto(v, Following[exec[v].pc])
    <3>1. v = w => exec'[w].pc \in Stages \/ exec'[w].pc = "saving"
      BY <2>2 DEF Goto, ExecTypes, Stages, Following
    <3>2. v # w => exec'[w].pc = exec[w].pc
      BY <2>2 DEF Goto, ExecTypes
    <3>3. QED
      BY <2>2, <3>1, <3>2, Zenon DEF Rests
  <2>3. QED
    BY <1>6, <2>1, <2>2, Zenon DEF Checkpoint
<1>7. ASSUME NEW v \in Workers, NoticeCancel(v) \/ Fail(v) \/ WriteOutcome(v)
      PROVE  Goal
  BY <1>4, <1>7 DEF NoticeCancel, Fail, WriteOutcome, Statuses
<1>8. ASSUME NEW v \in Workers, SkipToSaving(v) \/ File(v) \/ Crash(v)
      PROVE  Goal
  BY <1>8 DEF SkipToSaving, File, Crash, Goto, NoExec, ExecTypes, Rests
<1>9. CASE \E q \in Requests :
             \/ \E r \in Runs, k \in Keys : AskStart(q, r, k)
             \/ CheckEvidence(q) \/ CheckTwins(q) \/ Claim(q) \/ AddJob(q) \/ LoseJob(q)
  BY <1>1, <1>9, Zenon
  DEF AskStart, CheckEvidence, CheckTwins, Claim, AddJob, LoseJob
<1>10. CASE \E r \in Runs : Cancel(r) \/ StallJob(r) \/ Lapse(r) \/ GoSilent(r)
  BY <1>1, <1>10, Zenon DEF Cancel, StallJob, Lapse, GoSilent
<1>11. CASE Change \/ UNCHANGED vars
  BY <1>1, <1>11, Zenon DEF Change, vars
<1>12. QED
  BY <1>2, <1>3, <1>5, <1>6, <1>7, <1>8, <1>9, <1>10, <1>11, Zenon DEF Next, Serve, Work

\* What the steps that cost something must see.
LEMMA StagesAreEntered ==
  ASSUME IInv, [Next]_vars, NEW w \in Workers
  PROVE  /\ Enters(w, {"head", "reasoning", "verification"}) =>
              exec[w].run \notin stopped \ escaped
         /\ Enters(w, Stages) => allowed
<1>1. ExecTypes /\ Heeds
  BY Zenon DEF IInv, TypeOK, ExecTypes
<1>2. CASE Rests(w)
  BY <1>2 DEF Rests, Enters, Stages
<1>3. CASE exec[w].pc = "read" /\ exec'[w].pc = "head"
  BY <1>1, <1>3 DEF Heeds, Enters, Stages
<1>4. CASE allowed /\ exec'[w].pc = "discovery"
  <2>1. ~Enters(w, {"head", "reasoning", "verification"})
    BY <1>4 DEF Enters
  <2>2. QED
    BY <1>4, <2>1, Zenon
<1>5. CASE /\ allowed /\ row[exec[w].run].status # "cancelled"
           /\ exec'[w].pc \in Stages
  <2>1. exec[w].run \notin stopped \ escaped
    BY <1>1, <1>5 DEF Heeds
  <2>2. QED
    BY <1>5, <2>1, Zenon
<1>6. QED
  BY <1>1, <1>2, <1>3, <1>4, <1>5, OnlyThreeSteps, Zenon

\* A cancel stops the next stage of every execution, and so does the loss of the
\* person's access (_checkpoint), but for a cancel that was written over.
THEOREM CancelHolds == Spec => CancelHeeded
<1>1. IInv /\ [Next]_vars =>
        [\A w \in Workers :
           /\ Enters(w, {"head", "reasoning", "verification"}) =>
                exec[w].run \notin stopped \ escaped
           /\ Enters(w, Stages) => allowed]_vars
  BY StagesAreEntered
<1>2. QED
  BY InvariantHolds, <1>1, PTL DEF Spec, CancelHeeded
=============================================================================
