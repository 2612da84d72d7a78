---------------------------- MODULE RfiLogProofs ----------------------------
(***************************************************************************)
(* Theorems about RfiLog for any number of RFIs, findings, requests,       *)
(* workers and scans.  The inductive invariant says what a request in      *)
(* flight knows of the row it has read, and that a finding points at the   *)
(* RFI made from it for as long as that RFI stands.                        *)
(***************************************************************************)
EXTENDS RfiLog, TLAPS

USE RfiAssumption

Exists(id) == rfi[id].status # "none"

\* What is written down of an RFI: numbers never exceed the counter, and an
\* RFI made from a finding is never a draft.
RowsSound ==
  \A id \in Rfis :
    /\ number[id] <= counter
    /\ ~Exists(id) => source[id] = NoFinding /\ rfi[id].answer = NoText
    /\ rfi[id].status \in {"answered", "closed"} => rfi[id].answer # NoText
    /\ Exists(id) => rfi[id].question # NoText
    /\ source[id] # NoFinding => rfi[id].status # "draft"

\* A request that is about to write an RFI has read a row that allowed it,
\* and an answer it saw is still there.
KnowsRow(r) ==
  LET q == request[r]
  IN  /\ q.id \in Rfis
      /\ Exists(q.id)
      /\ q.row.question # NoText
      /\ q.row.status \in {"answered", "closed"} => q.row.answer # NoText
      /\ q.row.answer # NoText => rfi[q.id].answer # NoText
      /\ source[q.id] # NoFinding => q.row.status # "draft"

RequestSound(r) ==
  /\ request[r].kind = "status"
       => KnowsRow(r) /\ request[r].to \in Transitions(request[r].row.status)
  /\ request[r].kind = "edit"
       => /\ KnowsRow(r)
          /\ CanEditQuestion(request[r].row.status)
          /\ request[r].text \in Questions
  /\ request[r].kind = "return"
       => /\ request[r].id \in Rfis /\ request[r].finding \in Findings
          /\ Exists(request[r].id)
          /\ source[request[r].id] = request[r].finding

RequestsSound == \A r \in Requests : RequestSound(r)

\* A finding points at the RFI made from it while nobody has worked on that
\* RFI, and while it stands if its row was never written over.
StandsBehind ==
  \A id \in Rfis :
    source[id] \notin trampled \cup {NoFinding}
    /\ \/ Live(id) /\ id \notin overtaken
       \/ rfi[id].status = "open" /\ rfi[id].answer = NoText
    => /\ candidate[source[id]].status = "accepted"
       /\ candidate[source[id]].rfi = id

\* A worker that is to reopen findings is at a full rescan.
ExecSound(w) ==
  /\ exec[w].pc # "idle" => exec[w].scan \in Scans
  /\ exec[w].reopened # {} => exec[w].pc = "wording" /\ scan[exec[w].scan].fresh

ExecsSound == /\ \A w \in Workers : ExecSound(w)
              /\ \A k \in Scans : scan[k].fresh => scan[k].status # "none"

IInv == /\ TypeOK /\ RowsSound /\ NumbersAreUnique /\ AnswersMatch
        /\ RequestsSound /\ LinksAgree /\ StandsBehind /\ ExecsSound

USE DEF rfiVars, Unworked

-----------------------------------------------------------------------------
\* What a scan saves is a finding.
LEMMA SavedType ==
  ASSUME TypeOK, NEW w \in Workers, Save(w)
  PROVE  candidate' \in [Findings -> Candidate]
<1>1. PICK gone \in SUBSET CodeFindings :
        candidate' = [f \in Findings |->
          IF f \in gone
          THEN [Saved(candidate[f], f, w, gone) EXCEPT !.copy = @ + 1]
          ELSE Saved(candidate[f], f, w, gone)]
  BY DEF Save
<1>2. SUFFICES ASSUME NEW f \in Findings PROVE candidate'[f] \in Candidate
  BY <1>1
<1>3. candidate[f] \in Candidate
  BY DEF TypeOK
<1>4. Saved(candidate[f], f, w, gone) \in Candidate
  BY <1>3 DEF Saved, Candidate, CandidateStatuses
<1>5. [Saved(candidate[f], f, w, gone) EXCEPT !.copy = @ + 1] \in Candidate
  BY <1>4 DEF Candidate
<1>. QED
  BY <1>1, <1>4, <1>5

\* Every step keeps the types, given what requests in flight know.
LEMMA TypeStep ==
  TypeOK /\ RequestsSound /\ [Next]_vars => TypeOK'
<1>. SUFFICES ASSUME TypeOK, RequestsSound, [Next]_vars PROVE TypeOK'
  OBVIOUS
<1>1. ASSUME NEW id \in Rfis, NEW q \in Questions, NEW st \in {"draft", "open"}, CreateByHand(id, st, q) PROVE TypeOK'
  <2>1. [status |-> st, question |-> q, answer |-> NoText] \in Row
    BY DEF Row, Statuses
  <2>. QED
    BY <1>1, <2>1 DEF CreateByHand, TypeOK, CreateRfi, NextNumber
<1>2. ASSUME NEW id \in Rfis, NEW q \in Questions, NEW f \in Findings, Accept(f, id, q) PROVE TypeOK'
  <2>1. [status |-> "open", question |-> q, answer |-> NoText] \in Row
    BY DEF Row, Statuses
  <2>2. candidate[f] \in Candidate
    BY DEF TypeOK
  <2>3. [candidate[f] EXCEPT !.status = "accepted", !.rfi = id] \in Candidate
    BY <2>2 DEF Candidate, CandidateStatuses
  <2>. QED
    BY <1>2, <2>1, <2>2, <2>3 DEF Accept, TypeOK, CreateRfi, NextNumber
<1>3. ASSUME NEW r \in Requests, NEW id \in Rfis, NEW to \in Statuses, ReadForChange(r, id, to) PROVE TypeOK'
  <2>1. [Idle EXCEPT !.kind = "status", !.id = id, !.to = to, !.row = rfi[id]] \in Request
    BY DEF Request, Idle, Done, TypeOK, Row, NoRow, Statuses
  <2>. QED
    BY <1>3, <2>1 DEF ReadForChange, TypeOK
<1>4. ASSUME NEW r \in Requests, NEW id \in Rfis, NEW q \in Questions, ReadForEdit(r, id, q) PROVE TypeOK'
  <2>1. [Idle EXCEPT !.kind = "edit", !.id = id, !.text = q, !.row = rfi[id]] \in Request
    BY DEF Request, Idle, Done, TypeOK, Row, NoRow, Statuses
  <2>. QED
    BY <1>4, <2>1 DEF ReadForEdit, TypeOK
<1>5. ASSUME NEW r \in Requests, WriteStatus(r) PROVE TypeOK'
  <2>1. Done \in Request
    BY DEF Request, Idle, Done, TypeOK, Row, NoRow, Statuses
  <2>2. request[r] \in Request /\ request[r].id \in Rfis
    BY <1>5 DEF WriteStatus, RequestsSound, RequestSound, KnowsRow, TypeOK
  <2>3. request[r].to \in Statuses /\ request[r].row.question \in Questions \cup {NoText}
    BY <1>5, <2>2 DEF WriteStatus, RequestsSound, RequestSound, Transitions, Statuses, Request, Row
  <2>4. \A id \in Rfis : rfi'[id] \in Row
    <3>. SUFFICES ASSUME NEW id \in Rfis PROVE rfi'[id] \in Row
      OBVIOUS
    <3>1. rfi[id] \in Row /\ rfi \in [Rfis -> Row]
      BY DEF TypeOK
    <3>2. CASE id = request[r].id
      <4>1. \E a \in Questions \cup {NoText} :
              rfi'[id] = [rfi[id] EXCEPT !.status = request[r].to, !.answer = a]
        <5>1. CASE request[r].to = "answered"
          BY <5>1, <1>5, <2>3, <3>1, <3>2 DEF WriteStatus
        <5>2. CASE request[r].to # "answered"
          <6>1. rfi[id].answer \in Questions \cup {NoText}
            BY <3>1 DEF Row
          <6>. QED
            BY <5>2, <6>1, <1>5, <3>1, <3>2 DEF WriteStatus
        <5>. QED
          BY <5>1, <5>2
      <4>. QED
        BY <4>1, <3>1, <2>3 DEF Row
    <3>. QED
      BY <3>1, <3>2, <1>5 DEF WriteStatus
  <2>5. overtaken' \subseteq Rfis
    BY <1>5, <2>2 DEF WriteStatus, Overtake, TypeOK
  <2>. QED
    BY <1>5, <2>1, <2>4, <2>5 DEF WriteStatus, TypeOK
<1>6. ASSUME NEW r \in Requests, WriteQuestion(r) PROVE TypeOK'
  <2>1. Done \in Request
    BY DEF Request, Idle, Done, TypeOK, Row, NoRow, Statuses
  <2>2. request[r] \in Request /\ request[r].id \in Rfis
    BY <1>6 DEF WriteQuestion, RequestsSound, RequestSound, KnowsRow, TypeOK
  <2>3. request[r].text \in Questions
    BY <1>6, <2>2 DEF WriteQuestion, RequestsSound, RequestSound
  <2>4. \A id \in Rfis : rfi'[id] \in Row
    BY <1>6, <2>2, <2>3, SMTT(30) DEF WriteQuestion, TypeOK, Row
  <2>5. overtaken' \subseteq Rfis
    BY <1>6, <2>2 DEF WriteQuestion, Overtake, TypeOK
  <2>. QED
    BY <1>6, <2>1, <2>4, <2>5 DEF WriteQuestion, TypeOK
<1>7. ASSUME NEW r \in Requests, Return(r) PROVE TypeOK'
  <2>1. Done \in Request
    BY DEF Request, Idle, Done, TypeOK, Row, NoRow, Statuses
  <2>2. request[r] \in Request /\ request[r].id \in Rfis
    BY <1>7 DEF Return, RequestsSound, RequestSound, TypeOK
  <2>4. \A id \in Rfis : rfi'[id] \in Row
    BY <1>7, <2>2 DEF Return, TypeOK, Row, Statuses
  <2>5. \A f \in Findings : candidate'[f] \in Candidate
    BY <1>7 DEF Return, TypeOK, Candidate, CandidateStatuses
  <2>. QED
    BY <1>7, <2>1, <2>4, <2>5 DEF Return, TypeOK
<1>8. ASSUME NEW f \in Findings, Propose(f) PROVE TypeOK'
  <2>1. [candidate[f] EXCEPT !.status = "pending"] \in Candidate
    BY DEF TypeOK, Candidate, CandidateStatuses
  <2>. QED
    BY <1>8, <2>1 DEF Propose, TypeOK
<1>9. ASSUME NEW f \in Findings, Dismiss(f) PROVE TypeOK'
  <2>1. [candidate[f] EXCEPT !.status = "dismissed"] \in Candidate
    BY DEF TypeOK, Candidate, CandidateStatuses
  <2>. QED
    BY <1>9, <2>1 DEF Dismiss, TypeOK
<1>10. ASSUME NEW f \in Findings, Restore(f) PROVE TypeOK'
  <2>1. [candidate[f] EXCEPT !.status = "pending"] \in Candidate
    BY DEF TypeOK, Candidate, CandidateStatuses
  <2>. QED
    BY <1>10, <2>1 DEF Restore, TypeOK
<1>11. ASSUME NEW f \in Findings, Delete(f) PROVE TypeOK'
  <2>1. candidate[f] \in Candidate
    BY DEF TypeOK
  <2>2. candidate[f].copy + 1 \in Nat
    BY <2>1 DEF Candidate
  <2>3. [candidate[f] EXCEPT !.status = "absent", !.copy = @ + 1] \in Candidate
    BY <2>1, <2>2 DEF Candidate, CandidateStatuses
  <2>. QED
    BY <1>11, <2>1, <2>2, <2>3 DEF Delete, TypeOK
<1>12. ASSUME NEW r \in Requests, NEW f \in Findings, ReadForReturn(r, f) PROVE TypeOK'
  <2>1. [Idle EXCEPT !.kind = "return", !.id = candidate[f].rfi, !.finding = f, !.copy = candidate[f].copy] \in Request
    BY DEF Request, Idle, Done, TypeOK, Row, NoRow, Statuses, Candidate
  <2>. QED
    BY <1>12, <2>1 DEF ReadForReturn, TypeOK
<1>13. ASSUME NEW r \in Requests, NEW fresh \in BOOLEAN, AskScan(r, fresh) PROVE TypeOK'
  <2>1. [Idle EXCEPT !.kind = "scan", !.to = IF fresh THEN "fresh" ELSE "none"] \in Request
    BY DEF Request, Idle, Done, TypeOK, Row, NoRow, Statuses
  <2>. QED
    BY <1>13, <2>1 DEF AskScan, TypeOK
<1>14. ASSUME NEW r \in Requests, CreateScan(r) PROVE TypeOK'
  <2>1. Done \in Request
    BY DEF Request, Idle, Done, TypeOK, Row, NoRow, Statuses
  <2>2. \A k \in Scans : scan'[k] \in Scan
    <3>1. CASE Scans \subseteq Asked
      BY <3>1, <1>14 DEF CreateScan, TypeOK
    <3>2. CASE ~(Scans \subseteq Asked)
      <4>1. PICK k \in Scans :
              scan' = [scan EXCEPT ![k] =
                [status |-> "queued", fresh |-> request[r].to = "fresh",
                 silent |-> FALSE]]
        BY <3>2, <1>14 DEF CreateScan
      <4>2. [status |-> "queued", fresh |-> request[r].to = "fresh",
             silent |-> FALSE] \in Scan
        BY DEF Scan, ScanStatuses
      <4>. QED
        BY <4>1, <4>2 DEF TypeOK
    <3>. QED
      BY <3>1, <3>2
  <2>3. scan' \in [Scans -> Scan]
    BY <1>14, <2>2 DEF CreateScan, TypeOK
  <2>. QED
    BY <1>14, <2>1, <2>2, <2>3 DEF CreateScan, TypeOK
<1>15. ASSUME NEW k \in Scans, StopScan(k) PROVE TypeOK'
  BY <1>15 DEF StopScan, TypeOK, Scan, ScanStatuses
<1>16. ASSUME NEW k \in Scans, GoSilent(k) PROVE TypeOK'
  BY <1>16 DEF GoSilent, TypeOK, Scan, ScanStatuses
<1>17. ASSUME NEW k \in Scans, NEW w \in Workers, PickUp(w, k) PROVE TypeOK'
  <2>1. [NoExec EXCEPT !.pc = scan[k].status, !.scan = k] \in Exec
    BY <1>17 DEF PickUp, Exec, NoExec
  <2>. QED
    BY <1>17, <2>1 DEF PickUp, TypeOK
<1>18. ASSUME NEW w \in Workers, SetRunning(w) PROVE TypeOK'
  <2>1. \A k \in Scans : scan'[k] \in Scan
    BY <1>18 DEF SetRunning, TypeOK, Scan, ScanStatuses
  <2>2. exec' \in [Workers -> Exec]
    BY <1>18 DEF SetRunning, TypeOK, Exec
  <2>. QED
    BY <1>18, <2>1, <2>2 DEF SetRunning, TypeOK
<1>19. ASSUME NEW w \in Workers, Resume(w) PROVE TypeOK'
  <2>1. \A k \in Scans : scan'[k] \in Scan
    BY <1>19 DEF Resume, TypeOK, Scan, ScanStatuses
  <2>2. exec' \in [Workers -> Exec]
    BY <1>19 DEF Resume, TypeOK, Exec
  <2>. QED
    BY <1>19, <2>1, <2>2 DEF Resume, TypeOK
<1>20. ASSUME NEW w \in Workers, NoticeStop(w) PROVE TypeOK'
  BY <1>20 DEF NoticeStop, TypeOK, NoExec, Exec
<1>21. ASSUME NEW w \in Workers, NEW found \in SUBSET CodeFindings, Compare(w, found) PROVE TypeOK'
  <2>1. Reopens(exec[w].scan, found) \in SUBSET CodeFindings
    BY DEF Reopens
  <2>2. \A v \in Workers : exec'[v] \in Exec
    <3>. SUFFICES ASSUME NEW v \in Workers PROVE exec'[v] \in Exec
      OBVIOUS
    <3>1. exec[v] \in Exec /\ exec[w] \in Exec
      BY DEF TypeOK
    <3>2. CASE v = w
      <4>1. exec'[v] = [exec[w] EXCEPT !.pc = "wording", !.found = found,
                         !.reopened = Reopens(exec[w].scan, found)]
        BY <1>21, <3>2 DEF Compare, TypeOK
      <4>. QED
        BY <4>1, <3>1, <2>1 DEF Exec
    <3>. QED
      BY <3>1, <3>2, <1>21 DEF Compare, TypeOK
  <2>. QED
    BY <1>21, <2>1, <2>2 DEF Compare, TypeOK
<1>22. ASSUME NEW w \in Workers, Save(w) PROVE TypeOK'
  <2>1. NoExec \in Exec
    BY DEF NoExec, Exec
  <2>2. candidate' \in [Findings -> Candidate]
    BY <1>22, SavedType
  <2>3. \A k \in Scans : scan'[k] \in Scan
    BY <1>22 DEF Save, TypeOK, Scan, ScanStatuses
  <2>4. trampled' \subseteq Findings
    BY <1>22 DEF Save, TypeOK, Exec
  <2>. QED
    BY <1>22, <2>1, <2>2, <2>3, <2>4 DEF Save, TypeOK
<1>23. ASSUME NEW w \in Workers, FailScan(w) PROVE TypeOK'
  <2>1. \A k \in Scans : scan'[k] \in Scan
    BY <1>23 DEF FailScan, TypeOK, Scan, ScanStatuses
  <2>2. exec' \in [Workers -> Exec]
    BY <1>23 DEF FailScan, NoExec, TypeOK, Exec
  <2>. QED
    BY <1>23, <2>1, <2>2 DEF FailScan, TypeOK
<1>24. ASSUME NEW w \in Workers, CrashWorker(w) PROVE TypeOK'
  BY <1>24 DEF CrashWorker, TypeOK, NoExec, Exec
<1>30. CASE UNCHANGED vars
  BY <1>30 DEF vars, TypeOK
<1>. QED
  BY <1>1, <1>2, <1>3, <1>4, <1>5, <1>6, <1>7, <1>8, <1>9, <1>10, <1>11, <1>12, <1>13, <1>14, <1>15, <1>16, <1>17, <1>18, <1>19, <1>20, <1>21, <1>22, <1>23, <1>24, <1>30
     DEF Next, LogStep, FindingStep, ScanStep
-----------------------------------------------------------------------------
\* The invariant holds at the start.
LEMMA InitInv ==
  Init => IInv
<1>. SUFFICES ASSUME Init PROVE IInv
  OBVIOUS
<1>1. TypeOK
  <2>1. NoRow \in Row /\ Idle \in Request /\ NoExec \in Exec
    BY DEF NoRow, Row, Idle, Request, NoExec, Exec, Statuses
  <2>. QED
    BY <2>1 DEF Init, TypeOK, Candidate, CandidateStatuses, Scan, ScanStatuses
<1>2. RowsSound /\ NumbersAreUnique /\ AnswersMatch /\ StandsBehind
  BY DEF Init, RowsSound, NumbersAreUnique, AnswersMatch, StandsBehind, NoRow,
         Exists, Live
<1>3. RequestsSound /\ ExecsSound /\ LinksAgree
  BY DEF Init, RequestsSound, RequestSound, ExecsSound, ExecSound, LinksAgree, Idle, NoExec
<1>. QED
  BY <1>1, <1>2, <1>3 DEF IInv

\* The rows of the log change by five actions only.
LEMMA LogChanges ==
  ASSUME Next
  PROVE  \/ \E id \in Rfis, q \in Questions :
              \/ \E st \in {"draft", "open"} : CreateByHand(id, st, q)
              \/ \E f \in Findings : Accept(f, id, q)
         \/ \E r \in Requests : WriteStatus(r) \/ WriteQuestion(r) \/ Return(r)
         \/ UNCHANGED <<rfi, number, source, counter, overtaken>>
<1>1. CASE LogStep
  BY <1>1 DEF LogStep, ReadForChange, ReadForEdit
<1>2. CASE FindingStep
  BY <1>2 DEF FindingStep, Propose, Dismiss, Restore, Delete, ReadForReturn
<1>3. CASE ScanStep
  BY <1>3 DEF ScanStep, CreateScan, AskScan, StopScan, GoSilent, PickUp,
              SetRunning, Resume, NoticeStop, Compare, Save, FailScan,
              CrashWorker
<1>. QED
  BY <1>1, <1>2, <1>3 DEF Next

\* What a request writes: the row it names, from the row it has read.
LEMMA WritesKnow ==
  ASSUME IInv, NEW r \in Requests, WriteStatus(r) \/ WriteQuestion(r)
  PROVE  /\ request[r].id \in Rfis /\ KnowsRow(r)
         /\ \A id \in Rfis \ {request[r].id} : rfi'[id] = rfi[id]
         /\ UNCHANGED <<number, source, counter, candidate, trampled>>
         /\ overtaken' = IF rfi[request[r].id] = request[r].row THEN overtaken
                         ELSE overtaken \cup {request[r].id}
         /\ WriteStatus(r) =>
              /\ request[r].to \in Transitions(request[r].row.status)
              /\ rfi'[request[r].id].status = request[r].to
              /\ rfi'[request[r].id].question = rfi[request[r].id].question
              /\ rfi'[request[r].id].answer =
                   IF request[r].to = "answered" THEN request[r].row.question
                   ELSE rfi[request[r].id].answer
         /\ WriteQuestion(r) =>
              /\ CanEditQuestion(request[r].row.status)
              /\ rfi'[request[r].id].status = rfi[request[r].id].status
              /\ rfi'[request[r].id].question = request[r].text
              /\ rfi'[request[r].id].answer = rfi[request[r].id].answer
              /\ request[r].text \in Questions
<1>. USE DEF IInv
<1>1. request[r].id \in Rfis /\ KnowsRow(r)
  BY DEF WriteStatus, WriteQuestion, RequestsSound, RequestSound, KnowsRow
<1>2. rfi \in [Rfis -> Row]
  BY DEF TypeOK
<1>3. CASE WriteStatus(r)
  <2>1. request[r].kind = "status"
    BY <1>3 DEF WriteStatus
  <2>. QED
    BY <1>1, <1>2, <1>3, <2>1
       DEF WriteStatus, WriteQuestion, RequestsSound, RequestSound, Overtake, Row
<1>4. CASE WriteQuestion(r)
  <2>1. request[r].kind = "edit"
    BY <1>4 DEF WriteQuestion
  <2>. QED
    BY <1>1, <1>2, <1>4, <2>1
       DEF WriteStatus, WriteQuestion, RequestsSound, RequestSound, Overtake, Row
<1>. QED
  BY <1>3, <1>4

\* What raising an RFI writes: one new row with the next number.
LEMMA CreateKnows ==
  ASSUME IInv, NEW id \in Rfis, NEW q \in Questions,
         NEW st \in {"draft", "open"}, CreateRfi(id, st, q)
  PROVE  /\ ~Exists(id) /\ source[id] = NoFinding
         /\ counter' = counter + 1 /\ counter \in Nat
         /\ number'[id] = counter + 1
         /\ rfi'[id] = [status |-> st, question |-> q, answer |-> NoText]
         /\ \A i \in Rfis \ {id} : rfi'[i] = rfi[i] /\ number'[i] = number[i]
BY DEF IInv, TypeOK, RowsSound, CreateRfi, NextNumber, Exists

\* Every step keeps the rows sound, the numbers apart and the answers.
LEMMA RowsStep ==
  ASSUME IInv, Next
  PROVE  RowsSound' /\ NumbersAreUnique' /\ AnswersMatch'
<1>. USE DEF IInv
<1>1. ASSUME NEW id \in Rfis, NEW q \in Questions, NEW st \in {"draft", "open"},
             CreateByHand(id, st, q)
      PROVE  RowsSound' /\ NumbersAreUnique' /\ AnswersMatch'
  <2>1. CreateRfi(id, st, q) /\ UNCHANGED <<source, overtaken>>
    BY <1>1 DEF CreateByHand
  <2>2. /\ ~Exists(id) /\ counter' = counter + 1 /\ counter \in Nat
        /\ number'[id] = counter + 1 /\ source[id] = NoFinding
        /\ rfi'[id] = [status |-> st, question |-> q, answer |-> NoText]
        /\ \A i \in Rfis \ {id} : rfi'[i] = rfi[i] /\ number'[i] = number[i]
    BY <2>1, CreateKnows
  <2>3. \A i \in Rfis : number[i] \in Nat /\ number[i] <= counter
    BY DEF TypeOK, RowsSound
  <2>4. RowsSound'
    BY <2>1, <2>2, <2>3 DEF RowsSound, Exists, TypeOK
  <2>5. NumbersAreUnique'
    BY <2>2, <2>3 DEF NumbersAreUnique, Exists
  <2>6. AnswersMatch'
    BY <2>1, <2>2 DEF AnswersMatch
  <2>. QED
    BY <2>4, <2>5, <2>6
<1>2. ASSUME NEW id \in Rfis, NEW q \in Questions, NEW f \in Findings,
             Accept(f, id, q)
      PROVE  RowsSound' /\ NumbersAreUnique' /\ AnswersMatch'
  <2>1. CreateRfi(id, "open", q) /\ UNCHANGED overtaken
        /\ source' = [source EXCEPT ![id] = f]
    BY <1>2 DEF Accept
  <2>2. /\ ~Exists(id) /\ counter' = counter + 1 /\ counter \in Nat
        /\ number'[id] = counter + 1 /\ source[id] = NoFinding
        /\ rfi'[id] = [status |-> "open", question |-> q, answer |-> NoText]
        /\ \A i \in Rfis \ {id} : rfi'[i] = rfi[i] /\ number'[i] = number[i]
    BY <2>1, CreateKnows
  <2>3. \A i \in Rfis : number[i] \in Nat /\ number[i] <= counter
    BY DEF TypeOK, RowsSound
  <2>4. RowsSound'
    BY <2>1, <2>2, <2>3 DEF RowsSound, Exists, TypeOK
  <2>5. NumbersAreUnique'
    BY <2>2, <2>3 DEF NumbersAreUnique, Exists
  <2>6. AnswersMatch'
    BY <2>1, <2>2 DEF AnswersMatch
  <2>. QED
    BY <2>4, <2>5, <2>6
<1>3. ASSUME NEW r \in Requests, WriteStatus(r)
      PROVE  RowsSound' /\ NumbersAreUnique' /\ AnswersMatch'
  <2>. USE <1>3, WritesKnow DEF KnowsRow, Transitions
  <2>1. RowsSound'
    BY DEF RowsSound, Exists
  <2>2. NumbersAreUnique'
    BY DEF NumbersAreUnique, Exists
  <2>3. AnswersMatch'
    BY DEF AnswersMatch
  <2>. QED
    BY <2>1, <2>2, <2>3
<1>4. ASSUME NEW r \in Requests, WriteQuestion(r)
      PROVE  RowsSound' /\ NumbersAreUnique' /\ AnswersMatch'
  <2>. USE <1>4, WritesKnow DEF KnowsRow, CanEditQuestion
  <2>1. RowsSound'
    BY DEF RowsSound, Exists
  <2>2. NumbersAreUnique'
    BY DEF NumbersAreUnique, Exists
  <2>3. AnswersMatch'
    BY DEF AnswersMatch
  <2>. QED
    BY <2>1, <2>2, <2>3
<1>5. ASSUME NEW r \in Requests, Return(r)
      PROVE  RowsSound' /\ NumbersAreUnique' /\ AnswersMatch'
  <2>1. UNCHANGED <<number, source, counter, overtaken>>
    BY <1>5 DEF Return
  <2>2. \A id \in Rfis : \/ rfi'[id] = rfi[id]
                         \/ /\ Exists(id)
                            /\ rfi'[id] = [rfi[id] EXCEPT !.status = "voided"]
    BY <1>5 DEF Return, TypeOK, Exists
  <2>3. \A id \in Rfis : rfi[id] \in Row
    BY DEF TypeOK
  <2>4. \A id \in Rfis :
          \/ rfi'[id] = rfi[id]
          \/ /\ Exists(id) /\ rfi'[id].status = "voided"
             /\ rfi'[id].question = rfi[id].question
    BY <2>2, <2>3 DEF Row
  <2>. QED
    BY <2>1, <2>4 DEF RowsSound, NumbersAreUnique, AnswersMatch, Exists
<1>6. CASE UNCHANGED <<rfi, number, source, counter, overtaken>>
  BY <1>6 DEF RowsSound, NumbersAreUnique, AnswersMatch, Exists
<1>. QED
  BY <1>1, <1>2, <1>3, <1>4, <1>5, <1>6, LogChanges

\* A row of the log stays, with its source, and an answer is never lost.
LEMMA RowsGrow ==
  ASSUME IInv, Next
  PROVE  \A id \in Rfis :
           Exists(id) => /\ Exists(id)' /\ source'[id] = source[id]
                         /\ rfi[id].answer # NoText => rfi'[id].answer # NoText
<1>. USE DEF IInv
<1>1. ASSUME NEW id \in Rfis, NEW q \in Questions,
             \/ \E st \in {"draft", "open"} : CreateByHand(id, st, q)
             \/ \E f \in Findings : Accept(f, id, q)
      PROVE  \A i \in Rfis : Exists(i) => rfi'[i] = rfi[i] /\ source'[i] = source[i]
  <2>1. \E st \in {"draft", "open"} : CreateRfi(id, st, q)
    BY <1>1 DEF CreateByHand, Accept
  <2>2. /\ ~Exists(id)
        /\ \A i \in Rfis \ {id} : rfi'[i] = rfi[i]
    BY <2>1, CreateKnows
  <2>3. \A i \in Rfis \ {id} : source'[i] = source[i]
    BY <1>1 DEF CreateByHand, Accept, TypeOK
  <2>. QED
    BY <2>2, <2>3
<1>2. ASSUME NEW r \in Requests, WriteStatus(r) \/ WriteQuestion(r)
      PROVE  \A i \in Rfis :
               Exists(i) => /\ Exists(i)' /\ source'[i] = source[i]
                            /\ rfi[i].answer # NoText => rfi'[i].answer # NoText
  BY <1>2, WritesKnow DEF KnowsRow, Transitions, Exists
<1>3. ASSUME NEW r \in Requests, Return(r)
      PROVE  \A i \in Rfis :
               Exists(i) => /\ Exists(i)' /\ source'[i] = source[i]
                            /\ rfi'[i].answer = rfi[i].answer
  <2>1. \A id \in Rfis : \/ rfi'[id] = rfi[id]
                         \/ rfi'[id] = [rfi[id] EXCEPT !.status = "voided"]
    BY <1>3 DEF Return, TypeOK
  <2>2. \A id \in Rfis : rfi[id] \in Row
    BY DEF TypeOK
  <2>3. \A id \in Rfis : /\ rfi'[id].answer = rfi[id].answer
                         /\ rfi'[id].status \in {rfi[id].status, "voided"}
    BY <2>1, <2>2, ZenonT(30) DEF Row
  <2>. QED
    BY <2>3, <1>3 DEF Return, Exists
<1>4. CASE UNCHANGED <<rfi, number, source, counter, overtaken>>
  BY <1>4 DEF Exists
<1>. QED
  BY <1>1, <1>2, <1>3, <1>4, LogChanges DEF Exists

\* A request goes on as it was, is done, or has just read what it needs.
LEMMA RequestsStep ==
  ASSUME IInv, Next
  PROVE  RequestsSound'
<1>. USE DEF IInv, RequestsSound
<1>1. ASSUME NEW r \in Requests, request'[r] = request[r]
      PROVE  RequestSound(r)'
  <2>1. RequestSound(r)
    OBVIOUS
  <2>2. request[r].kind \in {"status", "edit"} => KnowsRow(r)'
    <3>1. ASSUME KnowsRow(r) PROVE KnowsRow(r)'
      BY <1>1, <3>1, RowsGrow DEF KnowsRow
    <3>. QED
      BY <2>1, <3>1 DEF RequestSound
  <2>3. request[r].kind = "return"
          => /\ Exists(request[r].id)'
             /\ source'[request[r].id] = source[request[r].id]
    <3>1. request[r].kind = "return"
            => request[r].id \in Rfis /\ Exists(request[r].id)
      BY <2>1 DEF RequestSound
    <3>. QED
      BY <1>1, <3>1, RowsGrow DEF Exists
  <2>. QED
    BY <1>1, <2>1, <2>2, <2>3 DEF RequestSound
<1>2. ASSUME NEW r \in Requests, request'[r] = Done
      PROVE  RequestSound(r)'
  BY <1>2 DEF RequestSound, Done, Idle
<1>3. request \in [Requests -> Request]
  BY DEF TypeOK
<1>4. ASSUME NEW r \in Requests, NEW id \in Rfis, NEW to \in Statuses,
             ReadForChange(r, id, to)
      PROVE  RequestsSound'
  <2>1. \A p \in Requests \ {r} : request'[p] = request[p]
    BY <1>4, <1>3 DEF ReadForChange
  <2>2. request'[r] = [Idle EXCEPT !.kind = "status", !.id = id, !.to = to,
                                   !.row = rfi[id]]
    BY <1>4, <1>3 DEF ReadForChange
  <2>3. /\ request'[r].kind = "status" /\ request'[r].id = id
        /\ request'[r].to = to /\ request'[r].row = rfi[id]
    BY <2>2 DEF Idle
  <2>4. UNCHANGED <<rfi, source>> /\ to \in Transitions(rfi[id].status)
    BY <1>4 DEF ReadForChange
  <2>5. KnowsRow(r)'
    BY <2>3, <2>4 DEF KnowsRow, RowsSound, Exists, Transitions
  <2>6. RequestSound(r)'
    BY <2>3, <2>4, <2>5 DEF RequestSound
  <2>. QED
    BY <2>1, <2>6, <1>1
<1>5. ASSUME NEW r \in Requests, NEW id \in Rfis, NEW q \in Questions,
             ReadForEdit(r, id, q)
      PROVE  RequestsSound'
  <2>1. \A p \in Requests \ {r} : request'[p] = request[p]
    BY <1>5, <1>3 DEF ReadForEdit
  <2>2. request'[r] = [Idle EXCEPT !.kind = "edit", !.id = id, !.text = q,
                                   !.row = rfi[id]]
    BY <1>5, <1>3 DEF ReadForEdit
  <2>3. /\ request'[r].kind = "edit" /\ request'[r].id = id
        /\ request'[r].text = q /\ request'[r].row = rfi[id]
    BY <2>2 DEF Idle
  <2>4. UNCHANGED <<rfi, source>> /\ CanEditQuestion(rfi[id].status)
    BY <1>5 DEF ReadForEdit
  <2>5. KnowsRow(r)'
    BY <2>3, <2>4 DEF KnowsRow, RowsSound, Exists, CanEditQuestion
  <2>6. RequestSound(r)'
    BY <2>3, <2>4, <2>5 DEF RequestSound
  <2>. QED
    BY <2>1, <2>6, <1>1
<1>6. ASSUME NEW r \in Requests, NEW f \in Findings, ReadForReturn(r, f)
      PROVE  RequestsSound'
  <2>1. \A p \in Requests \ {r} : request'[p] = request[p]
    BY <1>6, <1>3 DEF ReadForReturn
  <2>2. request'[r] = [Idle EXCEPT !.kind = "return", !.id = candidate[f].rfi,
                                   !.finding = f, !.copy = candidate[f].copy]
    BY <1>6, <1>3 DEF ReadForReturn
  <2>3. /\ request'[r].kind = "return" /\ request'[r].id = candidate[f].rfi
        /\ request'[r].finding = f
    BY <2>2 DEF Idle
  <2>4. UNCHANGED <<rfi, source>> /\ candidate[f].status = "accepted"
    BY <1>6 DEF ReadForReturn
  <2>5. /\ candidate[f].rfi \in Rfis /\ source[candidate[f].rfi] = f
        /\ Exists(candidate[f].rfi)
    BY <2>4 DEF LinksAgree, Exists, TypeOK, Candidate
  <2>6. RequestSound(r)'
    BY <2>3, <2>4, <2>5 DEF RequestSound, Exists
  <2>. QED
    BY <2>1, <2>6, <1>1
<1>7. ASSUME NEW r \in Requests, NEW fresh \in BOOLEAN, AskScan(r, fresh)
      PROVE  RequestsSound'
  <2>1. \A p \in Requests \ {r} : request'[p] = request[p]
    BY <1>7, <1>3 DEF AskScan
  <2>2. request'[r].kind = "scan"
    BY <1>7, <1>3 DEF AskScan, Idle
  <2>3. RequestSound(r)'
    BY <2>2 DEF RequestSound
  <2>. QED
    BY <2>1, <2>3, <1>1
<1>8. ASSUME \A r \in Requests : request'[r] = request[r] \/ request'[r] = Done
      PROVE  RequestsSound'
  BY <1>8, <1>1, <1>2
<1>9. CASE LogStep
  BY <1>3, <1>4, <1>5, <1>8, <1>9
     DEF LogStep, CreateByHand, Accept, WriteStatus, WriteQuestion, Return
<1>10. CASE FindingStep
  BY <1>6, <1>8, <1>10 DEF FindingStep, Propose, Dismiss, Restore, Delete
<1>11. CASE ScanStep
  BY <1>3, <1>7, <1>8, <1>11
     DEF ScanStep, CreateScan, StopScan, GoSilent, PickUp, SetRunning, Resume,
         NoticeStop, Compare, Save, FailScan, CrashWorker
<1>. QED
  BY <1>9, <1>10, <1>11 DEF Next

\* A scan that was asked for as a full rescan stays one.
LEMMA ScansGrow ==
  ASSUME IInv, Next
  PROVE  \A k \in Scans : /\ scan[k].fresh => scan'[k].fresh
                          /\ scan'[k].fresh => scan'[k].status # "none"
<1>. USE DEF IInv, ExecsSound, ScanStatuses
<1>1. scan \in [Scans -> Scan]
  BY DEF TypeOK
<1>2. CASE UNCHANGED scan
  BY <1>2
<1>3. ASSUME NEW r \in Requests, CreateScan(r)
      PROVE  \A k \in Scans : /\ scan[k].fresh => scan'[k].fresh
                              /\ scan'[k].fresh => scan'[k].status # "none"
  BY <1>1, <1>3 DEF CreateScan, Asked
<1>4. ASSUME NEW k \in Scans, StopScan(k) \/ GoSilent(k)
      PROVE  \A j \in Scans : /\ scan[j].fresh => scan'[j].fresh
                              /\ scan'[j].fresh => scan'[j].status # "none"
  BY <1>1, <1>4 DEF StopScan, GoSilent, Scan
<1>5. ASSUME NEW w \in Workers,
             SetRunning(w) \/ Resume(w) \/ Save(w) \/ FailScan(w)
      PROVE  \A j \in Scans : /\ scan[j].fresh => scan'[j].fresh
                              /\ scan'[j].fresh => scan'[j].status # "none"
  <2>1. CASE SetRunning(w)
    BY <1>1, <2>1 DEF SetRunning, Scan
  <2>2. CASE Resume(w)
    BY <1>1, <2>2 DEF Resume, Scan
  <2>3. CASE Save(w)
    <3>1. scan' = [scan EXCEPT ![exec[w].scan].status = "completed",
                               ![exec[w].scan].silent = FALSE]
      BY <2>3 DEF Save
    <3>. QED
      BY <1>1, <3>1 DEF Scan
  <2>4. CASE FailScan(w)
    BY <1>1, <2>4 DEF FailScan, Scan
  <2>. QED
    BY <1>5, <2>1, <2>2, <2>3, <2>4
<1>6. CASE LogStep
  BY <1>2, <1>6 DEF LogStep, CreateByHand, Accept, ReadForChange, ReadForEdit,
                    WriteStatus, WriteQuestion, Return
<1>7. CASE FindingStep
  BY <1>2, <1>7
     DEF FindingStep, Propose, Dismiss, Restore, Delete, ReadForReturn
<1>8. CASE ScanStep
  BY <1>2, <1>3, <1>4, <1>5, <1>8
     DEF ScanStep, AskScan, PickUp, NoticeStop, Compare, CrashWorker
<1>. QED
  BY <1>6, <1>7, <1>8 DEF Next

\* Every step keeps what a worker knows of its scan.
LEMMA ExecsStep ==
  ASSUME IInv, Next
  PROVE  ExecsSound'
<1>. USE DEF IInv, ExecsSound
<1>1. exec \in [Workers -> Exec]
  BY DEF TypeOK
<1>2. ASSUME NEW w \in Workers, exec'[w] = exec[w] \/ exec'[w] = NoExec
      PROVE  ExecSound(w)'
  <2>1. CASE exec'[w] = exec[w]
    <3>1. ExecSound(w) /\ exec[w] \in Exec
      BY <1>1
    <3>2. exec[w].reopened # {} => exec[w].scan \in Scans
      BY <3>1 DEF ExecSound
    <3>. QED
      BY <2>1, <3>1, <3>2, ScansGrow DEF ExecSound
  <2>2. CASE exec'[w] = NoExec
    BY <2>2 DEF ExecSound, NoExec
  <2>. QED
    BY <1>2, <2>1, <2>2
<1>3. ASSUME \A w \in Workers : exec'[w] = exec[w] \/ exec'[w] = NoExec
      PROVE  \A w \in Workers : ExecSound(w)'
  BY <1>2, <1>3
<1>4. ASSUME NEW w \in Workers, NEW k \in Scans, PickUp(w, k)
      PROVE  \A v \in Workers : ExecSound(v)'
  <2>1. \A v \in Workers \ {w} : exec'[v] = exec[v]
    BY <1>1, <1>4 DEF PickUp
  <2>2. exec'[w].scan = k /\ exec'[w].reopened = {}
    BY <1>1, <1>4 DEF PickUp, NoExec
  <2>. QED
    BY <2>1, <2>2, <1>2 DEF ExecSound
<1>5. ASSUME NEW w \in Workers, SetRunning(w) \/ Resume(w)
      PROVE  \A v \in Workers : ExecSound(v)'
  <2>1. \A v \in Workers \ {w} : exec'[v] = exec[v]
    BY <1>1, <1>5 DEF SetRunning, Resume
  <2>2. exec[w] \in Exec /\ ExecSound(w) /\ exec[w].pc \in {"queued", "running"}
    BY <1>1, <1>5 DEF SetRunning, Resume
  <2>3. exec'[w].scan = exec[w].scan /\ exec'[w].reopened = exec[w].reopened
    BY <1>1, <1>5, <2>2 DEF SetRunning, Resume, Exec
  <2>4. ExecSound(w)'
    BY <2>2, <2>3 DEF ExecSound
  <2>. QED
    BY <2>1, <2>4, <1>2
<1>6. ASSUME NEW w \in Workers, NEW found \in SUBSET CodeFindings,
             Compare(w, found)
      PROVE  \A v \in Workers : ExecSound(v)'
  <2>1. \A v \in Workers \ {w} : exec'[v] = exec[v]
    BY <1>1, <1>6 DEF Compare
  <2>2. exec[w] \in Exec /\ ExecSound(w) /\ exec[w].pc = "checks"
    BY <1>1, <1>6 DEF Compare
  <2>3. /\ exec'[w].scan = exec[w].scan /\ exec'[w].pc = "wording"
        /\ exec'[w].reopened = Reopens(exec[w].scan, found)
    BY <1>1, <1>6, <2>2 DEF Compare, Exec
  <2>4. UNCHANGED scan
    BY <1>6 DEF Compare
  <2>5. ExecSound(w)'
    BY <2>2, <2>3, <2>4 DEF ExecSound, Reopens
  <2>. QED
    BY <2>1, <2>5, <1>2
<1>7. CASE LogStep
  BY <1>3, <1>7 DEF LogStep, CreateByHand, Accept, ReadForChange, ReadForEdit,
                    WriteStatus, WriteQuestion, Return
<1>8. CASE FindingStep
  BY <1>3, <1>8
     DEF FindingStep, Propose, Dismiss, Restore, Delete, ReadForReturn
<1>9. CASE ScanStep
  <2>1. \/ \E w \in Workers, k \in Scans : PickUp(w, k)
        \/ \E w \in Workers : SetRunning(w) \/ Resume(w)
        \/ \E w \in Workers, found \in SUBSET CodeFindings : Compare(w, found)
        \/ \A v \in Workers : exec'[v] = exec[v] \/ exec'[v] = NoExec
    BY <1>1, <1>9 DEF ScanStep, CreateScan, AskScan, StopScan, GoSilent,
                      NoticeStop, Save, FailScan, CrashWorker
  <2>2. CASE \A v \in Workers : exec'[v] = exec[v] \/ exec'[v] = NoExec
    BY <2>2, <1>3, ScansGrow
  <2>. QED
    BY <2>1, <2>2, <1>4, <1>5, <1>6, ScansGrow
<1>. QED
  BY <1>7, <1>8, <1>9, ScansGrow DEF Next
\* While a person has not accepted a finding, no RFI needs it.
LEMMA NotNeeded ==
  ASSUME IInv, NEW f \in Findings, candidate[f].status # "accepted",
         NEW i \in Rfis, source[i] = f, f \notin trampled
  PROVE  /\ ~(Live(i) /\ i \notin overtaken)
         /\ ~(rfi[i].status = "open" /\ rfi[i].answer = NoText)
BY DEF IInv, StandsBehind

\* Proposing, dismissing, restoring or deleting a finding leaves the links.
LEMMA DecisionKeepsLinks ==
  ASSUME IInv, NEW f \in Findings, candidate[f].status # "accepted",
         UNCHANGED <<rfi, source, overtaken, trampled>>,
         \A g \in Findings \ {f} : candidate'[g] = candidate[g],
         candidate'[f].rfi = candidate[f].rfi, candidate'[f].status # "accepted"
  PROVE  LinksAgree' /\ StandsBehind'
<1>. USE DEF IInv
<1>1. LinksAgree'
  BY DEF LinksAgree
<1>2. StandsBehind'
  <2>. SUFFICES ASSUME NEW i \in Rfis, source[i] \notin trampled \cup {NoFinding},
                       \/ Live(i) /\ i \notin overtaken
                       \/ rfi[i].status = "open" /\ rfi[i].answer = NoText
                PROVE  /\ candidate'[source[i]].status = "accepted"
                       /\ candidate'[source[i]].rfi = i
    BY DEF StandsBehind, Live
  <2>1. source[i] \in Findings
    BY DEF TypeOK
  <2>2. source[i] # f
    BY NotNeeded
  <2>. QED
    BY <2>1, <2>2 DEF StandsBehind
<1>. QED
  BY <1>1, <1>2

\* Accepting a finding links it to a new RFI.
LEMMA AcceptKeepsLinks ==
  ASSUME IInv, Next, NEW f \in Findings, NEW id \in Rfis, NEW q \in Questions,
         Accept(f, id, q)
  PROVE  LinksAgree' /\ StandsBehind'
<1>. USE DEF IInv
<1>1. CreateRfi(id, "open", q)
  BY DEF Accept
<1>2. /\ ~Exists(id) /\ rfi'[id].status = "open"
      /\ \A i \in Rfis \ {id} : rfi'[i] = rfi[i]
  <2>1. /\ ~Exists(id)
        /\ rfi'[id] = [status |-> "open", question |-> q, answer |-> NoText]
        /\ \A i \in Rfis \ {id} : rfi'[i] = rfi[i]
    BY <1>1, CreateKnows
  <2>. QED
    BY <2>1
<1>3. /\ source' = [source EXCEPT ![id] = f] /\ candidate[f].status = "pending"
      /\ UNCHANGED <<overtaken, trampled>>
  BY DEF Accept
<1>4. /\ candidate'[f].status = "accepted" /\ candidate'[f].rfi = id
      /\ \A g \in Findings \ {f} : candidate'[g] = candidate[g]
  <2>1. candidate[f] \in Candidate /\ candidate \in [Findings -> Candidate]
    BY DEF TypeOK
  <2>. QED
    BY <2>1 DEF Accept, Candidate
<1>5. source'[id] = f /\ \A i \in Rfis \ {id} : source'[i] = source[i]
  BY <1>3 DEF TypeOK
<1>6. LinksAgree'
  <2>1. \A g \in Findings : candidate[g].rfi \in Rfis \cup {NoRfi}
    BY DEF TypeOK, Candidate
  <2>2. \A g \in Findings : candidate[g].rfi # id
    BY <1>2 DEF LinksAgree, Exists
  <2>. QED
    BY <1>2, <1>4, <1>5, <2>1, <2>2 DEF LinksAgree
<1>7. StandsBehind'
  <2>. SUFFICES ASSUME NEW i \in Rfis, source'[i] \notin trampled \cup {NoFinding},
                       \/ Live(i)' /\ i \notin overtaken
                       \/ rfi'[i].status = "open" /\ rfi'[i].answer = NoText
                PROVE  /\ candidate'[source'[i]].status = "accepted"
                       /\ candidate'[source'[i]].rfi = i
    BY <1>3 DEF StandsBehind
  <2>1. CASE i = id
    BY <2>1, <1>4, <1>5
  <2>2. CASE i # id
    <3>1. source[i] \in Findings /\ source'[i] = source[i] /\ rfi'[i] = rfi[i]
      BY <2>2, <1>2, <1>5 DEF TypeOK
    <3>2. source[i] # f
      BY <3>1, <1>3, NotNeeded DEF Live
    <3>. QED
      BY <3>1, <3>2, <1>4 DEF StandsBehind, Live
  <2>. QED
    BY <2>1, <2>2
<1>. QED
  BY <1>6, <1>7

\* Writing an RFI that was read leaves the links.
LEMMA WriteKeepsLinks ==
  ASSUME IInv, Next, NEW r \in Requests, WriteStatus(r) \/ WriteQuestion(r)
  PROVE  LinksAgree' /\ StandsBehind'
<1>. USE DEF IInv
<1>1. UNCHANGED <<source, candidate, trampled>>
  BY WritesKnow
<1>2. LinksAgree'
  <2>1. \A f \in Findings : candidate[f].rfi \in Rfis \cup {NoRfi}
    BY DEF TypeOK, Candidate
  <2>. QED
    BY <1>1, <2>1, RowsGrow DEF LinksAgree, Exists
<1>3. StandsBehind'
  <2>. SUFFICES ASSUME NEW i \in Rfis, source[i] \notin trampled \cup {NoFinding},
                       \/ Live(i)' /\ i \notin overtaken'
                       \/ rfi'[i].status = "open" /\ rfi'[i].answer = NoText
                PROVE  \/ Live(i) /\ i \notin overtaken
                       \/ rfi[i].status = "open" /\ rfi[i].answer = NoText
    BY <1>1 DEF StandsBehind
  <2>1. CASE i # request[r].id
    BY <2>1, WritesKnow DEF Live
  <2>2. CASE i = request[r].id /\ Live(i)' /\ i \notin overtaken'
    BY <2>2, WritesKnow DEF Live, KnowsRow, Transitions, CanEditQuestion
  <2>3. CASE /\ i = request[r].id
             /\ rfi'[i].status = "open" /\ rfi'[i].answer = NoText
    BY <2>3, WritesKnow DEF KnowsRow, Transitions
  <2>. QED
    BY <2>1, <2>2, <2>3
<1>. QED
  BY <1>2, <1>3

\* Taking an RFI back takes the link with it.
LEMMA ReturnKeepsLinks ==
  ASSUME IInv, NEW r \in Requests, Return(r)
  PROVE  LinksAgree' /\ StandsBehind'
<1>. USE DEF IInv
<1>. DEFINE id == request[r].id
            f == request[r].finding
<1>1. /\ id \in Rfis /\ f \in Findings /\ source[id] = f
      /\ UNCHANGED <<source, overtaken, trampled>>
  BY DEF Return, RequestsSound, RequestSound
<1>2. CASE UNCHANGED <<rfi, candidate>>
  BY <1>1, <1>2 DEF LinksAgree, StandsBehind, Live
<1>3. CASE /\ rfi[id].status \in {"draft", "open"} /\ rfi[id].answer = NoText
           /\ rfi' = [rfi EXCEPT ![id].status = "voided"]
           /\ candidate' = [candidate EXCEPT ![f].status = "pending",
                                             ![f].rfi = NoRfi]
  <2>1. rfi \in [Rfis -> Row] /\ candidate \in [Findings -> Candidate]
    BY DEF TypeOK
  <2>2. /\ rfi'[id].status = "voided"
        /\ \A i \in Rfis \ {id} : rfi'[i] = rfi[i]
    BY <1>1, <1>3, <2>1 DEF Row
  <2>3. /\ candidate'[f].status = "pending" /\ candidate'[f].rfi = NoRfi
        /\ \A g \in Findings \ {f} : candidate'[g] = candidate[g]
    BY <1>1, <1>3, <2>1 DEF Candidate
  <2>4. LinksAgree'
    <3>1. \A g \in Findings : candidate[g].rfi \in Rfis \cup {NoRfi}
      BY <2>1 DEF Candidate
    <3>. QED
      BY <1>1, <2>2, <2>3, <3>1 DEF LinksAgree
  <2>5. f \notin trampled => candidate[f].rfi = id
    <3>1. rfi[id].status = "open"
      BY <1>1, <1>3 DEF RowsSound
    <3>. QED
      BY <1>1, <1>3, <3>1 DEF StandsBehind
  <2>6. StandsBehind'
    <3>. SUFFICES ASSUME NEW i \in Rfis,
                         source[i] \notin trampled \cup {NoFinding},
                         \/ Live(i)' /\ i \notin overtaken
                         \/ rfi'[i].status = "open" /\ rfi'[i].answer = NoText
                  PROVE  /\ candidate'[source[i]].status = "accepted"
                         /\ candidate'[source[i]].rfi = i
      BY <1>1 DEF StandsBehind
    <3>1. i # id
      BY <2>2 DEF Live
    <3>2. /\ candidate[source[i]].status = "accepted"
          /\ candidate[source[i]].rfi = i
      BY <3>1, <2>2 DEF StandsBehind, Live
    <3>3. source[i] \in Findings /\ source[i] # f
      BY <3>1, <3>2, <2>5 DEF TypeOK
    <3>. QED
      BY <3>2, <3>3, <2>3
  <2>. QED
    BY <2>4, <2>6
<1>. QED
  BY <1>2, <1>3 DEF Return

\* What saving does to one finding.
LEMMA SaveKnows ==
  ASSUME IInv, NEW w \in Workers, Save(w)
  PROVE  /\ UNCHANGED <<rfi, source, overtaken>>
         /\ exec[w].scan \in Scans /\ scan'[exec[w].scan].status = "completed"
         /\ \A f \in Findings :
              \/ candidate'[f].status = candidate[f].status
                   /\ candidate'[f].rfi = candidate[f].rfi
              \/ /\ f \in exec[w].reopened
                 /\ scan[exec[w].scan].fresh
                 /\ candidate'[f].status = "pending" /\ candidate'[f].rfi = NoRfi
                 /\ candidate[f].rfi # NoRfi /\ Live(candidate[f].rfi)
                      => f \in trampled'
              \/ /\ candidate[f].status \in {"absent", "pending"}
                 /\ candidate'[f].status \in {"absent", "pending"}
                 /\ candidate'[f].rfi = candidate[f].rfi
         /\ trampled \subseteq trampled'
<1>. USE DEF IInv
<1>1. PICK gone \in SUBSET {f \in Findings : candidate[f].status = "pending"} :
        candidate' = [f \in Findings |->
          IF f \in gone
          THEN [Saved(candidate[f], f, w, gone) EXCEPT !.copy = @ + 1]
          ELSE Saved(candidate[f], f, w, gone)]
  BY DEF Save
<1>2. ASSUME NEW f \in Findings
      PROVE  /\ candidate'[f].status = Saved(candidate[f], f, w, gone).status
             /\ candidate'[f].rfi = Saved(candidate[f], f, w, gone).rfi
  <2>1. candidate[f] \in Candidate
    BY DEF TypeOK
  <2>2. Saved(candidate[f], f, w, gone) \in Candidate
    BY <2>1 DEF Saved, Candidate, CandidateStatuses
  <2>. QED
    BY <1>1, <2>2 DEF Candidate
<1>3. /\ exec[w].scan \in Scans
      /\ exec[w].reopened # {} => scan[exec[w].scan].fresh
  BY DEF Save, ExecsSound, ExecSound
<1>4. scan'[exec[w].scan].status = "completed"
  <2>1. scan \in [Scans -> Scan]
    BY DEF TypeOK
  <2>2. scan' = [scan EXCEPT ![exec[w].scan].status = "completed",
                             ![exec[w].scan].silent = FALSE]
    BY DEF Save
  <2>3. scan'[exec[w].scan] = [scan[exec[w].scan] EXCEPT
                                 !.status = "completed", !.silent = FALSE]
    BY <1>3, <2>1, <2>2
  <2>4. scan[exec[w].scan] \in Scan
    BY <1>3, <2>1
  <2>. QED
    BY <2>3, <2>4 DEF Scan
<1>5. ASSUME NEW f \in Findings
      PROVE  \/ candidate'[f].status = candidate[f].status
                  /\ candidate'[f].rfi = candidate[f].rfi
             \/ /\ f \in exec[w].reopened
                /\ scan[exec[w].scan].fresh
                /\ candidate'[f].status = "pending" /\ candidate'[f].rfi = NoRfi
                /\ candidate[f].rfi # NoRfi /\ Live(candidate[f].rfi)
                     => f \in trampled'
             \/ /\ candidate[f].status \in {"absent", "pending"}
                /\ candidate'[f].status \in {"absent", "pending"}
                /\ candidate'[f].rfi = candidate[f].rfi
  <2>1. candidate[f] \in Candidate
    BY DEF TypeOK
  <2>2. CASE f \in exec[w].reopened /\ candidate[f].status # "absent"
    <3>1. Saved(candidate[f], f, w, gone)
            = [candidate[f] EXCEPT !.status = "pending", !.rfi = NoRfi]
      BY <2>2 DEF Saved
    <3>2. candidate'[f].status = "pending" /\ candidate'[f].rfi = NoRfi
      BY <3>1, <2>1, <1>2 DEF Candidate
    <3>3. candidate[f].rfi # NoRfi /\ Live(candidate[f].rfi) => f \in trampled'
      BY <2>2 DEF Save
    <3>4. scan[exec[w].scan].fresh
      BY <2>2, <1>3
    <3>. QED
      BY <2>2, <3>2, <3>3, <3>4
  <2>3. CASE ~(f \in exec[w].reopened /\ candidate[f].status # "absent")
    <3>1. CASE f \in exec[w].found /\ candidate[f].status = "absent"
      BY <2>1, <2>3, <3>1, <1>2 DEF Saved, Candidate
    <3>2. CASE /\ ~(f \in exec[w].found /\ candidate[f].status = "absent")
               /\ f \in gone
      BY <2>1, <2>3, <3>2, <1>2 DEF Saved, Candidate
    <3>3. CASE /\ ~(f \in exec[w].found /\ candidate[f].status = "absent")
               /\ f \notin gone
      BY <2>3, <3>3, <1>2 DEF Saved
    <3>. QED
      BY <3>1, <3>2, <3>3
  <2>. QED
    BY <2>2, <2>3
<1>6. UNCHANGED <<rfi, source, overtaken>> /\ trampled \subseteq trampled'
  BY DEF Save
<1>. QED
  BY <1>3, <1>4, <1>5, <1>6

\* Saving a scan breaks a link only to an RFI that is voided or tramples it.
LEMMA SaveKeepsLinks ==
  ASSUME IInv, NEW w \in Workers, Save(w)
  PROVE  LinksAgree' /\ StandsBehind'
<1>. USE DEF IInv
<1>1. LinksAgree'
  BY SaveKnows DEF LinksAgree
<1>2. StandsBehind'
  <2>. SUFFICES ASSUME NEW i \in Rfis, source[i] \notin trampled' \cup {NoFinding},
                       \/ Live(i) /\ i \notin overtaken
                       \/ rfi[i].status = "open" /\ rfi[i].answer = NoText
                PROVE  /\ candidate'[source[i]].status = "accepted"
                       /\ candidate'[source[i]].rfi = i
    BY SaveKnows DEF StandsBehind, Live
  <2>1. source[i] \in Findings /\ source[i] \notin trampled
    BY SaveKnows DEF TypeOK
  <2>2. /\ candidate[source[i]].status = "accepted"
        /\ candidate[source[i]].rfi = i
    BY <2>1 DEF StandsBehind
  <2>3. Live(i)
    BY DEF Live
  <2>. QED
    BY <2>1, <2>2, <2>3, SaveKnows
<1>. QED
  BY <1>1, <1>2

\* Every step keeps findings and the RFIs made from them linked.
LEMMA LinksStep ==
  ASSUME IInv, Next
  PROVE  LinksAgree' /\ StandsBehind'
<1>. USE DEF IInv
<1>1. ASSUME UNCHANGED <<rfi, source, candidate, overtaken, trampled>>
      PROVE  LinksAgree' /\ StandsBehind'
  BY <1>1 DEF LinksAgree, StandsBehind, Live
<1>2. ASSUME NEW id \in Rfis, NEW q \in Questions, NEW st \in {"draft", "open"},
             CreateByHand(id, st, q)
      PROVE  LinksAgree' /\ StandsBehind'
  <2>1. CreateRfi(id, st, q) /\ UNCHANGED <<source, candidate, overtaken, trampled>>
    BY <1>2 DEF CreateByHand
  <2>2. source[id] = NoFinding /\ \A i \in Rfis \ {id} : rfi'[i] = rfi[i]
    BY <2>1, CreateKnows
  <2>3. LinksAgree'
    <3>1. \A f \in Findings : candidate[f].rfi \in Rfis \cup {NoRfi}
      BY DEF TypeOK, Candidate
    <3>. QED
      BY <2>1, <3>1, RowsGrow DEF LinksAgree, Exists
  <2>4. StandsBehind'
    BY <2>1, <2>2 DEF StandsBehind, Live
  <2>. QED
    BY <2>3, <2>4
<1>3. CASE LogStep
  BY <1>1, <1>2, <1>3, AcceptKeepsLinks, WriteKeepsLinks, ReturnKeepsLinks
     DEF LogStep, ReadForChange, ReadForEdit
<1>4. ASSUME NEW f \in Findings, Propose(f) \/ Dismiss(f) \/ Restore(f) \/ Delete(f)
      PROVE  LinksAgree' /\ StandsBehind'
  <2>1. candidate[f] \in Candidate /\ candidate \in [Findings -> Candidate]
    BY DEF TypeOK
  <2>2. /\ candidate[f].status # "accepted" /\ candidate'[f].status # "accepted"
        /\ candidate'[f].rfi = candidate[f].rfi
        /\ \A g \in Findings \ {f} : candidate'[g] = candidate[g]
    BY <1>4, <2>1 DEF Propose, Dismiss, Restore, Delete, Candidate
  <2>3. UNCHANGED <<rfi, source, overtaken, trampled>>
    BY <1>4 DEF Propose, Dismiss, Restore, Delete
  <2>. QED
    BY <2>2, <2>3, DecisionKeepsLinks
<1>5. CASE FindingStep
  BY <1>1, <1>4, <1>5 DEF FindingStep, ReadForReturn
<1>6. CASE ScanStep
  BY <1>1, <1>6, SaveKeepsLinks
     DEF ScanStep, CreateScan, AskScan, StopScan, GoSilent, PickUp, SetRunning,
         Resume, NoticeStop, Compare, FailScan, CrashWorker
<1>. QED
  BY <1>3, <1>5, <1>6 DEF Next

-----------------------------------------------------------------------------
\* The inductive invariant holds.
THEOREM InvariantHolds == Spec => []IInv
<1>1. Init => IInv
  BY InitInv
<1>2. IInv /\ [Next]_vars => IInv'
  <2>. SUFFICES ASSUME IInv, [Next]_vars PROVE IInv'
    OBVIOUS
  <2>1. CASE Next
    <3>1. TypeOK'
      BY <2>1, TypeStep DEF IInv
    <3>. QED
      BY <2>1, <3>1, RowsStep, RequestsStep, LinksStep, ExecsStep DEF IInv
  <2>2. CASE UNCHANGED vars
    BY <2>2 DEF vars, IInv, TypeOK, RowsSound, NumbersAreUnique, AnswersMatch,
                RequestsSound, RequestSound, KnowsRow, LinksAgree,
                StandsBehind, ExecsSound, ExecSound, Exists, Live
  <2>. QED
    BY <2>1, <2>2
<1>. QED
  BY <1>1, <1>2, PTL DEF Spec

\* Every variable keeps its type.
THEOREM TypesHold == Spec => []TypeOK
<1>1. IInv => TypeOK
  BY DEF IInv
<1>. QED
  BY <1>1, InvariantHolds, PTL

\* No number of the log is given twice.
THEOREM NumbersHold == Spec => []NumbersAreUnique
<1>1. IInv => NumbersAreUnique
  BY DEF IInv
<1>. QED
  BY <1>1, InvariantHolds, PTL

\* What is answered or closed has an answer, to the question that stands
\* unless the row was written over.
THEOREM AnswersHold == Spec => []AnswersMatch
<1>1. IInv => AnswersMatch
  BY DEF IInv
<1>. QED
  BY <1>1, InvariantHolds, PTL

\* Accepted findings and the RFIs made from them point at each other.
THEOREM LinksHold == Spec => []LinksAgree
<1>1. IInv => LinksAgree
  BY DEF IInv
<1>. QED
  BY <1>1, InvariantHolds, PTL

\* A finding is asked about once, but for the two races that write over a
\* decision.
THEOREM OneLiveRfiHolds == Spec => []OneLiveRfiUnlessOvertaken
<1>1. IInv => OneLiveRfiUnlessOvertaken
  BY DEF IInv, StandsBehind, OneLiveRfiUnlessOvertaken
<1>. QED
  BY <1>1, InvariantHolds, PTL

\* A closed or voided RFI stays closed or voided unless its row was written
\* over.
THEOREM TerminalHolds == Spec => TerminalStays
<1>. DEFINE Stays == \A id \in Rfis :
              rfi[id].status \in Terminal
                => rfi'[id].status = rfi[id].status \/ id \in overtaken'
<1>1. IInv /\ [Next]_vars => [Stays]_vars
  <2>. SUFFICES ASSUME IInv, Next PROVE Stays
    BY DEF vars
  <2>1. ASSUME NEW id \in Rfis, NEW q \in Questions,
               \/ \E st \in {"draft", "open"} : CreateByHand(id, st, q)
               \/ \E f \in Findings : Accept(f, id, q)
        PROVE  Stays
    <3>1. \E st \in {"draft", "open"} : CreateRfi(id, st, q)
      BY <2>1 DEF CreateByHand, Accept
    <3>. QED
      BY <3>1, CreateKnows DEF Exists, Terminal
  <2>2. ASSUME NEW r \in Requests, WriteStatus(r) \/ WriteQuestion(r)
        PROVE  Stays
    BY <2>2, WritesKnow DEF Terminal, Transitions, CanEditQuestion, KnowsRow
  <2>3. ASSUME NEW r \in Requests, Return(r)
        PROVE  Stays
    BY <2>3 DEF Return, Terminal, IInv, TypeOK
  <2>4. CASE UNCHANGED <<rfi, number, source, counter, overtaken>>
    BY <2>4
  <2>. QED
    BY <2>1, <2>2, <2>3, <2>4, LogChanges
<1>. QED
  BY <1>1, InvariantHolds, PTL DEF Spec, TerminalStays

\* What a step that is not a save does to the decision on one finding.
LEMMA DecisionChanges ==
  ASSUME IInv, NEW f \in Findings,
         \/ candidate[f].status = "accepted" /\ candidate'[f].status # "accepted"
         \/ candidate[f].status = "dismissed" /\ candidate'[f].status # "dismissed",
         Next
  PROVE  \/ candidate[f].status = "dismissed" /\ (Restore(f) \/ Delete(f))
         \/ \E r \in Requests : Return(r) /\ request[r].finding = f
         \/ \E w \in Workers : Save(w)
<1>. USE DEF IInv
<1>1. candidate \in [Findings -> Candidate]
  BY DEF TypeOK
<1>2. CASE UNCHANGED candidate
  BY <1>2
<1>3. CASE LogStep
  <2>1. ASSUME NEW id \in Rfis, NEW q \in Questions, NEW g \in Findings, Accept(g, id, q)
        PROVE  FALSE
    BY <2>1, <1>1 DEF Accept, Candidate
  <2>2. ASSUME NEW r \in Requests, Return(r)
        PROVE  request[r].finding = f
    BY <2>2, <1>1 DEF Return, RequestsSound, RequestSound
  <2>. QED
    BY <1>2, <1>3, <2>1, <2>2 DEF LogStep, CreateByHand, ReadForChange,
       ReadForEdit, WriteStatus, WriteQuestion
<1>4. CASE FindingStep
  <2>1. ASSUME NEW g \in Findings, Propose(g) \/ Dismiss(g)
        PROVE  FALSE
    BY <2>1, <1>1 DEF Propose, Dismiss, Candidate
  <2>2. ASSUME NEW g \in Findings, Restore(g) \/ Delete(g)
        PROVE  g = f /\ candidate[f].status = "dismissed"
    BY <2>2, <1>1 DEF Restore, Delete
  <2>. QED
    BY <1>2, <1>4, <2>1, <2>2 DEF FindingStep, ReadForReturn
<1>5. CASE ScanStep
  BY <1>2, <1>5 DEF ScanStep, CreateScan, AskScan, StopScan, GoSilent, PickUp,
     SetRunning, Resume, NoticeStop, Compare, FailScan, CrashWorker
<1>. QED
  BY <1>3, <1>4, <1>5 DEF Next

\* What a person decided of a finding is undone by a person, by withdrawing
\* its RFI or by a full rescan.
THEOREM DecisionsHold == Spec => DecisionsStand
<1>. DEFINE Accepted(f) ==
              candidate[f].status = "accepted" /\ candidate'[f].status # "accepted"
                => \/ f \in trampled'
                   \/ rfi'[candidate[f].rfi].status = "voided"
            Dismissed(f) ==
              candidate[f].status = "dismissed" /\ candidate'[f].status # "dismissed"
                => \/ Restore(f) \/ Delete(f) \/ f \in trampled
                   \/ \E k \in Scans : scan[k].fresh /\ scan'[k].status = "completed"
            Stand == \A f \in Findings :
              /\ candidate[f].status = "accepted" /\ candidate'[f].status # "accepted"
                => \/ f \in trampled'
                   \/ rfi'[candidate[f].rfi].status = "voided"
              /\ candidate[f].status = "dismissed" /\ candidate'[f].status # "dismissed"
                => \/ Restore(f) \/ Delete(f) \/ f \in trampled
                   \/ \E k \in Scans : scan[k].fresh /\ scan'[k].status = "completed"
<1>1. IInv /\ [Next]_vars => [Stand]_vars
  <2>. SUFFICES ASSUME IInv, Next, NEW f \in Findings,
                \/ candidate[f].status = "accepted" /\ candidate'[f].status # "accepted"
                \/ candidate[f].status = "dismissed" /\ candidate'[f].status # "dismissed"
         PROVE  Accepted(f) /\ Dismissed(f)
    BY DEF vars
  <2>1. ASSUME NEW r \in Requests, Return(r), request[r].finding = f
        PROVE  Accepted(f) /\ Dismissed(f)
    <3>. DEFINE id == request[r].id
    <3>1. /\ id \in Rfis /\ source[id] = f /\ f # NoFinding /\ trampled' = trampled
      BY <2>1 DEF Return, IInv, RequestsSound, RequestSound
    <3>2. /\ rfi[id].status \in {"draft", "open"} /\ rfi[id].answer = NoText
          /\ rfi' = [rfi EXCEPT ![id].status = "voided"]
      BY <2>1 DEF Return
    <3>3. rfi'[id].status = "voided"
      BY <3>1, <3>2 DEF IInv, TypeOK, Row
    <3>4. rfi[id].status = "open"
      BY <3>1, <3>2 DEF IInv, RowsSound
    <3>5. f \notin trampled => candidate[f].status = "accepted" /\ candidate[f].rfi = id
      BY <3>1, <3>2, <3>4 DEF IInv, StandsBehind
    <3>. QED
      BY <3>1, <3>3, <3>5
  <2>2. ASSUME NEW w \in Workers, Save(w)
        PROVE  Accepted(f) /\ Dismissed(f)
    <3>1. candidate[f].status = "accepted" => candidate[f].rfi # NoRfi
                                              /\ rfi[candidate[f].rfi].status # "none"
      BY DEF IInv, LinksAgree
    <3>. QED
      BY <2>2, <3>1, SaveKnows DEF Live
  <2>3. ASSUME candidate[f].status = "dismissed", Restore(f) \/ Delete(f)
        PROVE  Accepted(f) /\ Dismissed(f)
    BY <2>3
  <2>. QED
    BY <2>1, <2>2, <2>3, DecisionChanges
<1>. QED
  BY <1>1, InvariantHolds, PTL DEF Spec, DecisionsStand

-----------------------------------------------------------------------------
(* The log implements RfiLifecycle.                                        *)

\* What RfiLifecycle sees of the variables.
States == [id \in Rfis |-> rfi[id].status]
Answered == {id \in Rfis : rfi[id].answer # NoText}
Decided == [r \in Requests |-> IF request[r].kind = "status"
                               THEN <<request[r].id, request[r].to>>
                               ELSE <<>>]
Judged == [f \in Findings |-> candidate[f].status]
RfiOf == [f \in Findings |-> candidate[f].rfi]
Reviewable == UNION {exec[w].reopened : w \in Workers}

Follows == Lifecycle!Next \/ UNCHANGED Lifecycle!vars

\* Raising an RFI, by hand or from a finding.
LEMMA CreateFollows ==
  ASSUME IInv, NEW id \in Rfis, NEW q \in Questions,
         \/ \E st \in {"draft", "open"} : CreateByHand(id, st, q)
         \/ \E f \in Findings : Accept(f, id, q)
  PROVE  Follows
<1>. USE DEF IInv
<1>t. /\ rfi \in [Rfis -> Row] /\ candidate \in [Findings -> Candidate]
      /\ number \in [Rfis -> Nat] /\ counter \in Nat
      /\ source \in [Rfis -> Findings \cup {NoFinding}]
  BY DEF TypeOK
<1>1. ASSUME NEW st \in {"draft", "open"}, CreateRfi(id, st, q)
      PROVE  /\ States[id] = "none" /\ States' = [States EXCEPT ![id] = st]
             /\ counter' = counter + 1
             /\ number' = [number EXCEPT ![id] = counter']
             /\ Answered' = Answered
  <2>1. /\ rfi[id].status = "none"
        /\ rfi' = [rfi EXCEPT ![id] = [status |-> st, question |-> q,
                                       answer |-> NoText]]
    BY <1>1 DEF CreateRfi
  <2>2. States[id] = "none" /\ States' = [States EXCEPT ![id] = st]
    BY <1>t, <2>1 DEF States
  <2>3. rfi[id].answer = NoText
    BY <2>1 DEF RowsSound, Exists
  <2>4. Answered' = Answered
    BY <1>t, <2>1, <2>3 DEF Answered
  <2>. QED
    BY <1>1, <2>2, <2>4 DEF CreateRfi, NextNumber
<1>2. ASSUME NEW st \in {"draft", "open"}, CreateByHand(id, st, q)
      PROVE  Follows
  <2>1. CreateRfi(id, st, q)
        /\ UNCHANGED <<source, candidate, request, exec>>
    BY <1>2 DEF CreateByHand
  <2>2. ~Exists(id) /\ source[id] = NoFinding
    BY <2>1 DEF CreateRfi, RowsSound, Exists
  <2>3. source' = [source EXCEPT ![id] = NoFinding]
    BY <1>t, <2>1, <2>2
  <2>4. Lifecycle!Issue(id, st, NoFinding)
    <3>1. /\ States[id] = "none" /\ States' = [States EXCEPT ![id] = st]
          /\ counter' = counter + 1
          /\ number' = [number EXCEPT ![id] = counter']
          /\ Answered' = Answered /\ UNCHANGED <<request, exec>>
      BY <1>1, <2>1
    <3>. QED
      BY <2>3, <3>1 DEF Lifecycle!Issue, States, Answered
  <2>5. Lifecycle!Write(id)
    BY <2>1, <2>4 DEF Lifecycle!Write, Lifecycle!findingVars
  <2>. QED
    BY <2>5 DEF Lifecycle!Next, Follows
<1>3. ASSUME NEW f \in Findings, Accept(f, id, q) PROVE Follows
  <2>1. /\ CreateRfi(id, "open", q) /\ candidate[f].status = "pending"
        /\ source' = [source EXCEPT ![id] = f]
        /\ candidate' = [candidate EXCEPT ![f].status = "accepted",
                                          ![f].rfi = id]
        /\ UNCHANGED <<request, exec>>
    BY <1>3 DEF Accept
  <2>2. Lifecycle!Issue(id, "open", f)
    BY <1>1, <2>1 DEF Lifecycle!Issue, States, Answered
  <2>3. /\ Judged[f] = "pending" /\ Judged' = [Judged EXCEPT ![f] = "accepted"]
        /\ RfiOf' = [RfiOf EXCEPT ![f] = id]
    BY <1>t, <2>1 DEF Judged, RfiOf, Candidate
  <2>4. Lifecycle!Accept(id, f)
    BY <2>2, <2>3 DEF Lifecycle!Accept, Judged, RfiOf
  <2>. QED
    BY <2>4 DEF Lifecycle!Next, Follows
<1>. QED
  BY <1>2, <1>3

\* Deciding on a change of status, ...
LEMMA DecideFollows ==
  ASSUME IInv, NEW r \in Requests, NEW id \in Rfis, NEW to \in Statuses,
         ReadForChange(r, id, to)
  PROVE  Follows
<1>t. request \in [Requests -> Request]
  BY DEF IInv, TypeOK
<1>1. /\ request[r].kind = "idle" /\ to \in Transitions(rfi[id].status)
      /\ request' = [request EXCEPT ![r] =
           [Idle EXCEPT !.kind = "status", !.id = id, !.to = to,
                        !.row = rfi[id]]]
      /\ UNCHANGED <<rfiVars, candidate, exec>>
  BY DEF ReadForChange, Idle
<1>2. /\ Decided[r] = <<>>
      /\ Decided' = [Decided EXCEPT ![r] = <<id, to>>]
  <2>1. request'[r].kind = "status" /\ request'[r].id = id /\ request'[r].to = to
    BY <1>t, <1>1 DEF Idle
  <2>2. \A p \in Requests \ {r} : request'[p] = request[p]
    BY <1>t, <1>1
  <2>3. Decided[r] = <<>>
    BY <1>1 DEF Decided
  <2>. QED
    BY <2>1, <2>2, <2>3 DEF Decided
<1>3. <<States[id], to>> \in Lifecycle!MayFollow
  BY <1>1 DEF Transitions, States, Lifecycle!MayFollow
<1>4. Lifecycle!Decide(r, id, to)
  BY <1>1, <1>2, <1>3
     DEF Lifecycle!Decide, Lifecycle!rfiVars, Lifecycle!findingVars, States,
         Decided
<1>5. to \in {"open", "answered", "closed", "voided"}
  BY <1>1 DEF Transitions
<1>. QED
  BY <1>4, <1>5 DEF Lifecycle!Next, Follows

\* ... and carrying the change out.
LEMMA CarryOutFollows ==
  ASSUME IInv, NEW r \in Requests, WriteStatus(r)
  PROVE  Follows
<1>t. request \in [Requests -> Request] /\ rfi \in [Rfis -> Row]
  BY DEF IInv, TypeOK
<1>1. PICK id \in Rfis, to \in {"open", "answered", "closed", "voided"} :
        request[r].id = id /\ request[r].to = to
  BY DEF WriteStatus, IInv, RequestsSound, RequestSound, KnowsRow, Transitions
<1>2. /\ request[r].kind = "status" /\ request[r].row.question # NoText
      /\ rfi' = [rfi EXCEPT
           ![id].status = to,
           ![id].answer = IF to = "answered" THEN request[r].row.question
                          ELSE @]
      /\ request' = [request EXCEPT ![r] = Done]
      /\ UNCHANGED <<number, source, counter, candidate, exec>>
  BY <1>1 DEF WriteStatus, IInv, RequestsSound, RequestSound, KnowsRow
<1>3. /\ Decided[r] = <<id, to>>
      /\ Decided' = [Decided EXCEPT ![r] = <<>>]
  <2>1. request'[r].kind = "done"
    BY <1>t, <1>2 DEF Done, Idle
  <2>2. \A p \in Requests \ {r} : request'[p] = request[p]
    BY <1>t, <1>2
  <2>3. Decided[r] = <<id, to>>
    BY <1>1, <1>2 DEF Decided
  <2>. QED
    BY <2>1, <2>2, <2>3 DEF Decided
<1>4. rfi'[id] = [rfi[id] EXCEPT
                    !.status = to,
                    !.answer = IF to = "answered" THEN request[r].row.question
                               ELSE @]
      /\ \A i \in Rfis \ {id} : rfi'[i] = rfi[i]
  BY <1>t, <1>2
<1>5. /\ rfi'[id].status = to
      /\ rfi'[id].answer = IF to = "answered" THEN request[r].row.question
                           ELSE rfi[id].answer
  BY <1>t, <1>4 DEF Row
<1>6. States' = [States EXCEPT ![id] = to]
  BY <1>4, <1>5 DEF States
<1>7. Answered' = IF to = "answered" THEN Answered \cup {id} ELSE Answered
  <2>1. \A i \in Rfis \ {id} : i \in Answered' <=> i \in Answered
    BY <1>4 DEF Answered
  <2>2. id \in Answered' <=> to = "answered" \/ id \in Answered
    BY <1>2, <1>5 DEF Answered
  <2>3. Answered \subseteq Rfis /\ Answered' \subseteq Rfis
    BY DEF Answered
  <2>. QED
    BY <2>1, <2>2, <2>3
<1>8. Lifecycle!CarryOut(r, id, to)
  <2>1. UNCHANGED <<number, counter, source, Judged, RfiOf, Reviewable>>
    BY <1>2 DEF Judged, RfiOf, Reviewable
  <2>. QED
    BY <1>3, <1>6, <1>7, <2>1
       DEF Lifecycle!CarryOut, Lifecycle!findingVars, States, Answered,
           Decided, Judged, RfiOf, Reviewable
<1>. QED
  BY <1>8 DEF Lifecycle!Next, Follows

\* Taking a finding back from the log.
LEMMA TakeBackFollows ==
  ASSUME IInv, NEW r \in Requests, Return(r)
  PROVE  Follows
<1>t. /\ request \in [Requests -> Request] /\ rfi \in [Rfis -> Row]
      /\ candidate \in [Findings -> Candidate]
  BY DEF IInv, TypeOK
<1>1. PICK id \in Rfis, f \in Findings :
        /\ request[r].id = id /\ request[r].finding = f
        /\ source[id] = f /\ f # NoFinding /\ request[r].kind = "return"
  BY DEF Return, IInv, RequestsSound, RequestSound
<1>2. Decided' = Decided /\ UNCHANGED <<number, source, counter, exec>>
  <2>1. request' = [request EXCEPT ![r] = Done] /\ Done.kind = "done"
    BY DEF Return, Done, Idle
  <2>2. \A p \in Requests \ {r} : request'[p] = request[p]
    BY <1>t, <2>1
  <2>3. request'[r].kind = "done"
    BY <1>t, <2>1
  <2>4. Decided' = Decided
    BY <1>1, <2>2, <2>3 DEF Decided
  <2>. QED
    BY <2>4 DEF Return
<1>3. CASE UNCHANGED <<rfi, candidate>>
  BY <1>2, <1>3
     DEF Follows, Lifecycle!vars, Lifecycle!rfiVars, Lifecycle!findingVars,
         Decided
<1>4. CASE ~UNCHANGED <<rfi, candidate>>
  <2>1. /\ rfi[id].status \in {"draft", "open"} /\ rfi[id].answer = NoText
        /\ candidate[f].status # "absent"
        /\ rfi' = [rfi EXCEPT ![id].status = "voided"]
        /\ candidate' = [candidate EXCEPT ![f].status = "pending",
                                          ![f].rfi = NoRfi]
    BY <1>1, <1>4 DEF Return
  <2>2. rfi[id].status = "open"
    BY <1>1, <2>1 DEF IInv, RowsSound
  <2>3. /\ rfi'[id] = [rfi[id] EXCEPT !.status = "voided"]
        /\ \A i \in Rfis \ {id} : rfi'[i] = rfi[i]
    BY <1>t, <1>1, <2>1
  <2>4. rfi'[id].status = "voided" /\ rfi'[id].answer = rfi[id].answer
    BY <1>t, <1>1, <2>3 DEF Row
  <2>5. /\ States[id] = "open" /\ States' = [States EXCEPT ![id] = "voided"]
        /\ Answered' = Answered /\ id \notin Answered
    <3>1. \A i \in Rfis : rfi'[i].answer = rfi[i].answer
      BY <2>3, <2>4
    <3>2. Answered' = Answered /\ id \notin Answered
      BY <2>1, <3>1 DEF Answered
    <3>3. States[id] = "open" /\ States' = [States EXCEPT ![id] = "voided"]
      BY <1>1, <2>2, <2>3, <2>4 DEF States
    <3>. QED
      BY <3>2, <3>3
  <2>6. /\ candidate'[f] = [candidate[f] EXCEPT !.status = "pending",
                                                !.rfi = NoRfi]
        /\ \A g \in Findings \ {f} : candidate'[g] = candidate[g]
    BY <1>t, <1>1, <2>1
  <2>7. candidate'[f].status = "pending" /\ candidate'[f].rfi = NoRfi
    BY <1>t, <1>1, <2>6 DEF Candidate
  <2>8. /\ Judged[f] # "absent" /\ Judged' = [Judged EXCEPT ![f] = "pending"]
        /\ RfiOf' = [RfiOf EXCEPT ![f] = NoRfi]
    <3>1. Judged[f] # "absent"
      BY <1>1, <2>1 DEF Judged
    <3>2. Judged' = [Judged EXCEPT ![f] = "pending"]
      BY <2>6, <2>7 DEF Judged
    <3>3. RfiOf' = [RfiOf EXCEPT ![f] = NoRfi]
      BY <2>6, <2>7 DEF RfiOf
    <3>. QED
      BY <3>1, <3>2, <3>3
  <2>9. Lifecycle!TakeBack(id, f)
    BY <1>1, <1>2, <2>5, <2>8
       DEF Lifecycle!TakeBack, States, Answered, Decided, Judged, RfiOf
  <2>. QED
    BY <1>1, <2>9 DEF Lifecycle!Next, Follows
<1>. QED
  BY <1>3, <1>4

\* What RfiLifecycle does not see.
LEMMA UnseenFollows ==
  ASSUME UNCHANGED <<States, number, counter, Answered, source, Decided,
                     Judged, RfiOf, Reviewable>>
  PROVE  Follows
  BY DEF Follows, Lifecycle!vars, Lifecycle!rfiVars, Lifecycle!findingVars,
         States, Answered, Decided, Judged, RfiOf, Reviewable

LEMMA RequestFollows ==
  ASSUME IInv, NEW r \in Requests,
         \/ \E id \in Rfis, q \in Questions : ReadForEdit(r, id, q)
         \/ \E f \in Findings : ReadForReturn(r, f)
         \/ \E fresh \in BOOLEAN : AskScan(r, fresh)
         \/ WriteQuestion(r) \/ CreateScan(r)
  PROVE  Follows
<1>t. request \in [Requests -> Request] /\ rfi \in [Rfis -> Row]
  BY DEF IInv, TypeOK
<1>. DEFINE Passes ==
       /\ request[r].kind # "status" /\ request'[r].kind # "status"
       /\ \A p \in Requests \ {r} : request'[p] = request[p]
       /\ UNCHANGED <<number, source, counter, candidate, exec>>
<1>1. Passes
  <2>1. ASSUME NEW id \in Rfis, NEW q \in Questions, ReadForEdit(r, id, q)
        PROVE  Passes
    <3>1. /\ request[r] = Idle
          /\ request' = [request EXCEPT ![r] =
               [Idle EXCEPT !.kind = "edit", !.id = id, !.text = q, !.row = rfi[id]]]
          /\ UNCHANGED <<number, source, counter, candidate, exec>>
      BY <2>1 DEF ReadForEdit
    <3>2. request[r].kind = "idle" /\ request'[r].kind = "edit"
      BY <1>t, <3>1 DEF Idle
    <3>. QED
      BY <1>t, <3>1, <3>2
  <2>2. ASSUME NEW f \in Findings, ReadForReturn(r, f)
        PROVE  Passes
    <3>1. /\ request[r] = Idle
          /\ request' = [request EXCEPT ![r] =
               [Idle EXCEPT !.kind = "return", !.id = candidate[f].rfi,
                            !.finding = f, !.copy = candidate[f].copy]]
          /\ UNCHANGED <<number, source, counter, candidate, exec>>
      BY <2>2 DEF ReadForReturn
    <3>2. request[r].kind = "idle" /\ request'[r].kind = "return"
      BY <1>t, <3>1 DEF Idle
    <3>. QED
      BY <1>t, <3>1, <3>2
  <2>3. ASSUME NEW fresh \in BOOLEAN, AskScan(r, fresh)
        PROVE  Passes
    <3>1. /\ request[r] = Idle
          /\ request' = [request EXCEPT ![r] =
               [Idle EXCEPT !.kind = "scan",
                            !.to = IF fresh THEN "fresh" ELSE "none"]]
          /\ UNCHANGED <<number, source, counter, candidate, exec>>
      BY <2>3 DEF AskScan
    <3>2. request[r].kind = "idle" /\ request'[r].kind = "scan"
      BY <1>t, <3>1 DEF Idle
    <3>. QED
      BY <1>t, <3>1, <3>2
  <2>4. CASE WriteQuestion(r) \/ CreateScan(r)
    BY <1>t, <2>4 DEF WriteQuestion, CreateScan, Done, Idle
  <2>. QED
    BY <2>1, <2>2, <2>3, <2>4
<1>2. Decided' = Decided
  BY <1>1 DEF Decided
<1>3. \A i \in Rfis : /\ rfi'[i].status = rfi[i].status
                      /\ rfi'[i].answer = rfi[i].answer
  <2>1. CASE UNCHANGED rfi
    BY <2>1
  <2>2. CASE WriteQuestion(r)
    BY <1>t, <2>2 DEF WriteQuestion, Row
  <2>. QED
    BY <2>1, <2>2 DEF ReadForEdit, ReadForReturn, AskScan, CreateScan
<1>4. States' = States /\ Answered' = Answered
  BY <1>3 DEF States, Answered
<1>. QED
  BY <1>1, <1>2, <1>4, UnseenFollows DEF Judged, RfiOf, Reviewable

\* What people do to findings without an RFI.
LEMMA JudgeFollows ==
  ASSUME IInv, NEW f \in Findings,
         Propose(f) \/ Dismiss(f) \/ Restore(f) \/ Delete(f)
  PROVE  Follows
<1>t. candidate \in [Findings -> Candidate]
  BY DEF IInv, TypeOK
<1>1. PICK from, to \in {"absent", "pending", "dismissed"} :
        /\ <<from, to>> \in {<<"absent", "pending">>, <<"pending", "dismissed">>,
                             <<"dismissed", "pending">>, <<"dismissed", "absent">>}
        /\ candidate[f].status = from
        /\ candidate'[f].status = to /\ candidate'[f].rfi = candidate[f].rfi
        /\ \A g \in Findings \ {f} : candidate'[g] = candidate[g]
        /\ UNCHANGED <<rfiVars, request, exec>>
  <2>1. CASE Propose(f)
    <3>1. /\ candidate[f].status = "absent"
          /\ candidate' = [candidate EXCEPT ![f].status = "pending"]
          /\ UNCHANGED <<rfiVars, request, exec>>
      BY <2>1 DEF Propose
    <3>. QED
      BY <1>t, <3>1 DEF Candidate
  <2>2. CASE Dismiss(f)
    <3>1. /\ candidate[f].status = "pending"
          /\ candidate' = [candidate EXCEPT ![f].status = "dismissed"]
          /\ UNCHANGED <<rfiVars, request, exec>>
      BY <2>2 DEF Dismiss
    <3>. QED
      BY <1>t, <3>1 DEF Candidate
  <2>3. CASE Restore(f)
    <3>1. /\ candidate[f].status = "dismissed"
          /\ candidate' = [candidate EXCEPT ![f].status = "pending"]
          /\ UNCHANGED <<rfiVars, request, exec>>
      BY <2>3 DEF Restore
    <3>. QED
      BY <1>t, <3>1 DEF Candidate
  <2>4. CASE Delete(f)
    <3>1. /\ candidate[f].status = "dismissed"
          /\ candidate' = [candidate EXCEPT ![f].status = "absent",
                                            ![f].copy = @ + 1]
          /\ UNCHANGED <<rfiVars, request, exec>>
      BY <2>4 DEF Delete
    <3>. QED
      BY <1>t, <3>1 DEF Candidate
  <2>. QED
    BY <2>1, <2>2, <2>3, <2>4
<1>2. Judged[f] = from /\ Judged' = [Judged EXCEPT ![f] = to] /\ RfiOf' = RfiOf
  BY <1>1 DEF Judged, RfiOf
<1>3. Lifecycle!Judge(f, from, to)
  BY <1>1, <1>2 DEF Lifecycle!Judge, Lifecycle!rfiVars, Judged, RfiOf
<1>. QED
  BY <1>3 DEF Lifecycle!Next, Follows

\* A worker that reads the findings, or forgets what it has read.
LEMMA LookFollows ==
  ASSUME UNCHANGED <<rfiVars, candidate, request>>,
         Reviewable' \subseteq Reviewable \cup
                                {f \in Findings : Lifecycle!Settled(f)}
  PROVE  Follows
<1>1. UNCHANGED <<States, number, counter, Answered, source, Decided, Judged,
                  RfiOf>>
  BY DEF States, Answered, Decided, Judged, RfiOf
<1>2. Lifecycle!Look
  BY <1>1 DEF Lifecycle!Look, Lifecycle!rfiVars, Lifecycle!findingVars, States,
              Answered, Decided, Judged, RfiOf, Reviewable
<1>. QED
  BY <1>2 DEF Lifecycle!Next, Follows

LEMMA ReadFollows ==
  ASSUME IInv, NEW w \in Workers,
         \/ \E k \in Scans : PickUp(w, k)
         \/ SetRunning(w) \/ Resume(w) \/ NoticeStop(w) \/ FailScan(w)
         \/ CrashWorker(w)
         \/ \E found \in SUBSET CodeFindings : Compare(w, found)
  PROVE  Follows
<1>t. exec \in [Workers -> Exec] /\ exec[w] \in Exec
  BY DEF IInv, TypeOK
<1>1. UNCHANGED <<rfiVars, candidate, request>>
  BY DEF PickUp, SetRunning, Resume, NoticeStop, FailScan, CrashWorker, Compare
<1>2. \A v \in Workers \ {w} : exec'[v] = exec[v]
  BY <1>t DEF PickUp, SetRunning, Resume, NoticeStop, FailScan, CrashWorker,
              Compare
<1>3. exec'[w].reopened \subseteq
        exec[w].reopened \cup {f \in Findings : Lifecycle!Settled(f)}
  <2>1. CASE \E k \in Scans : PickUp(w, k)
    BY <1>t, <2>1 DEF PickUp, NoExec
  <2>2. CASE SetRunning(w) \/ Resume(w)
    BY <1>t, <2>2 DEF SetRunning, Resume, Exec
  <2>3. CASE NoticeStop(w) \/ FailScan(w) \/ CrashWorker(w)
    BY <1>t, <2>3 DEF NoticeStop, FailScan, CrashWorker, NoExec
  <2>4. ASSUME NEW found \in SUBSET CodeFindings, Compare(w, found)
        PROVE  exec'[w].reopened \subseteq {f \in Findings : Lifecycle!Settled(f)}
    <3>1. exec'[w].reopened = Reopens(exec[w].scan, found)
      BY <1>t, <2>4 DEF Compare, Exec
    <3>2. ASSUME NEW f \in Reopens(exec[w].scan, found)
          PROVE  f \in Findings /\ Lifecycle!Settled(f)
      <4>1. /\ f \in Findings
            /\ \/ candidate[f].status = "dismissed"
               \/ /\ candidate[f].status = "accepted"
                  /\ candidate[f].rfi = NoRfi \/ ~Live(candidate[f].rfi)
        BY <3>2 DEF Reopens
      <4>2. candidate[f].status = "accepted" =>
              /\ candidate[f].rfi \in Rfis
              /\ rfi[candidate[f].rfi].status # "none"
        BY <4>1 DEF IInv, TypeOK, LinksAgree, Candidate
      <4>. QED
        BY <4>1, <4>2 DEF Lifecycle!Settled, Live
    <3>. QED
      BY <3>1, <3>2
  <2>. QED
    BY <2>1, <2>2, <2>3, <2>4
<1>4. Reviewable' \subseteq Reviewable \cup
                             {f \in Findings : Lifecycle!Settled(f)}
  BY <1>2, <1>3 DEF Reviewable
<1>. QED
  BY <1>1, <1>4, LookFollows

\* A scan that saves.
LEMMA RescanFollows ==
  ASSUME IInv, NEW w \in Workers, Save(w)
  PROVE  Follows
<1>1. UNCHANGED <<rfiVars, request>>
  BY DEF Save
<1>2. UNCHANGED <<States, number, counter, Answered, source, Decided>>
  BY <1>1 DEF States, Answered, Decided
<1>3. ASSUME NEW f \in Findings
      PROVE  \/ Judged'[f] = Judged[f] /\ RfiOf'[f] = RfiOf[f]
             \/ /\ Judged[f] = "absent" /\ Judged'[f] = "pending"
                /\ RfiOf'[f] = NoRfi
             \/ /\ Judged[f] = "pending" /\ Judged'[f] = "absent"
                /\ RfiOf'[f] = NoRfi
             \/ /\ f \in Reviewable /\ Judged'[f] = "pending"
                /\ RfiOf'[f] = NoRfi
  <2>1. /\ Judged[f] = candidate[f].status /\ RfiOf[f] = candidate[f].rfi
        /\ Judged'[f] = candidate'[f].status /\ RfiOf'[f] = candidate'[f].rfi
    BY DEF Judged, RfiOf
  <2>2. candidate[f].status # "accepted" => candidate[f].rfi = NoRfi
    BY DEF IInv, LinksAgree
  <2>3. f \in exec[w].reopened => f \in Reviewable
    BY DEF Reviewable
  <2>. QED
    BY <2>1, <2>2, <2>3, SaveKnows
<1>4. Reviewable' \subseteq Reviewable
  <2>1. exec' = [exec EXCEPT ![w] = NoExec] /\ exec \in [Workers -> Exec]
    BY DEF Save, IInv, TypeOK
  <2>2. exec'[w].reopened = {} /\ \A v \in Workers \ {w} : exec'[v] = exec[v]
    BY <2>1 DEF NoExec
  <2>. QED
    BY <2>2 DEF Reviewable
<1>5. Lifecycle!Rescan
  BY <1>2, <1>3, <1>4
     DEF Lifecycle!Rescan, Lifecycle!rfiVars, States, Answered, Decided, Judged,
         RfiOf, Reviewable
<1>. QED
  BY <1>5 DEF Lifecycle!Next, Follows

\* Every step of the log, of a person or of a scan is a step RfiLifecycle
\* allows, or none of its business.
LEMMA LifecycleStep ==
  ASSUME IInv, Next
  PROVE  Follows
<1>1. CASE LogStep
  BY <1>1, CreateFollows, DecideFollows, CarryOutFollows, TakeBackFollows,
     RequestFollows DEF LogStep
<1>2. CASE FindingStep
  BY <1>2, JudgeFollows, RequestFollows DEF FindingStep
<1>3. CASE ScanStep
  <2>1. ASSUME NEW k \in Scans, StopScan(k) \/ GoSilent(k) PROVE Follows
    BY <2>1, UnseenFollows
       DEF StopScan, GoSilent, States, Answered, Decided, Judged, RfiOf,
           Reviewable
  <2>. QED
    BY <1>3, <2>1, RequestFollows, ReadFollows, RescanFollows DEF ScanStep
<1>. QED
  BY <1>1, <1>2, <1>3 DEF Next

\* The log implements RfiLifecycle, for any number of RFIs, findings, requests
\* and workers: an RFI changes only as somebody decided when it was allowed, a
\* finding is accepted together with its RFI, and no scan undoes a decision it
\* had not seen settled.
THEOREM LifecycleHolds == Spec => FollowsLifecycle
<1>1. Init => Lifecycle!Init
  <2>. SUFFICES ASSUME Init PROVE Lifecycle!Init
    OBVIOUS
  <2>1. /\ States = [i \in Rfis |-> "none"] /\ Answered = {}
        /\ Judged \in [Findings -> {"absent", "pending"}]
        /\ RfiOf = [f \in Findings |-> NoRfi]
    BY DEF Init, NoRow, States, Answered, Judged, RfiOf
  <2>2. Decided = [p \in Requests |-> <<>>] /\ Reviewable = {}
    BY DEF Init, Idle, NoExec, Decided, Reviewable
  <2>. QED
    BY <2>1, <2>2 DEF Init, Lifecycle!Init, States, Answered, Judged, RfiOf,
                      Decided, Reviewable
<1>2. IInv /\ [Next]_vars => [Lifecycle!Next]_(Lifecycle!vars)
  <2>. SUFFICES ASSUME IInv, [Next]_vars
                PROVE  [Lifecycle!Next]_(Lifecycle!vars)
    OBVIOUS
  <2>1. CASE Next
    BY <2>1, LifecycleStep DEF Follows
  <2>2. CASE UNCHANGED vars
    BY <2>2, UnseenFollows
       DEF vars, Follows, States, Answered, Decided, Judged, RfiOf, Reviewable
  <2>. QED
    BY <2>1, <2>2
<1>. QED
  BY <1>1, <1>2, InvariantHolds, PTL
     DEF Spec, FollowsLifecycle, Lifecycle!Spec
=============================================================================
