------------------------------- MODULE RfiLog -------------------------------
(***************************************************************************)
(* The RFI log of a project and the findings it is fed from: the numbered  *)
(* questions people raise, answer, close and void (routes/rfis.ts), the    *)
(* candidate findings they accept into the log, dismiss, restore, delete   *)
(* and take back (routes/rfiGenerated.ts), and the scans that propose      *)
(* findings and withdraw them (workers/src/rfi_scan.py).                   *)
(*                                                                         *)
(* A handler that reads a row, decides and writes it later is two actions  *)
(* of one request; a handler whose write carries its own condition, or     *)
(* whose statements are one transaction on locked rows, is one action.     *)
(* The log of events, pins, attachments and assignments are left out.      *)
(***************************************************************************)
EXTENDS Naturals, FiniteSets

CONSTANTS
  Rfis,       \* ids of rows of rfis: bounds how many RFIs are raised
  NoRfi,      \* rfiId is null
  Findings,   \* fingerprints of findings
  CodeFindings, \* those the code checks produce; the others come from a chat,
                \* a targeted review or the AI comparison
  OnFile,     \* those an earlier scan has left to review
  NoFinding,  \* an RFI written by hand
  Questions,  \* texts of a question
  NoText,     \* no answer, or nothing typed
  Requests,   \* HTTP requests: each is made once
  Workers,    \* executions of rfi_scan.run at a time
  Scans,      \* bounds how many scans are asked for: 1 .. n
  MaxDeletes  \* bounds how often one finding is deleted

ASSUME RfiAssumption ==
  /\ NoRfi \notin Rfis
  /\ NoFinding \notin Findings
  /\ NoText \notin Questions
  /\ CodeFindings \subseteq Findings
  /\ OnFile \subseteq CodeFindings
  /\ Scans \subseteq Nat \ {0}
  /\ MaxDeletes \in Nat

VARIABLES
  rfi,        \* rfis: status, question, and the question its answer was
              \* written under
  number,     \* rfis.number
  source,     \* the finding an RFI was accepted from
  counter,    \* projects.rfiCounter
  candidate,  \* rfi_candidates by fingerprint; copy tells a row from the one
              \* deleted before it
  request,    \* where a request is and what it has read
  scan,       \* rfi_scans
  exec,       \* what a worker running a scan has read
  overtaken,  \* history: RFIs a request wrote over a row it had not read
  trampled    \* history: findings a rescan reopened over a live RFI

rfiVars == <<rfi, number, source, counter>>
vars == <<rfi, number, source, counter, candidate, request, scan, exec,
          overtaken, trampled>>

Statuses == {"draft", "open", "answered", "closed", "voided"}
Row == [status : Statuses \cup {"none"}, question : Questions \cup {NoText},
        answer : Questions \cup {NoText}]
NoRow == [status |-> "none", question |-> NoText, answer |-> NoText]

\* rfiStatus.ts: which status may follow which.
Transitions(from) ==
  CASE from = "draft"    -> {"open", "voided"}
    [] from = "open"     -> {"answered", "voided"}
    [] from = "answered" -> {"open", "closed", "voided"}
    [] OTHER             -> {}

CanEditQuestion(st) == st \in {"draft", "open"}
Terminal == {"closed", "voided"}

\* An RFI somebody may have in their inbox.
Live(id) == rfi[id].status \notin {"none", "voided"}

Idle == [kind |-> "idle", id |-> NoRfi, to |-> "none", text |-> NoText,
         row |-> NoRow, finding |-> NoFinding, copy |-> 0]
Done == [Idle EXCEPT !.kind = "done"]
NoExec == [pc |-> "idle", scan |-> 0, found |-> {}, reopened |-> {}]

Init ==
  /\ rfi = [id \in Rfis |-> NoRow]
  /\ number = [id \in Rfis |-> 0]
  /\ source = [id \in Rfis |-> NoFinding]
  /\ counter = 0
  /\ candidate = [f \in Findings |->
                    [status |-> IF f \in OnFile THEN "pending" ELSE "absent",
                     rfi |-> NoRfi, copy |-> 0]]
  /\ request = [r \in Requests |-> Idle]
  /\ scan = [k \in Scans |->
               [status |-> "none", fresh |-> FALSE, silent |-> FALSE]]
  /\ exec = [w \in Workers |-> NoExec]
  /\ overtaken = {}
  /\ trampled = {}

-----------------------------------------------------------------------------
(* The log: routes/rfis.ts and rfiStore.ts.                                *)

\* Mutant: the next number counts the RFIs that stand instead of the counter.
NextNumberCounted == Cardinality({id \in Rfis : Live(id)}) + 1

NextNumber == counter + 1

\* rfiStore.createRfi, in its caller's transaction: the project row is locked
\* while the counter goes up and the row is written.
CreateRfi(id, st, q) ==
  /\ rfi[id].status = "none"
  /\ counter' = counter + 1
  /\ number' = [number EXCEPT ![id] = NextNumber]
  /\ rfi' = [rfi EXCEPT ![id] =
               [status |-> st, question |-> q, answer |-> NoText]]

\* POST /rfis, issued at once or kept as a draft.
CreateByHand(id, st, q) ==
  /\ CreateRfi(id, st, q)
  /\ UNCHANGED <<source, candidate, request, scan, exec, overtaken, trampled>>

\* Mutant: nothing asks whether the status may follow.
ReadForChangeAnyStatus(r, id, to) ==
  /\ request[r] = Idle
  /\ rfi[id].status # "none"
  /\ request' = [request EXCEPT ![r] =
       [Idle EXCEPT !.kind = "status", !.id = id, !.to = to, !.row = rfi[id]]]
  /\ UNCHANGED <<rfiVars, candidate, scan, exec, overtaken, trampled>>

\* POST /rfis/:id/status and POST /rfis/:id/answer up to their write: read the
\* row and ask canTransition.  "answered" has a route of its own, which is the
\* same but for the answer it writes.
ReadForChange(r, id, to) ==
  /\ request[r] = Idle
  /\ to \in Transitions(rfi[id].status)
  /\ request' = [request EXCEPT ![r] =
       [Idle EXCEPT !.kind = "status", !.id = id, !.to = to, !.row = rfi[id]]]
  /\ UNCHANGED <<rfiVars, candidate, scan, exec, overtaken, trampled>>

\* PATCH /rfis/:id with a question, up to its write.
ReadForEdit(r, id, q) ==
  /\ request[r] = Idle
  /\ CanEditQuestion(rfi[id].status)
  /\ q # rfi[id].question
  /\ request' = [request EXCEPT ![r] =
       [Idle EXCEPT !.kind = "edit", !.id = id, !.text = q, !.row = rfi[id]]]
  /\ UNCHANGED <<rfiVars, candidate, scan, exec, overtaken, trampled>>

\* The write of either carries no condition on the row it was decided from.
Overtake(r) ==
  overtaken' = IF rfi[request[r].id] = request[r].row THEN overtaken
               ELSE overtaken \cup {request[r].id}

\* Mutant: the status route answers too, and writes no answer.
WriteStatusNoAnswer(r) ==
  LET id == request[r].id
  IN  /\ request[r].kind = "status"
      /\ rfi' = [rfi EXCEPT ![id].status = request[r].to]
      /\ Overtake(r)
      /\ request' = [request EXCEPT ![r] = Done]
      /\ UNCHANGED <<number, source, counter, candidate, scan, exec, trampled>>

WriteStatus(r) ==
  LET id == request[r].id
      to == request[r].to
  IN  /\ request[r].kind = "status"
      /\ rfi' = [rfi EXCEPT
           ![id].status = to,
           ![id].answer = IF to = "answered" THEN request[r].row.question
                          ELSE @]
      /\ Overtake(r)
      /\ request' = [request EXCEPT ![r] = Done]
      /\ UNCHANGED <<number, source, counter, candidate, scan, exec, trampled>>

WriteQuestion(r) ==
  /\ request[r].kind = "edit"
  /\ rfi' = [rfi EXCEPT ![request[r].id].question = request[r].text]
  /\ Overtake(r)
  /\ request' = [request EXCEPT ![r] = Done]
  /\ UNCHANGED <<number, source, counter, candidate, scan, exec, trampled>>

-----------------------------------------------------------------------------
(* Findings: routes/rfiGenerated.ts.                                       *)

\* POST /from-chat, a targeted review's finding or one of the AI comparison:
\* the fingerprint is unique, so one that is on file is left as it stands.
Propose(f) ==
  /\ f \notin CodeFindings
  /\ candidate[f].status = "absent"
  /\ candidate' = [candidate EXCEPT ![f].status = "pending"]
  /\ UNCHANGED <<rfiVars, request, scan, exec, overtaken, trampled>>

\* Mutant: the claim only asks whether the finding is there.
AcceptUnclaimed(f, id, q) ==
  /\ candidate[f].status \in {"pending", "accepted"}
  /\ CreateRfi(id, "open", q)
  /\ source' = [source EXCEPT ![id] = f]
  /\ candidate' = [candidate EXCEPT ![f].status = "accepted", ![f].rfi = id]
  /\ UNCHANGED <<request, scan, exec, overtaken, trampled>>

\* accept, and accept-all one finding at a time: the claim, the number and
\* the link are one transaction.
Accept(f, id, q) ==
  /\ candidate[f].status = "pending"
  /\ CreateRfi(id, "open", q)
  /\ source' = [source EXCEPT ![id] = f]
  /\ candidate' = [candidate EXCEPT ![f].status = "accepted", ![f].rfi = id]
  /\ UNCHANGED <<request, scan, exec, overtaken, trampled>>

\* POST /from-rfi/:id/return up to its transaction: which finding stands
\* behind the RFI.
ReadForReturn(r, f) ==
  /\ request[r] = Idle
  /\ candidate[f].status = "accepted"
  /\ request' = [request EXCEPT ![r] =
       [Idle EXCEPT !.kind = "return", !.id = candidate[f].rfi,
                    !.finding = f, !.copy = candidate[f].copy]]
  /\ UNCHANGED <<rfiVars, candidate, scan, exec, overtaken, trampled>>

\* Mutant: an RFI counts as untouched until it is closed.
UnworkedNotClosed(id) == rfi[id].status \in {"draft", "open", "answered"}
Unworked(id) == rfi[id].status \in {"draft", "open"} /\ rfi[id].answer = NoText

\* Its transaction: void the RFI if nobody has worked on it, and give the
\* finding back by its id.  A row deleted meanwhile makes it roll back.
Return(r) ==
  LET id == request[r].id
      f == request[r].finding
      there == /\ candidate[f].status # "absent"
               /\ candidate[f].copy = request[r].copy
  IN  /\ request[r].kind = "return"
      /\ IF Unworked(id) /\ there
         THEN /\ rfi' = [rfi EXCEPT ![id].status = "voided"]
              /\ candidate' = [candidate EXCEPT ![f].status = "pending",
                                                ![f].rfi = NoRfi]
         ELSE UNCHANGED <<rfi, candidate>>
      /\ request' = [request EXCEPT ![r] = Done]
      /\ UNCHANGED <<number, source, counter, scan, exec, overtaken, trampled>>

\* dismiss, restore and delete each write under a condition on the status.
Dismiss(f) ==
  /\ candidate[f].status = "pending"
  /\ candidate' = [candidate EXCEPT ![f].status = "dismissed"]
  /\ UNCHANGED <<rfiVars, request, scan, exec, overtaken, trampled>>

\* Mutant: an accepted finding can be restored too.
RestoreAccepted(f) ==
  /\ candidate[f].status \in {"dismissed", "accepted"}
  /\ candidate' = [candidate EXCEPT ![f].status = "pending"]
  /\ UNCHANGED <<rfiVars, request, scan, exec, overtaken, trampled>>

Restore(f) ==
  /\ candidate[f].status = "dismissed"
  /\ candidate' = [candidate EXCEPT ![f].status = "pending"]
  /\ UNCHANGED <<rfiVars, request, scan, exec, overtaken, trampled>>

Delete(f) ==
  /\ candidate[f].status = "dismissed"
  /\ candidate[f].copy < MaxDeletes
  /\ candidate' = [candidate EXCEPT ![f].status = "absent", ![f].copy = @ + 1]
  /\ UNCHANGED <<rfiVars, request, scan, exec, overtaken, trampled>>

-----------------------------------------------------------------------------
(* Scans: POST /scan, /scan/stop and rfi_scan.run.                         *)

Asked == {k \in Scans : scan[k].status # "none"}
IsLatest(k) == k \in Asked /\ \A j \in Asked : j <= k

\* scanIsActive: queued or running, and heard of lately.
ScanIsActive(k) == scan[k].status \in {"queued", "running"} /\ ~scan[k].silent

\* POST /scan up to its create: refused while the latest scan is active.
AskScan(r, fresh) ==
  /\ request[r] = Idle
  /\ \A k \in Scans : IsLatest(k) => ~ScanIsActive(k)
  /\ request' = [request EXCEPT ![r] =
       [Idle EXCEPT !.kind = "scan", !.to = IF fresh THEN "fresh" ELSE "none"]]
  /\ UNCHANGED <<rfiVars, candidate, scan, exec, overtaken, trampled>>

\* The row is created and its job queued; nothing more than the check above
\* keeps two requests from both getting here.
CreateScan(r) ==
  /\ request[r].kind = "scan"
  /\ IF Scans \subseteq Asked THEN UNCHANGED scan
     ELSE \E k \in Scans \ Asked :
            /\ \A j \in Scans \ Asked : k <= j
            /\ scan' = [scan EXCEPT ![k] =
                 [status |-> "queued", fresh |-> request[r].to = "fresh",
                  silent |-> FALSE]]
  /\ request' = [request EXCEPT ![r] = Done]
  /\ UNCHANGED <<rfiVars, candidate, exec, overtaken, trampled>>

\* POST /scan/stop: a conditional update of the latest scan.  Its job may be
\* left in the queue: a worker that takes it finds the scan failed.
StopScan(k) ==
  /\ IsLatest(k)
  /\ scan[k].status \in {"queued", "running"}
  /\ scan' = [scan EXCEPT ![k].status = "failed"]
  /\ UNCHANGED <<rfiVars, candidate, request, exec, overtaken, trampled>>

\* STALE_SCAN_MS pass without a heartbeat.
GoSilent(k) ==
  /\ ScanIsActive(k)
  /\ scan' = [scan EXCEPT ![k].silent = TRUE]
  /\ UNCHANGED <<rfiVars, candidate, request, exec, overtaken, trampled>>

\* run reads the status first.  A worker gets a running scan again after the
\* worker that had it died or was thought to have.
PickUp(w, k) ==
  /\ exec[w].pc = "idle"
  /\ scan[k].status \in {"queued", "running"}
  /\ exec' = [exec EXCEPT ![w] = [NoExec EXCEPT !.pc = scan[k].status,
                                                !.scan = k]]
  /\ UNCHANGED <<rfiVars, candidate, request, scan, overtaken, trampled>>

\* Then, in a transaction of its own, a scan that was queued is set running
\* whatever has become of it.
SetRunning(w) ==
  /\ exec[w].pc = "queued"
  /\ scan' = [scan EXCEPT ![exec[w].scan].status = "running",
                          ![exec[w].scan].silent = FALSE]
  /\ exec' = [exec EXCEPT ![w].pc = "checks"]
  /\ UNCHANGED <<rfiVars, candidate, request, overtaken, trampled>>

\* A resumed one only loses its error.
Resume(w) ==
  /\ exec[w].pc = "running"
  /\ scan' = [scan EXCEPT ![exec[w].scan].silent = FALSE]
  /\ exec' = [exec EXCEPT ![w].pc = "checks"]
  /\ UNCHANGED <<rfiVars, candidate, request, overtaken, trampled>>

\* ScanProgress: a worker writing its progress sees that the scan is not
\* running any more.
NoticeStop(w) ==
  /\ exec[w].pc \in {"checks", "wording"}
  /\ scan[exec[w].scan].status # "running"
  /\ exec' = [exec EXCEPT ![w] = NoExec]
  /\ UNCHANGED <<rfiVars, candidate, request, scan, overtaken, trampled>>

\* plan_wording: a full rescan asks again what was dismissed and what was
\* accepted into an RFI that has been voided.
Reopens(k, found) ==
  IF ~scan[k].fresh THEN {}
  ELSE {f \in found :
          \/ candidate[f].status = "dismissed"
          \/ /\ candidate[f].status = "accepted"
             /\ candidate[f].rfi = NoRfi \/ ~Live(candidate[f].rfi)}

\* The checks have run and what is on file is read; the wording follows, and
\* can take minutes.
Compare(w, found) ==
  /\ exec[w].pc = "checks"
  /\ exec' = [exec EXCEPT ![w].pc = "wording", ![w].found = found,
                          ![w].reopened = Reopens(exec[w].scan, found)]
  /\ UNCHANGED <<rfiVars, candidate, request, scan, overtaken, trampled>>

\* Mutant: the upsert writes a finding as pending whatever was decided.
SavedDecided(c, f, w, gone) ==
  IF f \in exec[w].found THEN [c EXCEPT !.status = "pending", !.rfi = NoRfi]
  ELSE IF f \in gone THEN [c EXCEPT !.status = "absent"] ELSE c

\* What saving makes of a finding: reopened ones are pending again, new ones
\* are inserted, the ones on file keep their status, and pending code findings
\* the drawings no longer produce are deleted.
Saved(c, f, w, gone) ==
  IF f \in exec[w].reopened /\ c.status # "absent"
  THEN [c EXCEPT !.status = "pending", !.rfi = NoRfi]
  ELSE IF f \in exec[w].found /\ c.status = "absent"
  THEN [c EXCEPT !.status = "pending"]
  ELSE IF f \in gone THEN [c EXCEPT !.status = "absent"] ELSE c

\* One transaction, which rolls back unless the scan is still running.  A
\* scoped scan, or a check that could not run, leaves some findings alone.
Save(w) ==
  LET k == exec[w].scan
      unseen == {f \in CodeFindings \ exec[w].found :
                   /\ candidate[f].status = "pending"
                   /\ candidate[f].copy < MaxDeletes}
  IN  /\ exec[w].pc = "wording"
      /\ scan[k].status = "running"
      /\ \E gone \in SUBSET unseen :
           candidate' = [f \in Findings |->
             IF f \in gone
             THEN [Saved(candidate[f], f, w, gone) EXCEPT !.copy = @ + 1]
             ELSE Saved(candidate[f], f, w, gone)]
      /\ trampled' = trampled \cup
           {f \in exec[w].reopened : /\ candidate[f].rfi # NoRfi
                                     /\ Live(candidate[f].rfi)}
      /\ scan' = [scan EXCEPT ![k].status = "completed", ![k].silent = FALSE]
      /\ exec' = [exec EXCEPT ![w] = NoExec]
      /\ UNCHANGED <<rfiVars, request, overtaken>>

\* A scan that raises says so over whatever its row says.
FailScan(w) ==
  /\ exec[w].pc # "idle"
  /\ scan' = [scan EXCEPT ![exec[w].scan].status = "failed",
                          ![exec[w].scan].silent = FALSE]
  /\ exec' = [exec EXCEPT ![w] = NoExec]
  /\ UNCHANGED <<rfiVars, candidate, request, overtaken, trampled>>

CrashWorker(w) ==
  /\ exec[w].pc # "idle"
  /\ exec' = [exec EXCEPT ![w] = NoExec]
  /\ UNCHANGED <<rfiVars, candidate, request, scan, overtaken, trampled>>

-----------------------------------------------------------------------------
LogStep ==
  \/ \E id \in Rfis, q \in Questions :
       \/ \E st \in {"draft", "open"} : CreateByHand(id, st, q)
       \/ \E f \in Findings : Accept(f, id, q)
  \/ \E r \in Requests :
       \/ \E id \in Rfis : \/ \E to \in Statuses : ReadForChange(r, id, to)
                           \/ \E q \in Questions : ReadForEdit(r, id, q)
       \/ WriteStatus(r) \/ WriteQuestion(r) \/ Return(r)

FindingStep ==
  \E f \in Findings :
    \/ Propose(f) \/ Dismiss(f) \/ Restore(f) \/ Delete(f)
    \/ \E r \in Requests : ReadForReturn(r, f)

ScanStep ==
  \/ \E r \in Requests : CreateScan(r) \/ \E fresh \in BOOLEAN : AskScan(r, fresh)
  \/ \E k \in Scans : \/ StopScan(k) \/ GoSilent(k)
                      \/ \E w \in Workers : PickUp(w, k)
  \/ \E w \in Workers : \/ SetRunning(w) \/ Resume(w) \/ NoticeStop(w)
                        \/ \E found \in SUBSET CodeFindings : Compare(w, found)
                        \/ Save(w) \/ FailScan(w) \/ CrashWorker(w)

Next == LogStep \/ FindingStep \/ ScanStep

Spec == Init /\ [][Next]_vars


-----------------------------------------------------------------------------
CandidateStatuses == {"absent", "pending", "accepted", "dismissed"}
ScanStatuses == {"none", "queued", "running", "completed", "failed"}

Candidate == [status : CandidateStatuses, rfi : Rfis \cup {NoRfi}, copy : Nat]
Request ==
  [kind : {"idle", "done", "status", "edit", "return", "scan"},
   id : Rfis \cup {NoRfi}, to : Statuses \cup {"none", "fresh"},
   text : Questions \cup {NoText}, row : Row,
   finding : Findings \cup {NoFinding}, copy : Nat]
Scan == [status : ScanStatuses, fresh : BOOLEAN, silent : BOOLEAN]
Exec == [pc : {"idle", "queued", "running", "checks", "wording"},
         scan : Scans \cup {0}, found : SUBSET CodeFindings,
         reopened : SUBSET CodeFindings]

TypeOK ==
  /\ rfi \in [Rfis -> Row]
  /\ number \in [Rfis -> Nat]
  /\ source \in [Rfis -> Findings \cup {NoFinding}]
  /\ counter \in Nat
  /\ candidate \in [Findings -> Candidate]
  /\ request \in [Requests -> Request]
  /\ scan \in [Scans -> Scan]
  /\ exec \in [Workers -> Exec]
  /\ overtaken \subseteq Rfis
  /\ trampled \subseteq Findings

\* A number in the log is given once: RFIs that are voided keep theirs.
NumbersAreUnique ==
  \A i, j \in Rfis :
    /\ rfi[i].status # "none" /\ rfi[j].status # "none" /\ i # j
    => number[i] # number[j]

\* An answered or closed RFI has an answer, and unless a request wrote over a
\* row it had not read, that answer was given to the question that stands.
AnswersMatch ==
  \A id \in Rfis :
    rfi[id].status \in {"answered", "closed"}
      => /\ rfi[id].answer # NoText
         /\ id \notin overtaken => rfi[id].answer = rfi[id].question

\* The same, but for an RFI whose row was written over by a request that had
\* read another, and a finding a rescan reopened over its live RFI.
OneLiveRfiUnlessOvertaken ==
  \A i, j \in Rfis :
    /\ source[i] = source[j] /\ source[i] \notin trampled \cup {NoFinding}
    /\ Live(i) /\ Live(j) /\ {i, j} \cap overtaken = {}
    => i = j

\* A finding is accepted exactly while it points at the RFI made from it.
LinksAgree ==
  \A f \in Findings :
    /\ candidate[f].status = "accepted" <=> candidate[f].rfi # NoRfi
    /\ candidate[f].rfi # NoRfi => /\ source[candidate[f].rfi] = f
                                   /\ rfi[candidate[f].rfi].status # "none"

\* A closed or voided RFI stays so, unless a request that had read an earlier
\* row writes over it.
TerminalStays ==
  [][\A id \in Rfis :
       rfi[id].status \in Terminal
         => rfi'[id].status = rfi[id].status \/ id \in overtaken']_vars

\* What a person decided of a finding is undone by a person, by withdrawing
\* its RFI, or by a full rescan, never by an ordinary scan.
DecisionsStand ==
  [][\A f \in Findings :
       /\ candidate[f].status = "accepted" /\ candidate'[f].status # "accepted"
         => \/ f \in trampled'
            \/ rfi'[candidate[f].rfi].status = "voided"
       /\ candidate[f].status = "dismissed" /\ candidate'[f].status # "dismissed"
         => \/ Restore(f) \/ Delete(f) \/ f \in trampled
            \/ \E k \in Scans : scan[k].fresh /\ scan'[k].status = "completed"]_vars

\* The log keeps what RfiLifecycle promises.
Lifecycle == INSTANCE RfiLifecycle WITH
  People <- Requests, last <- counter, origin <- source,
  state <- [id \in Rfis |-> rfi[id].status],
  answered <- {id \in Rfis : rfi[id].answer # NoText},
  decided <- [r \in Requests |-> IF request[r].kind = "status"
                                 THEN <<request[r].id, request[r].to>>
                                 ELSE <<>>],
  finding <- [f \in Findings |-> candidate[f].status],
  rfiOf <- [f \in Findings |-> candidate[f].rfi],
  reviewable <- UNION {exec[w].reopened : w \in Workers}
FollowsLifecycle == Lifecycle!Spec

=============================================================================
