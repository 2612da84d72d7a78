---------------------------- MODULE RfiLifecycle ----------------------------
(***************************************************************************)
(* What the RFI log promises the people who work with it, whatever their   *)
(* requests and the scans do to each other:                                *)
(*   - an RFI is issued with the next number, and keeps it;                *)
(*   - its status changes only as somebody decided when the change was     *)
(*     allowed, and each decision is carried out at most once;             *)
(*   - a finding is accepted by issuing an RFI from it, in the same step,  *)
(*     and while nobody has answered that RFI it can be taken back, which  *)
(*     voids the RFI;                                                      *)
(*   - a scan touches what people decided of a finding only after it saw   *)
(*     the finding dismissed, or its RFI voided.                           *)
(***************************************************************************)
EXTENDS Naturals

CONSTANTS Rfis, NoRfi, Findings, NoFinding, People

VARIABLES
  state,     \* "none", "draft", "open", "answered", "closed", "voided"
  number, last,
  answered,  \* RFIs with an answer
  origin,    \* the finding an RFI was issued from
  decided,   \* the change each person has decided and not yet seen done
  finding,   \* "absent", "pending", "accepted", "dismissed"
  rfiOf,     \* the RFI of an accepted finding
  reviewable \* findings a full rescan has seen it may ask about again

rfiVars     == <<state, number, last, answered, origin>>
findingVars == <<finding, rfiOf>>
vars == <<rfiVars, decided, findingVars, reviewable>>

MayFollow == {<<"draft", "open">>, <<"draft", "voided">>,
              <<"open", "answered">>, <<"open", "voided">>,
              <<"answered", "open">>, <<"answered", "closed">>,
              <<"answered", "voided">>}

Init ==
  /\ state = [i \in Rfis |-> "none"] /\ number = [i \in Rfis |-> 0] /\ last = 0
  /\ answered = {} /\ origin = [i \in Rfis |-> NoFinding]
  /\ decided = [p \in People |-> <<>>]
  /\ finding \in [Findings -> {"absent", "pending"}]
  /\ rfiOf = [f \in Findings |-> NoRfi] /\ reviewable = {}

Issue(i, st, f) ==
  /\ state[i] = "none" /\ state' = [state EXCEPT ![i] = st]
  /\ last' = last + 1 /\ number' = [number EXCEPT ![i] = last']
  /\ origin' = [origin EXCEPT ![i] = f]
  /\ UNCHANGED <<answered, decided, reviewable>>

Write(i) ==
  /\ \E st \in {"draft", "open"} : Issue(i, st, NoFinding)
  /\ UNCHANGED findingVars

Accept(i, f) ==
  /\ finding[f] = "pending" /\ Issue(i, "open", f)
  /\ finding' = [finding EXCEPT ![f] = "accepted"]
  /\ rfiOf' = [rfiOf EXCEPT ![f] = i]

Decide(p, i, to) ==
  /\ decided[p] = <<>> /\ <<state[i], to>> \in MayFollow
  /\ decided' = [decided EXCEPT ![p] = <<i, to>>]
  /\ UNCHANGED <<rfiVars, findingVars, reviewable>>

CarryOut(p, i, to) ==
  /\ decided[p] = <<i, to>> /\ decided' = [decided EXCEPT ![p] = <<>>]
  /\ state' = [state EXCEPT ![i] = to]
  /\ answered' = IF to = "answered" THEN answered \cup {i} ELSE answered
  /\ UNCHANGED <<number, last, origin, findingVars, reviewable>>

TakeBack(i, f) ==
  /\ origin[i] = f /\ state[i] = "open" /\ i \notin answered
  /\ finding[f] # "absent"
  /\ state' = [state EXCEPT ![i] = "voided"]
  /\ finding' = [finding EXCEPT ![f] = "pending"]
  /\ rfiOf' = [rfiOf EXCEPT ![f] = NoRfi]
  /\ UNCHANGED <<number, last, answered, origin, decided, reviewable>>

\* People propose, dismiss, restore and delete findings that have no RFI.
Judge(f, from, to) ==
  /\ <<from, to>> \in {<<"absent", "pending">>, <<"pending", "dismissed">>,
                       <<"dismissed", "pending">>, <<"dismissed", "absent">>}
  /\ finding[f] = from /\ finding' = [finding EXCEPT ![f] = to]
  /\ UNCHANGED <<rfiVars, decided, rfiOf, reviewable>>

Settled(f) == \/ finding[f] = "dismissed"
              \/ finding[f] = "accepted" /\ state[rfiOf[f]] = "voided"

\* A rescan reads the findings, and what it has read of them may be forgotten.
Look ==
  /\ reviewable' \subseteq reviewable \cup {f \in Findings : Settled(f)}
  /\ UNCHANGED <<rfiVars, decided, findingVars>>

\* A scan saves what it found.
Rescan ==
  /\ \A f \in Findings :
       \/ finding'[f] = finding[f] /\ rfiOf'[f] = rfiOf[f]
       \/ finding[f] = "absent" /\ finding'[f] = "pending" /\ rfiOf'[f] = NoRfi
       \/ finding[f] = "pending" /\ finding'[f] = "absent" /\ rfiOf'[f] = NoRfi
       \/ f \in reviewable /\ finding'[f] = "pending" /\ rfiOf'[f] = NoRfi
  /\ reviewable' \subseteq reviewable
  /\ UNCHANGED <<rfiVars, decided>>

Next ==
  \/ \E i \in Rfis :
       \/ Write(i)
       \/ \E f \in Findings : Accept(i, f) \/ TakeBack(i, f)
       \/ \E p \in People, to \in {"open", "answered", "closed", "voided"} :
            Decide(p, i, to) \/ CarryOut(p, i, to)
  \/ \E f \in Findings, from, to \in {"absent", "pending", "dismissed"} :
       Judge(f, from, to)
  \/ Look \/ Rescan

Spec == Init /\ [][Next]_vars
=============================================================================
