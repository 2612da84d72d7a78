------------------------- MODULE DocumentLifecycle -------------------------
(***************************************************************************)
(* What a project promises the people who upload to it, whatever the       *)
(* queue, the workers and the faults do meanwhile:                         *)
(*   - a page that can be looked at, or has been read for search, stays so *)
(*     until its document is deleted;                                      *)
(*   - a document is completed only when all its pages can be looked at;   *)
(*   - a document is retired only in favour of a revision of it, and only  *)
(*     when that revision can be looked at, page for page;                 *)
(*   - a document has at most one revision, and a retired one none new.    *)
(***************************************************************************)
EXTENDS Naturals

CONSTANTS Docs, PageNos, NoDoc

VARIABLES
  state,     \* "absent", "uploaded", "processing", "completed", ...
  revises,   \* the document each document replaces
  retired,   \* documents replaced by a revision
  viewable,  \* pages with a picture
  read       \* pages read for search

vars == <<state, revises, retired, viewable, read>>

Pages == Docs \X PageNos
PagesOf(d) == {pg \in Pages : pg[1] = d}
Present(d) == state[d] \notin {"absent", "deleted"}
Whole(d) == PagesOf(d) \subseteq viewable

Init ==
  /\ state = [d \in Docs |-> "absent"] /\ revises = [d \in Docs |-> NoDoc]
  /\ retired = {} /\ viewable = {} /\ read = {}

Create(d, p) ==
  /\ state[d] = "absent"
  /\ p # NoDoc => Present(p) /\ p \notin retired /\ \A e \in Docs : revises[e] # p
  /\ state' = [state EXCEPT ![d] = "uploaded"]
  /\ revises' = [revises EXCEPT ![d] = p]
  /\ UNCHANGED <<retired, viewable, read>>

\* The document waits, is worked on, or is given up for now.
Work(d) ==
  /\ Present(d)
  /\ \E s \in {"uploaded", "processing", "failed"} : state' = [state EXCEPT ![d] = s]
  /\ UNCHANGED <<revises, retired, viewable, read>>

Show(pg) ==
  /\ Present(pg[1]) /\ viewable' = viewable \cup {pg}
  /\ UNCHANGED <<state, revises, retired, read>>

Read(pg) ==
  /\ pg \in viewable /\ read' = read \cup {pg}
  /\ UNCHANGED <<state, revises, retired, viewable>>

Complete(d) ==
  /\ Present(d) /\ Whole(d) /\ state' = [state EXCEPT ![d] = "completed"]
  /\ UNCHANGED <<revises, retired, viewable, read>>

Retire(d) ==
  /\ \E e \in Docs : Present(e) /\ revises[e] = d /\ Whole(e)
  /\ retired' = retired \cup {d}
  /\ UNCHANGED <<state, revises, viewable, read>>

Delete(d) ==
  /\ Present(d)
  /\ state' = [state EXCEPT ![d] = "deleted"]
  /\ revises' = [e \in Docs |-> IF d \in {e, revises[e]} THEN NoDoc
                                ELSE revises[e]]
  /\ retired' = retired \ {d}
  /\ viewable' = viewable \ PagesOf(d) /\ read' = read \ PagesOf(d)

Next ==
  \/ \E d \in Docs : \/ \E p \in Docs \cup {NoDoc} : Create(d, p)
                     \/ Work(d) \/ Complete(d) \/ Retire(d) \/ Delete(d)
  \/ \E pg \in Pages : Show(pg) \/ Read(pg)

Spec == Init /\ [][Next]_vars
=============================================================================
