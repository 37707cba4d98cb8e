------------------------- MODULE KnowledgeContract -------------------------
(***************************************************************************)
(* What ingestion promises of a document that several machines replace:    *)
(* a reader never loses the newest revision it could find, a replacement   *)
(* reported as completed left nothing older to be found and none comes     *)
(* back, and a job that was asked to stop does not go on.                  *)
(***************************************************************************)
EXTENDS Naturals, FiniteSets

CONSTANT Job

VARIABLES
    visible,   \* the revisions a search finds
    ledger     \* per job: how it stands, and the revision it writes

vars == <<visible, ledger>>

Phase == {"absent", "open", "stopping", "done", "undone"}
Done == {ledger[j].rev : j \in {k \in Job : ledger[k].phase = "done"}}

Init == Cardinality(visible) <= 1 /\ \A j \in Job : ledger[j].phase = "absent"

\* A revision above every completed one joins what can be found.
Publish ==
    /\ visible \subseteq visible' /\ Cardinality(visible' \ visible) = 1
    /\ \A r \in visible' \ visible : \A d \in Done : d < r
    /\ UNCHANGED ledger

\* Older ones leave it, never the newest.
Retire ==
    /\ visible' \subseteq visible
    /\ \A r \in visible \ visible' : \E top \in visible' : r < top
    /\ UNCHANGED ledger

\* A job asked to stop only ends; what is done is never done again.
Follows ==
    [absent |-> {"open"}, open |-> {"stopping", "done", "undone"},
     stopping |-> {"undone"}, undone |-> {"open"}, done |-> {}]

Move(j) ==
    /\ ledger'[j].phase \in Follows[ledger[j].phase]
    /\ ledger'[j].rev = ledger[j].rev
    /\ ledger'[j].phase = "done" => \A r \in visible : r >= ledger[j].rev

\* A job keeps the revision it was given, across retries.
Allocate(j) ==
    /\ ledger[j].phase \in {"open", "stopping"} /\ ledger[j].rev = 0
    /\ ledger'[j].phase = ledger[j].phase
    /\ \A k \in Job \ {j} : ledger[k].rev # ledger'[j].rev

\* Recovery of an interrupted process moves several jobs at once.
Jobs ==
    /\ \A j \in Job : ledger'[j] = ledger[j] \/ Move(j) \/ Allocate(j)
    /\ UNCHANGED visible

Next == Jobs \/ Publish \/ Retire

Spec == Init /\ [][Next]_vars
=============================================================================
