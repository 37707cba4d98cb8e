-------------------------- MODULE ScheduleContract --------------------------
(***************************************************************************)
(* What the schedule promises, whatever loop, queue or tab carries it out: *)
(* an occurrence is accounted for at most once, an action has at most one  *)
(* open run, and a run that ended never changes its verdict or reopens.    *)
(***************************************************************************)
EXTENDS Naturals

CONSTANTS Runs, Actions, NoOwner

VARIABLE ledger   \* per run: its phase, verdict, owner and occurrence

Phases == {"absent", "open", "closed", "erased"}

Open(r) == ledger[r].phase = "open"

OneOpenPerAction ==
    \A r, s \in Runs :
        Open(r) /\ Open(s) /\ ledger[r].owner = ledger[s].owner
            /\ ledger[r].owner # NoOwner => r = s

(* An occurrence is a moment of an action, told apart by the reckonings of *)
(* the wall clock in which the moment was computed and found to be due: a  *)
(* clock that is set back meets its moments again.  A manual run is        *)
(* nobody's occurrence; every other is counted, also when it is only       *)
(* recorded as skipped, and stays counted when its record is erased.       *)
OccurrencesOnce ==
    \A r, s \in Runs :
        /\ ledger[r].occurrence # <<>> /\ ledger[r].occurrence = ledger[s].occurrence
        => r = s

Init == \A r \in Runs : ledger[r].phase = "absent"

(* Orphaning is the only change a record's owner may see. *)
Moves(old, new) ==
    \/ new = old
    \/ old.phase = "absent" /\ new.phase \in {"open", "closed"}
    \/ /\ old.phase \in {"open", "closed"} /\ new.phase \in {"open", "closed", "erased"}
       /\ new.phase = "open" => old.phase = "open"
       /\ old.phase = "closed" /\ new.phase = "closed" => new.verdict = old.verdict
       /\ new.owner \in {old.owner, NoOwner}
       /\ new.occurrence = old.occurrence

Next == /\ \A r \in Runs : Moves(ledger[r], ledger'[r])
        /\ OneOpenPerAction'
        /\ OccurrencesOnce'

Spec == Init /\ [][Next]_ledger
=============================================================================
