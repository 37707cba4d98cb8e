-------------------------- MODULE DispatchContract --------------------------
(***************************************************************************)
(* What a runbook run promises its operator about commands, with no engine,*)
(* no rows and no registries: a command reaches the terminal at most once  *)
(* per approval, and it is the command that was approved; nothing is left  *)
(* askable or typeable once the run is closed, and a closed run stays so.  *)
(***************************************************************************)
EXTENDS Naturals

CONSTANT Commands      \* what can be asked for: a step's phase

VARIABLES
    asked,     \* the commands the operator is being asked about
    granted,   \* the commands approved and not yet handed to the terminal
    offered,   \* the commands a terminal may take
    typed,     \* how often one was taken since the operator was last asked
    closed     \* the run has its final status

vars == <<asked, granted, offered, typed, closed>>

Idle == asked = {} /\ granted = {} /\ offered = {}

Init == Idle /\ typed = 0 /\ closed = FALSE

Ask(c) ==
    /\ ~closed /\ Idle
    /\ asked' = {c} /\ typed' = 0
    /\ UNCHANGED <<granted, offered, closed>>

Grant(c) ==
    /\ c \in asked
    /\ asked' = {} /\ granted' = {c}
    /\ UNCHANGED <<offered, typed, closed>>

Offer(c) ==
    /\ c \in granted
    /\ granted' = {} /\ offered' = {c}
    /\ UNCHANGED <<asked, typed, closed>>

Take(c) ==
    /\ c \in offered
    /\ offered' = {} /\ typed' = typed + 1
    /\ UNCHANGED <<asked, granted, closed>>

\* Refused, cancelled, expired or lost: it takes a new request to ask, grant or
\* offer it again.
Withdraw ==
    /\ ~Idle
    /\ asked' = {} /\ granted' = {} /\ offered' = {}
    /\ UNCHANGED <<typed, closed>>

Close == Idle /\ ~closed /\ closed' = TRUE /\ UNCHANGED <<asked, granted, offered, typed>>

Next ==
    \/ Withdraw \/ Close
    \/ \E c \in Commands : Ask(c) \/ Grant(c) \/ Offer(c) \/ Take(c)

Spec == Init /\ [][Next]_vars
=============================================================================
