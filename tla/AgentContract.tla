--------------------------- MODULE AgentContract ---------------------------
(***************************************************************************)
(* What an agent run promises about the operator's terminal: one command   *)
(* at a time, each asked for, cleared and taken in that order and taken    *)
(* once; nothing further is asked while it is unknown whether a command    *)
(* that was taken has ended; and nothing is taken for a run that is over.  *)
(***************************************************************************)
EXTENDS Naturals

CONSTANT Gates         \* one for each time a command is put forward

VARIABLES
    command,   \* per gate: how far its command has come
    live       \* the operator's panel follows the run

vars == <<command, live>>

Before == {"idle", "asked", "cleared", "offered"}

Init == command = [g \in Gates |-> "idle"] /\ live = TRUE

Ask(g) ==
    /\ \A other \in Gates : command[other] \in {"idle", "settled"}
    /\ command' = [command EXCEPT ![g] = "asked"]

Move(g, from, to) == command[g] = from /\ command' = [command EXCEPT ![g] = to]

\* Refused, expired or cancelled before it was taken.
Withdraw(g) == command[g] \in Before /\ command' = [command EXCEPT ![g] = "idle"]

Live(g) ==
    \/ Ask(g) \/ Withdraw(g)
    \/ Move(g, "asked", "cleared") \/ Move(g, "cleared", "offered")
    \/ Move(g, "offered", "taken")

End ==
    /\ live /\ live' = FALSE
    /\ command' = [g \in Gates |-> IF command[g] \in Before THEN "idle" ELSE command[g]]

\* The terminal reports, to whoever still listens, that a command has ended.
Settle(g) == Move(g, "taken", "settled") /\ UNCHANGED live

Next ==
    \/ End
    \/ \E g \in Gates : Settle(g) \/ (live /\ Live(g) /\ UNCHANGED live)

Spec == Init /\ [][Next]_vars
=============================================================================
