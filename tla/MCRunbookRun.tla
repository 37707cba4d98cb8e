---------------------------- MODULE MCRunbookRun ----------------------------
(* Small instances of RunbookRun for TLC. *)
EXTENDS RunbookProperties

Authored(check, apply, verify, required, onFailure) ==
    [kind |-> [p \in Phase |-> CASE p = "check" -> check
                                 [] p = "apply" -> apply
                                 [] p = "verify" -> verify],
     required |-> required, onFailure |-> onFailure]

Checklist(steps) == [step |-> steps, discover |-> FALSE]
Discovering(steps) == [step |-> steps, discover |-> TRUE]

Remedy(onFailure) == Authored("shell", "shell", "shell", TRUE, onFailure)
Optional == Authored("shell", "none", "none", FALSE, "continue")
ByHand == Authored("shell", "manual", "manual", TRUE, "pause")
Attested == Authored("manual", "shell", "manual", FALSE, "continue")
Delegated == Authored("agent", "shell", "shell", TRUE, "pause")

\* One step of every shape.
SingleSteps ==
    {Checklist(<<st>>) : st \in {Remedy("pause"), ByHand, Attested}}
        \cup {Discovering(<<Delegated>>)}

\* A step after another: what one leaves behind, the next must not inherit.
Pairs ==
    {Checklist(<<Remedy("stop"), Optional>>), Checklist(<<Optional, Remedy("continue")>>)}
\* One authored step, and two of which the first stops the run.
OneRemedy == {Checklist(<<Remedy("pause")>>)}
OneDiscovery == {Discovering(<<Delegated>>)}
StopFirst == {Checklist(<<Remedy("stop"), Optional>>)}
=============================================================================
