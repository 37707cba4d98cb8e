-------------------------- MODULE AgentProperties --------------------------
(***************************************************************************)
(* What an agent run must keep, across the backend, the panel, the         *)
(* operator and the terminal.                                              *)
(***************************************************************************)
EXTENDS AgentPanel

\* A command has a gate, and one more each time the mode changes under it.
Gates == 1 .. (MaxWork + MaxEvents)

\* Every variable keeps its type; the mode in force never exceeds the
\* ceiling a schedule set, and no amount of steering buys a run more than
\* its hard cap of steps.
TypeOK ==
    /\ run.iteration \in 0 .. HardCap /\ run.budget \in 0 .. HardCap
    /\ run.gates \in 0 .. Cardinality(Gates) /\ run.commands \in 0 .. MaxWork
    /\ run.steers \subseteq Steers
    /\ reg.mode \in {"absent"} \cup {mode \in Mode : Rank(mode) <= Rank(Ceiling)}
    /\ reg.mail \subseteq Steers /\ Cardinality(reg.mail) <= MaxMail
    /\ reg.gate \in {"none", "waiting", "dropped", "run", "skip", "stop"}
    /\ reg.pty \in {"none", "waiting", "dropped"} \cup Outcome
    /\ ui.state \in {"following", "retired", "ended"}
    /\ ui.job \in {"none", "preflight", "typed"} /\ ui.jobGate \in 0 .. run.gates
    /\ ui.steers \in [Steers -> {"none", "queued", "delivered", "undelivered"}]
    /\ settled \subseteq taken /\ taken \subseteq Gates

\* A command is sent to the terminal only if the operator approved it at
\* that very gate, or if a mode in force since the terminal's readiness was
\* read runs such a command by itself, given all that the classifier said of
\* it (the re-check after the wait in agent/run.rs).  An acknowledgement of
\* the prompt, the operator's or the terminal's, approves nothing.
NothingRunsUnasked ==
    run.pc = "dispatch" =>
        \/ run.gates \in clicked
        \/ \E mode \in modes : PolicyAutoRuns(mode, run.cmd, AssessmentForMode(smart, mode))

Waiting(g) == run.gates = g /\ run.pc = "waiting"
Offered(g) ==
    \/ ui.job = "preflight" /\ ui.jobGate = g
    \/ \E i \in DOMAIN chan : chan[i].t = "run" /\ chan[i].gate = g

Bound == Following /\ target

CommandNow(g) ==
    IF g \in settled THEN "settled"
    ELSE IF g \in taken THEN "taken"
    ELSE IF ~Bound THEN "idle"
    ELSE IF Offered(g) THEN "offered"
    ELSE IF Waiting(g) THEN "asked"
    ELSE IF run.gates = g /\ run.pc = "dispatch" THEN "cleared"
    ELSE "idle"

Contract == INSTANCE AgentContract
    WITH command <- [g \in Gates |-> CommandNow(g)], live <- Bound

\* The two sides together implement the contract: one command at a time,
\* each asked for, cleared and typed once; none asked for while an earlier
\* one may still own the terminal; and none typed once the panel has let go
\* of the run or the terminal is no longer the run's (result_flags in
\* agent/pty_exec.rs, canDispatchToTarget and commandOutcomeFence).
KeepsCommandContract == Contract!Spec

\* What the panel says of a message to the running agent is true: one shown
\* as delivered was in a round the model completed, the transcript the panel
\* keeps for the next run contains no other, and a run that ends by itself
\* leaves none of them open; unless its transcript outgrew what is stored
\* (storage_snapshot and compact), none of them is missing from it either
\* (Guard and the restored transcript of a failed round in agent/run.rs,
\* SteerDelivered and Checkpoint).
SteersToldTruly ==
    LET delivered == {s \in Steers : ui.steers[s] = "delivered"}
    IN  /\ delivered \subseteq seen /\ ui.saved \subseteq delivered
        /\ ui.state = "ended" =>
              delivered = seen /\ ui.saved = run.sent /\ (~run.trimmed => ui.saved = delivered)

\* A run that is over leaves nothing behind: no mode, message, approval or
\* waiter in the backend's registries (agent_start's end), and no command
\* held in the terminal by a panel that let go of its run, where it would
\* turn the next one away as busy (abortSession).
NothingIsLeftBehind ==
    /\ run.pc = "ended" =>
          reg.mode = "absent" /\ ~reg.open /\ reg.mail = {} /\ reg.gate = "none" /\ reg.pty = "none"
    /\ ~Following => ui.job = "none"

\* Whatever the operator, the provider and the terminal do or fail to do, a
\* run ends, and the panel learns of it or has let go of it: every wait of
\* the backend has its time limit.
RunEnds == <>(run.pc = "ended" /\ ~Following)
=============================================================================
