------------------------------ MODULE AgentRun ------------------------------
(***************************************************************************)
(* The backend's side of one agent run: agent_start (commands/ai.rs), the  *)
(* round loop and the tool batch (agent/run.rs), the wait for the terminal *)
(* (agent/pty_exec.rs), and the registries through which commands reach    *)
(* it (agent/mod.rs).  Texts, usage, pictures and the run's statistics are *)
(* left out; a transcript is the set of steering messages it contains, and *)
(* what its length decides (storage_snapshot drops its oldest messages     *)
(* past 60 messages or 24 000 characters, compaction replaces them) may    *)
(* happen to any of them.  What the panel is told travels in `chan`, in    *)
(* order.                                                                  *)
(***************************************************************************)
EXTENDS Naturals, Sequences, FiniteSets

CONSTANTS
    MaxIterations,  \* the configured number of steps
    MaxMail,        \* MAX_STEERS_PENDING
    Steers,         \* messages the operator may send to the running agent
    Ceiling,        \* the mode a schedule allows at most; "full" without one
    Proposals       \* commands the model may put forward

Modes == <<"ask", "auto_read", "auto_smart", "auto_all", "full">>
Mode == {Modes[i] : i \in DOMAIN Modes}
Rank(mode) == CHOOSE i \in DOMAIN Modes : Modes[i] = mode

\* Counts are numbers, and a ceiling is one of the five modes.
ASSUME RunAssumption ==
    MaxIterations \in Nat /\ MaxMail \in Nat /\ IsFiniteSet(Steers) /\ Ceiling \in Mode

\* Protected: privileged or opaque.  Private: its output is for the operator.
NoCommand == [effect |-> "none", protected |-> FALSE, private |-> FALSE, rule |-> "none"]
\* Wrong on purpose: the mode the panel asked for, whatever the schedule allows.
Clamp_Not(mode) == mode
Clamp(mode) == IF Rank(mode) > Rank(Ceiling) THEN Ceiling ELSE mode

VARIABLES
    run,    \* the task: its position and its locals
    reg,    \* registries: permissions, mailbox, approval gate, terminal waiter, cancel
    chan,   \* events on their way to the panel
    seen,   \* history: steers of rounds the provider completed
    modes,  \* history: permission modes since the last answer was read
    smart   \* history: the classifier's verdict on the command in hand

backend == <<run, reg, chan, seen, modes, smart>>

-----------------------------------------------------------------------------
(* Whether a command may run without the operator.                         *)

\* The classifier's "read" authorizes in smart mode only; its "sensitive"
\* is kept in every mode.
AssessmentForMode(verdict, mode) ==
    IF mode = "auto_smart" \/ verdict = "sensitive" THEN verdict ELSE "unasked"

Effect(cmd, verdict) == IF verdict = "unasked" THEN cmd.effect ELSE verdict

PolicyAutoRuns(mode, cmd, verdict) ==
    \/ mode = "full"
    \/ /\ ~cmd.protected /\ ~cmd.private
       /\ Effect(cmd, verdict) # "sensitive" /\ cmd.rule # "ask"
       /\ \/ mode = "auto_all"
          \/ /\ mode \in {"auto_read", "auto_smart"}
             /\ Effect(cmd, verdict) = "read" \/ cmd.rule = "allow"

AsksClassifier(mode, cmd) ==
    mode = "auto_smart" /\ cmd.rule = "none" /\ cmd.effect = "unknown" /\ ~cmd.protected

(* What an outcome the panel reports means for the run: after anything     *)
(* that leaves the terminal's foreground unknown it must not go on.        *)
\* "refused": nothing was typed, since the shell or the target is in doubt.
Outcome == {"completed", "notStarted", "refused", "unknown"}
\* Wrong on purpose: a command nobody saw complete counts as a failed one.
Fences_Lenient(outcome) == outcome = "refused"
Fences(outcome) == outcome \in {"refused", "unknown"}

-----------------------------------------------------------------------------
RunInit ==
    /\ run = [pc |-> "starting", iteration |-> 0, budget |-> MaxIterations,
              queued |-> {}, steers |-> {}, sent |-> {}, trimmed |-> FALSE, commands |-> 0, gates |-> 0,
              cmd |-> NoCommand, verdict |-> "unasked", kind |-> "none"]
    /\ reg = [mode |-> "absent", mail |-> {}, open |-> FALSE, gate |-> "none",
              pty |-> "none", cancelled |-> FALSE]
    /\ chan = <<>> /\ seen = {} /\ modes = {} /\ smart = "unasked"

To(pc) == run' = [run EXCEPT !.pc = pc]
Tell(event) == chan' = Append(chan, event)
(* CheckpointState::emit sends what storage_snapshot keeps of the          *)
(* transcript; what the panel already keeps is not sent again.             *)
CheckpointOf(kept) ==
    IF kept = run.sent THEN <<>> ELSE <<[t |-> "checkpoint", steers |-> kept]>>
\* Has length ever cost the run's stored transcript a message?
Trimmed(kept, steers) == run.trimmed \/ kept # steers

(* finish_outcome, whatever the termination: completed, paused, cancelled  *)
(* or failed.  agent_start then settles the registries (Finish).           *)
EndsWith(steers, told) ==
    \E kept \in SUBSET steers :
        /\ run' = [run EXCEPT !.pc = "ending", !.queued = {}, !.steers = steers, !.sent = kept,
                      !.trimmed = Trimmed(kept, steers),
                      !.cmd = NoCommand, !.verdict = "unasked", !.kind = "none"]
        /\ chan' = chan \o told \o CheckpointOf(kept)
Ends == EndsWith(run.steers, <<>>)

RunUnchanged == UNCHANGED <<seen, modes, smart>>
Only(pc) == run.pc = pc

-----------------------------------------------------------------------------
(* agent_start up to the loop.                                             *)

Register(mode) ==
    /\ Only("starting") /\ To("setup")
    /\ reg' = [reg EXCEPT !.mode = Clamp(mode), !.open = TRUE]
    /\ RunUnchanged /\ UNCHANGED chan

\* Provider and MCP set-up; refused as well when a stop arrived meanwhile.
SetUp ==
    /\ Only("setup")
    /\ \/ ~reg.cancelled /\ To("top") /\ UNCHANGED chan
       \/ Ends
    /\ RunUnchanged /\ UNCHANGED reg

Finish ==
    /\ Only("ending") /\ To("ended")
    /\ reg' = [reg EXCEPT !.mode = "absent", !.gate = "none", !.pty = "none",
                  !.mail = {}, !.open = FALSE]
    /\ Tell([t |-> "end"])
    /\ RunUnchanged

-----------------------------------------------------------------------------
(* One turn of run_agent's loop.                                           *)

HardCap == 3 * MaxIterations
Extended == IF run.iteration + 1 + MaxIterations < HardCap
            THEN run.iteration + 1 + MaxIterations ELSE HardCap
CanExtend == Extended > run.iteration

Top ==
    /\ Only("top")
    /\ IF reg.cancelled \/ (run.iteration >= run.budget /\ ~(CanExtend /\ reg.mail # {}))
       THEN Ends
       ELSE To("guard") /\ UNCHANGED chan
    /\ RunUnchanged /\ UNCHANGED reg

(* A transcript that has grown long is compacted: a summary takes the      *)
(* place of its older messages, and the panel is told at once.             *)
Compact(rest) ==
    /\ Only("guard") /\ rest # run.steers
    /\ \E kept \in SUBSET rest :
          /\ run' = [run EXCEPT !.steers = rest, !.sent = kept, !.trimmed = TRUE]
          /\ chan' = chan \o CheckpointOf(kept)
    /\ RunUnchanged /\ UNCHANGED reg

(* A run whose transcript stays too long, or that is stopped meanwhile,    *)
(* ends here.  Steers leave the mailbox only when nothing but the provider *)
(* stands between them and the model.                                      *)
Guard ==
    /\ Only("guard")
    /\ \/ Ends /\ UNCHANGED reg
       \/ LET queued == IF CanExtend THEN reg.mail ELSE {}
              budget == IF queued = {} THEN run.budget ELSE Extended
          IN  /\ reg' = [reg EXCEPT !.mail = @ \ queued]
              /\ IF run.iteration >= budget THEN Ends
                 ELSE /\ run' = [run EXCEPT !.pc = "round", !.queued = queued,
                                    !.budget = budget, !.steers = @ \cup queued]
                      /\ UNCHANGED chan
    /\ RunUnchanged

\* Wrong on purpose: the transcript keeps what the model never answered.
Restored_Not == run.steers
Restored == run.steers \ run.queued

(* A failed or cancelled round leaves its steers out of the transcript.    *)
RoundFails ==
    /\ Only("round")
    /\ EndsWith(Restored, <<>>)
    /\ RunUnchanged /\ UNCHANGED reg

(* The provider's answer.  Without a tool call the run ends, unless the    *)
(* operator has written meanwhile; an answer that says nothing ends it     *)
(* even then.                                                              *)
RoundEnds(tools) ==
    /\ Only("round")
    /\ LET delivered == IF run.queued = {} THEN <<>>
                        ELSE <<[t |-> "delivered", steers |-> run.queued]>>
       IN  \/ /\ tools
              /\ run' = [run EXCEPT !.pc = "batch", !.queued = {}]
              /\ chan' = chan \o delivered
           \/ ~tools /\ EndsWith(run.steers, delivered)
           \/ /\ ~tools /\ reg.mail # {}
              /\ \E kept \in SUBSET run.steers :
                    /\ run' = [run EXCEPT !.pc = "top", !.queued = {}, !.sent = kept,
                                  !.trimmed = Trimmed(kept, run.steers), !.iteration = @ + 1]
                    /\ chan' = chan \o delivered \o CheckpointOf(kept)
    /\ seen' = seen \cup run.queued
    /\ UNCHANGED <<reg, modes, smart>>

-----------------------------------------------------------------------------
(* process_tool_calls.  Calls answered on the spot change nothing here: a  *)
(* denied or malformed command, a search, an MCP tool, an unknown name.    *)

Answered == [run EXCEPT !.pc = "batch", !.cmd = NoCommand, !.verdict = "unasked", !.kind = "none"]

BatchEnds ==
    /\ Only("batch")
    /\ \E kept \in SUBSET run.steers :
          /\ run' = [run EXCEPT !.pc = "top", !.iteration = @ + 1, !.sent = kept,
                        !.trimmed = Trimmed(kept, run.steers)]
          /\ chan' = chan \o CheckpointOf(kept)
    /\ RunUnchanged /\ UNCHANGED reg

BatchCancelled ==
    /\ Only("batch") /\ reg.cancelled /\ Ends
    /\ RunUnchanged /\ UNCHANGED reg

\* The model says it has finished; a message that waits is answered first.
FinishCall ==
    /\ Only("batch") /\ ~reg.cancelled /\ reg.mail = {} /\ Ends
    /\ RunUnchanged /\ UNCHANGED reg

CommandCall(cmd) ==
    /\ Only("batch") /\ ~reg.cancelled
    /\ run' = [run EXCEPT !.cmd = cmd, !.commands = @ + 1, !.verdict = "unasked",
                  !.pc = IF AsksClassifier(reg.mode, cmd) THEN "assessing" ELSE "gate"]
    /\ smart' = "unasked"
    /\ UNCHANGED <<reg, chan, seen, modes>>

Assess(verdict) ==
    /\ Only("assessing")
    /\ run' = [run EXCEPT !.pc = "gate", !.verdict = verdict]
    /\ smart' = verdict
    /\ UNCHANGED <<reg, chan, seen, modes>>

(* A gate is opened for every command: the operator's approval, or, for    *)
(* one the mode runs by itself, the terminal's readiness.                  *)
OpenGate ==
    /\ Only("gate")
    /\ IF reg.cancelled THEN Ends /\ UNCHANGED reg
       ELSE LET verdict == AssessmentForMode(run.verdict, reg.mode)
                kind == IF PolicyAutoRuns(reg.mode, run.cmd, verdict)
                        THEN "readiness" ELSE "permission"
            IN  /\ run' = [run EXCEPT !.pc = "waiting", !.verdict = verdict,
                              !.gates = @ + 1, !.kind = kind]
                /\ reg' = [reg EXCEPT !.gate = "waiting"]
                /\ Tell([t |-> "gate", gate |-> run.gates + 1, kind |-> kind])
    /\ RunUnchanged

(* The wait ends without its answer: a stop, the gate dropped by one, or   *)
(* the time limit, even over an answer that has just come in.              *)
GateCloses ==
    /\ Only("waiting") /\ Ends
    /\ reg' = [reg EXCEPT !.gate = "none"]
    /\ smart' = "unasked" /\ UNCHANGED <<seen, modes>>

(* A readiness answer is no approval: it counts only while the mode still  *)
(* runs the command by itself; otherwise a fresh gate is opened.           *)
\* Wrong on purpose: the mode is not read again.
StillRuns_Assumed(verdict) == TRUE
StillRuns(verdict) ==
    run.kind = "permission" \/ PolicyAutoRuns(reg.mode, run.cmd, verdict)

GateAnswered ==
    /\ Only("waiting") /\ ~reg.cancelled /\ reg.gate \in {"run", "skip", "stop"}
    /\ LET verdict == AssessmentForMode(run.verdict, reg.mode)
       IN  \/ reg.gate = "stop" /\ Ends
           \/ reg.gate = "skip" /\ run' = Answered /\ UNCHANGED chan
           \/ /\ reg.gate = "run"
              /\ run' = [run EXCEPT !.verdict = verdict,
                            !.pc = IF StillRuns(verdict) THEN "dispatch" ELSE "gate"]
              /\ UNCHANGED chan
    /\ reg' = [reg EXCEPT !.gate = "none"]
    /\ modes' = IF run'.pc = "dispatch" THEN {reg.mode} ELSE {}
    /\ smart' = IF reg.gate = "run" THEN smart ELSE "unasked"
    /\ UNCHANGED seen

-----------------------------------------------------------------------------
(* run_in_terminal.                                                        *)

Dispatch ==
    /\ Only("dispatch") /\ To("executing")
    /\ reg' = [reg EXCEPT !.pty = "waiting"]
    /\ Tell([t |-> "run", gate |-> run.gates])
    /\ modes' = {} /\ smart' = "unasked" /\ UNCHANGED seen

Fence == <<[t |-> "fence"]>>

TerminalReports ==
    /\ Only("executing") /\ reg.pty \in Outcome
    /\ IF Fences(reg.pty) THEN EndsWith(run.steers, Fence)
       ELSE run' = Answered /\ UNCHANGED chan
    /\ reg' = [reg EXCEPT !.pty = "none"]
    /\ RunUnchanged

\* Wrong on purpose: only a stop ends the wait.
TerminalLost_Never(stopped) ==
    /\ Only("executing") /\ stopped /\ reg.cancelled /\ Ends
    /\ reg' = [reg EXCEPT !.pty = "none"]
    /\ RunUnchanged
(* A stop ends the wait silently; the backend's own deadline, even over a  *)
(* report that has just come in, or a waiter dropped by the stop, tells    *)
(* the panel to let go of the command.                                     *)
TerminalLost(stopped) ==
    /\ Only("executing")
    /\ IF stopped THEN reg.cancelled /\ Ends
       ELSE EndsWith(run.steers, Fence)
    /\ reg' = [reg EXCEPT !.pty = "none"]
    /\ RunUnchanged

-----------------------------------------------------------------------------
(* Commands of the panel, as they arrive.                                  *)

(* ai_cancel finds nothing to stop before agent_start has registered and   *)
(* after it has finished.                                                  *)
AiCancel ==
    /\ reg' = [reg EXCEPT !.mail = {}, !.open = FALSE,
                  !.cancelled = @ \/ run.pc \notin {"starting", "ended"},
                  !.gate = IF @ = "waiting" THEN "dropped" ELSE @,
                  !.pty = IF @ = "waiting" THEN "dropped" ELSE @]
    /\ RunUnchanged /\ UNCHANGED <<run, chan>>

SetPermissionMode(mode) ==
    /\ reg.mode # "absent" /\ Rank(mode) <= Rank(Ceiling) /\ mode # reg.mode
    /\ reg' = [reg EXCEPT !.mode = mode]
    /\ modes' = IF run.pc = "dispatch" THEN modes \cup {mode} ELSE modes
    /\ UNCHANGED <<run, chan, seen, smart>>

SteerAccepted == reg.open /\ Cardinality(reg.mail) < MaxMail
GateTakes(gate) == reg.gate = "waiting" /\ run.gates = gate
WaiterTakes(gate) == reg.pty = "waiting" /\ run.gates = gate

LoopStep ==
    \/ SetUp \/ Finish \/ Top \/ Guard \/ RoundFails
    \/ \E rest \in SUBSET run.steers : Compact(rest)
    \/ \E tools \in BOOLEAN : RoundEnds(tools)
    \/ BatchEnds \/ BatchCancelled \/ FinishCall
    \/ \E cmd \in Proposals : CommandCall(cmd)
    \/ \E verdict \in {"unasked", "read", "sensitive"} : Assess(verdict)
    \/ OpenGate \/ GateCloses \/ GateAnswered
    \/ Dispatch \/ TerminalReports \/ \E stopped \in BOOLEAN : TerminalLost(stopped)
=============================================================================
