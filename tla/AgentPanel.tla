----------------------------- MODULE AgentPanel -----------------------------
(***************************************************************************)
(* The webview's side of the run (hooks/useAiStream.ts, lib/ptyExec.ts):   *)
(* the panel that follows its events, the card on which the operator       *)
(* answers, and the one command it may have in the terminal.  The two      *)
(* sides share no state: events arrive in order, and each call travels by  *)
(* itself, so that calls overtake one another and the events.              *)
(***************************************************************************)
EXTENDS AgentRun

CONSTANTS
    StartModes,  \* modes the panel may start the run in
    MaxWork,     \* bound: commands put forward and messages written, in all
    MaxInFlight, \* bound: events and calls under way when the backend goes on
    MaxEvents    \* bound: stops, changes of mode and of terminal

ASSUME PanelAssumption ==
    StartModes \subseteq Mode /\ MaxWork \in Nat /\ MaxInFlight \in Nat /\ MaxEvents \in Nat

VARIABLES
    ui,      \* the panel, its card, its command in the terminal, its steers
    target,  \* is the terminal still the one the run is bound to
    calls,   \* calls on their way to the backend, and answers on their way back
    taken,   \* history: gates whose command was typed
    settled, \* history: gates whose command the terminal reported as ended
    clicked, \* history: gates at which the operator approved a command yet to be sent
    events

panel == <<ui, target, calls, taken, settled, clicked, events>>
vars == <<backend, panel>>

NoCard == [gate |-> 0, kind |-> "none"]
Following == ui.state = "following"

Init ==
    /\ RunInit
    /\ ui = [state |-> "following", card |-> NoCard, job |-> "none", jobGate |-> 0,
             saved |-> {}, steers |-> [s \in Steers |-> "none"]]
    /\ target = TRUE /\ calls = {} /\ events = 0
    /\ taken = {} /\ settled = {} /\ clicked = {}

History == UNCHANGED <<taken, settled, clicked>>
Budget == events < MaxEvents /\ events' = events + 1

Undelivered(steers) ==
    [s \in Steers |-> IF steers[s] = "queued" THEN "undelivered" ELSE steers[s]]

\* What the panel no longer follows can no longer change it; its command,
\* if it awaits one, is let go of and left to the terminal.
Retired == [ui EXCEPT !.state = "retired", !.card = NoCard, !.job = "none", !.jobGate = 0,
               !.steers = Undelivered(@)]
Written == {s \in Steers : ui.steers[s] # "none"}
Sent(call) == calls \cup {call}
Stopping(rest) == ui' = Retired /\ calls' = rest \cup {[t |-> "cancel"]}

-----------------------------------------------------------------------------
(* dispatchPanelEvent: the head of the channel.                            *)

Arrives(type) == Following /\ target /\ chan # <<>> /\ Head(chan).t = type
Read == chan' = Tail(chan) /\ UNCHANGED <<run, reg, seen, modes, smart, target, events>>

Drop == ~Following /\ chan # <<>> /\ Read /\ UNCHANGED <<ui, calls>> /\ History

\* Every event checks the run's terminal first.
Mismatch == Following /\ ~target /\ chan # <<>> /\ Read /\ Stopping(calls) /\ History

\* A terminal whose prompt needs no attestation acknowledges its readiness.
ShowGate ==
    /\ Arrives("gate") /\ Read /\ History
    /\ LET e == Head(chan)
       IN  \/ /\ ui' = [ui EXCEPT !.card = [gate |-> e.gate, kind |-> e.kind]]
              /\ UNCHANGED calls
           \/ /\ e.kind = "readiness"
              /\ calls' = Sent([t |-> "answer", gate |-> e.gate, says |-> "run"])
              /\ UNCHANGED ui

RunCommand ==
    /\ Arrives("run") /\ Read /\ UNCHANGED calls
    /\ ui' = [ui EXCEPT !.card = NoCard, !.job = "preflight", !.jobGate = Head(chan).gate]
    /\ clicked' = {} /\ UNCHANGED <<taken, settled>>

\* Wrong on purpose: the command is still awaited when the backend gave up.
FenceArrives_Waits ==
    /\ Arrives("fence") /\ Read /\ History
    /\ ui' = [Retired EXCEPT !.job = ui.job, !.jobGate = ui.jobGate]
    /\ calls' = Sent([t |-> "cancel"])
FenceArrives == Arrives("fence") /\ Read /\ History /\ Stopping(calls)

DeliveredArrives ==
    /\ Arrives("delivered") /\ Read /\ History
    /\ ui' = [ui EXCEPT !.steers = [s \in Steers |->
                 IF s \in Head(chan).steers THEN "delivered" ELSE @[s]]]
    /\ UNCHANGED calls

CheckpointArrives ==
    /\ Arrives("checkpoint") /\ Read /\ History
    /\ ui' = [ui EXCEPT !.saved = Head(chan).steers]
    /\ UNCHANGED calls

EndArrives ==
    /\ Arrives("end") /\ Read /\ History
    /\ ui' = [Retired EXCEPT !.state = "ended", !.job = ui.job, !.jobGate = ui.jobGate]
    /\ UNCHANGED calls

Receive ==
    \/ Drop \/ Mismatch \/ ShowGate \/ RunCommand \/ FenceArrives
    \/ DeliveredArrives \/ CheckpointArrives \/ EndArrives

-----------------------------------------------------------------------------
(* The operator.                                                           *)

Answering(gate) == \E call \in calls : call.t = "answer" /\ call.gate = gate

\* respondToProposal: an approval keeps its card until the command arrives.
Answer(says) ==
    /\ Following /\ ui.card # NoCard /\ ~Answering(ui.card.gate)
    /\ IF ~target THEN Stopping(calls) /\ History
       ELSE /\ ui' = IF says = "run" THEN ui ELSE [ui EXCEPT !.card = NoCard]
            /\ calls' = Sent([t |-> "answer", gate |-> ui.card.gate, says |-> says])
            /\ clicked' = IF says = "run" /\ ui.card.kind = "permission"
                          THEN clicked \cup {ui.card.gate} ELSE clicked
            /\ UNCHANGED <<taken, settled>>
    /\ UNCHANGED <<backend, target, events>>

Stop ==
    /\ Following /\ Budget /\ Stopping(calls)
    /\ UNCHANGED <<backend, target>> /\ History

SetMode(mode) ==
    /\ Following /\ Budget /\ SetPermissionMode(mode)
    /\ UNCHANGED <<ui, target, calls>> /\ History

Steer(s) ==
    /\ Following /\ ui.steers[s] = "none" /\ run.commands + Cardinality(Written) < MaxWork
    /\ ui' = [ui EXCEPT !.steers[s] = "queued"]
    /\ calls' = Sent([t |-> "steer", steer |-> s])
    /\ UNCHANGED <<backend, target, events>> /\ History

\* Most changes notify the run's guard; a replaced terminal entry is found
\* by the next check.  What becomes of it later is no business of the run.
TargetChanges ==
    /\ Following /\ target /\ target' = FALSE /\ Budget
    /\ \/ Stopping(calls)
       \/ UNCHANGED <<ui, calls>>
    /\ UNCHANGED backend /\ History

-----------------------------------------------------------------------------
(* Calls, in any order.                                                    *)

Quiet == UNCHANGED <<target, events>> /\ History

StartArrives(mode) ==
    /\ Register(mode) /\ UNCHANGED <<ui, calls>> /\ Quiet

DeliverAnswer(call) ==
    /\ call \in calls /\ call.t = "answer" /\ Quiet
    /\ IF GateTakes(call.gate)
       THEN /\ reg' = [reg EXCEPT !.gate = call.says]
            /\ calls' = calls \ {call}
       ELSE /\ calls' = (calls \ {call}) \cup {[t |-> "failed"]}
            /\ UNCHANGED reg
    /\ UNCHANGED <<run, chan, seen, modes, smart, ui>>

\* What the panel makes of an outcome does not depend on what the backend does.
PanelFences(outcome) == outcome \in {"refused", "unknown"}

DeliverResult(call) ==
    /\ call \in calls /\ call.t = "result" /\ Quiet
    /\ reg' = IF WaiterTakes(call.gate) THEN [reg EXCEPT !.pty = call.outcome] ELSE reg
    /\ calls' = (calls \ {call}) \cup
          (IF WaiterTakes(call.gate) /\ ~PanelFences(call.outcome) THEN {}
           ELSE {[t |-> "failed"]})
    /\ UNCHANGED <<run, chan, seen, modes, smart, ui>>

\* The answer was refused, the result was, or was one that fences the run.
CallFails ==
    /\ [t |-> "failed"] \in calls /\ Quiet
    /\ IF Following THEN Stopping(calls \ {[t |-> "failed"]})
       ELSE calls' = calls \ {[t |-> "failed"]} /\ UNCHANGED ui
    /\ UNCHANGED backend

DeliverSteer(call) ==
    /\ call \in calls /\ call.t = "steer" /\ calls' = calls \ {call} /\ Quiet
    /\ IF SteerAccepted
       THEN reg' = [reg EXCEPT !.mail = @ \cup {call.steer}] /\ UNCHANGED ui
       ELSE ui' = [ui EXCEPT !.steers[call.steer] = "undelivered"] /\ UNCHANGED reg
    /\ UNCHANGED <<run, chan, seen, modes, smart>>

DeliverCancel ==
    /\ [t |-> "cancel"] \in calls /\ calls' = calls \ {[t |-> "cancel"]}
    /\ AiCancel /\ Quiet /\ UNCHANGED ui

AnswersArrive == \E call \in calls : DeliverAnswer(call)
ResultsArrive == \E call \in calls : DeliverResult(call)
SteersArrive == \E call \in calls : DeliverSteer(call)

-----------------------------------------------------------------------------
(* runInTerminal of lib/ptyExec.ts.                                        *)

Report(outcome) ==
    /\ ui' = [ui EXCEPT !.job = "none", !.jobGate = 0]
    /\ calls' = IF Following
                THEN Sent([t |-> "result", gate |-> ui.jobGate, outcome |-> outcome])
                ELSE calls

\* Unsafe, busy with somebody else's command, or not shown to be a shell.
PreflightFails(outcome) ==
    /\ ui.job = "preflight" /\ Report(outcome)
    /\ UNCHANGED <<backend, target, events>> /\ History

CanWrite == Following /\ target

Type ==
    /\ ui.job = "preflight"
    /\ IF CanWrite
       THEN /\ ui' = [ui EXCEPT !.job = "typed"]
            /\ taken' = taken \cup {ui.jobGate}
            /\ UNCHANGED <<calls, settled, clicked>>
       ELSE Stopping(calls) /\ History
    /\ UNCHANGED <<backend, target, events>>

\* A completion that was observed, or any of the ways not to observe it.
CommandEnds(outcome) ==
    /\ ui.job = "typed" /\ Report(outcome)
    /\ settled' = IF outcome = "completed" THEN settled \cup {ui.jobGate} ELSE settled
    /\ UNCHANGED <<backend, target, events, taken, clicked>>

-----------------------------------------------------------------------------
Spontaneous ==
    \/ \E says \in {"run", "skip", "stop"} : Answer(says)
    \/ Stop \/ TargetChanges
    \/ \E mode \in Mode : SetMode(mode)
    \/ \E s \in Steers : Steer(s)
    \/ \E outcome \in {"notStarted", "refused"} : PreflightFails(outcome)
    \/ Type
    \/ \E outcome \in {"completed", "unknown"} : CommandEnds(outcome)

Loop ==
    /\ Len(chan) + Cardinality(calls) < MaxInFlight /\ LoopStep
    /\ run'.commands + Cardinality(Written) <= MaxWork
    /\ UNCHANGED panel
Start == \E mode \in StartModes : StartArrives(mode)

Next ==
    \/ Start \/ Loop \/ Receive \/ Spontaneous
    \/ AnswersArrive \/ ResultsArrive \/ SteersArrive \/ CallFails \/ DeliverCancel

Spec == Init /\ [][Next]_vars

(* The runtime runs a task that can go on and every wait of it has a time  *)
(* limit; events and calls arrive.  Nothing is expected of the operator or *)
(* of the terminal.                                                        *)
FairSpec ==
    /\ Spec
    /\ WF_vars(Start) /\ WF_vars(Loop) /\ WF_vars(Receive)
    /\ WF_vars(AnswersArrive) /\ WF_vars(ResultsArrive) /\ WF_vars(SteersArrive)
    /\ WF_vars(CallFails) /\ WF_vars(DeliverCancel)
=============================================================================
