----------------------------- MODULE RunbookRun -----------------------------
(***************************************************************************)
(* One runbook run, from the moment runbooks_start committed its rows and  *)
(* spawned its engine task until its report is stored: the engine          *)
(* (runbooks/engine.rs) over its durable rows (RunbookDb) and its volatile *)
(* coordinator (RunbookCoordinator), and the actors around it: the operator*)
(* who approves, decides, attests and cancels, the webview that claims a   *)
(* dispatch lease, types the command and reports its exit, the terminal    *)
(* that can close, and the process that can die and be restarted.          *)
(*                                                                         *)
(* An engine action is one SQLite transaction with the in-memory work next *)
(* to it, because a crash or a command can only be told apart at those     *)
(* boundaries; the engine's position between two of them is eng.pc.        *)
(***************************************************************************)
EXTENDS RunbookCoordinator

CONSTANTS
    Definitions,   \* the runbook definitions a run may have been started from
    MaxCrashes,    \* bound: process losses in one behaviour
    MaxRetries,    \* bound: operator retries in one behaviour
    MaxCancels     \* bound: runbooks_cancel calls in one process lifetime

Kind == {"shell", "manual", "agent"}

\* An authored step: how each phase is executed ("none": no apply, hence no
\* verify), whether it is required, and its effective failure policy.
StepDefinition ==
    [kind : [Phase -> Kind \cup {"none"}], required : BOOLEAN,
     onFailure : FailurePolicy]

\* discover: context.discover is not empty and some phase is an agent's.
Definition == [step : [Steps -> StepDefinition], discover : BOOLEAN]

ASSUME DefinitionsAssumption ==
    /\ Definitions \subseteq Definition
    /\ {MaxCrashes, MaxRetries, MaxCancels} \subseteq Nat

VARIABLES
    def,    \* the immutable definition snapshot
    db,     \* the durable rows (RunbookDb)
    coord,  \* the coordinator's entry for the run
    eng,    \* the engine task
    io,     \* one-shot registries shared with the command handlers
    env,    \* process, terminal and command bookkeeping
    hist    \* history: what really happened to the target

vars == <<def, db, coord, eng, io, env, hist>>

PC ==
    {"off", "register", "launch", "probe", "next", "begin", "dispatch",
     "request", "approval", "declineStep", "declineRun", "approved", "start",
     "terminal", "manualStart", "manualOpen", "manual", "manualTarget",
     "driftRun", "driftAttempt", "settle", "settleRun", "assess", "policy",
     "decide", "deciding", "summary", "finishCancel", "finishMark", "wrapUp",
     "finalize", "abort", "abortSteps", "abortFinalize", "exit"}

Engine ==
    [pc : PC,
     mode : {"new", "resume"},
     i : 1 .. NumSteps + 1,                \* the checklist item being worked on
     tail : BOOLEAN,                       \* run_resumed_step / run_remaining_steps
     phase : Phase,
     result : Results \cup {"none"},       \* what the phase was observed with
     ending : Terminal \cup {"none"},      \* the status finish() was asked for
     open : BOOLEAN,                       \* an attempt awaits finish_attempt
     list : [Steps -> StepStatus],         \* the in-memory checklist
     chg : [Steps -> BOOLEAN]]             \* and its changed flags

\* A registry holds nothing, a waiter, or the reply its waiter will receive.
Registries ==
    [approval : {"none", "waiting", "approve", "decline"},
     manual : {"none", "waiting"} \cup Results,
     decision : {"none", "waiting"} \cup PauseDecision,
     pty : {"none", "leased", "claimed"} \cup Results,
     late : BOOLEAN,           \* the dispatch lease is past expires_at
     registered : BOOLEAN,     \* the run has a cancellation sender
     cancelled : BOOLEAN,      \* the engine's cancellation receiver reads true
     preCancelled : BOOLEAN]

Environment ==
    [up : BOOLEAN, terminal : BOOLEAN,
     cancel : {"idle", "read", "readInterrupted", "signalled"},
     crashes : 0 .. MaxCrashes, retries : 0 .. MaxRetries,
     cancels : 0 .. MaxCancels]

Verdict == {"none", "noncompliant", "compliant", "verified"}

\* verdict: the last conclusive observation of a step since its last mutation
\* (a "noncompliant" one does not outlive the process that saw it); typed: the
\* commands handed to the terminal since an approval was last asked for.
History ==
    [verdict : [Steps -> Verdict], mutated : [Steps -> BOOLEAN], typed : Nat,
     stopped : BOOLEAN]

NoIO ==
    [approval |-> "none", manual |-> "none", decision |-> "none", pty |-> "none",
     late |-> FALSE, registered |-> FALSE, cancelled |-> FALSE,
     preCancelled |-> FALSE]

Spawned(mode) ==
    [pc |-> "register", mode |-> mode, i |-> 1, tail |-> FALSE, phase |-> "check",
     result |-> "none", ending |-> "none", open |-> FALSE,
     list |-> [s \in Steps |-> "pending"], chg |-> [s \in Steps |-> FALSE]]

NoEngine == [Spawned("new") EXCEPT !.pc = "off"]

Init ==
    /\ def \in Definitions
    /\ db = CreatedRun
    /\ coord = NoRun
    /\ eng = Spawned("new")
    /\ io = NoIO
    /\ env = [up |-> TRUE, terminal |-> TRUE, cancel |-> "idle",
              crashes |-> 0, retries |-> 0, cancels |-> 0]
    /\ hist = [verdict |-> [s \in Steps |-> "none"],
               mutated |-> [s \in Steps |-> FALSE], typed |-> 0,
               stopped |-> FALSE]

Kinds(s) == def.step[s].kind
Policy(s) == def.step[s].onFailure
Required == {s \in Steps : def.step[s].required}
Goto(pc) == eng' = [eng EXCEPT !.pc = pc]

\* What happens to the target, outside the program.
Mutated(s) == [hist EXCEPT !.mutated[s] = TRUE, !.verdict[s] = "none"]

Typed(s, phase) ==
    LET h == IF phase = "apply" THEN Mutated(s) ELSE hist
    IN  [h EXCEPT !.typed = @ + 1]

Observe(s, result) ==
    IF result \in Verdict THEN [hist EXCEPT !.verdict[s] = result] ELSE hist
-----------------------------------------------------------------------------
(* Starting: execute_runbook_mode, prepare_durable_run, run_discovery *)

\* Wrong on purpose: the changed flags are not restored.
Restored_Unchanged == [eng EXCEPT !.pc = "launch", !.list = db.step]

\* restore_checklist: the steps' rows, with their changed flags.
Restored == [eng EXCEPT !.pc = "launch", !.list = db.step, !.chg = db.changed]

\* Register for cancellation (a pre-cancelled run starts cancelled), restore
\* the checklist of a resumed run, enter the coordinator, and move a new run's
\* row to "ready".
Register ==
    /\ eng.pc = "register"
    /\ io' = [io EXCEPT !.registered = TRUE, !.cancelled = io.preCancelled,
                        !.preCancelled = FALSE]
    /\ \/ /\ eng.mode = "new"
          /\ CanTransitionRun(db, "created", "ready")
          /\ db' = TransitionRun(db, "ready")
          /\ coord' = RegisterRun
          /\ Goto("launch")
       \/ /\ eng.mode = "resume"
          /\ CanRegisterRestored(db.step)
          /\ coord' = RegisterRestoredRun(db.step)
          /\ eng' = Restored
          /\ UNCHANGED db
    /\ UNCHANGED <<def, env, hist>>

Launch ==
    /\ eng.pc = "launch"
    /\ CanTransitionRun(db, "ready", "running")
    /\ db' = TransitionRun(db, "running")
    /\ coord' = CoordTransitionRun(coord, "running")
    /\ Goto(IF def.discover THEN "probe" ELSE "next")
    /\ UNCHANGED <<def, io, env, hist>>

\* A discovery probe is an ordinary approval-gated command of the first step's
\* check phase, dispatched before any phase has begun.  A closed terminal is an
\* illegal pending -> unknown transition, which aborts.
Probe ==
    /\ eng.pc = "probe"
    /\ \/ io.cancelled /\ Goto("finishCancel") /\ UNCHANGED <<db, coord>>
       \/ /\ ~io.cancelled /\ ~env.terminal
          /\ coord' = CoordTargetDrift(coord)
          /\ Goto("abort")
          /\ UNCHANGED db
       \/ /\ ~io.cancelled /\ env.terminal
          /\ CanCreateAttempt(db)
          /\ db' = CreateAttemptIntent(db, 1, "check", "shell")
          /\ eng' = [eng EXCEPT !.pc = "request", !.open = TRUE]
          /\ UNCHANGED coord
    /\ UNCHANGED <<def, io, env, hist>>
-----------------------------------------------------------------------------
(* Walking the checklist: execute_mode, run_remaining_steps *)

\* Wrong on purpose: an unknown outcome counts as an outcome.
FixedOutcome_Unknown(s) == eng.list[s] \in StepStatus \ {"pending", "paused"}

\* Outcomes a resumed run does not revisit.
FixedOutcome(s) ==
    \/ eng.list[s] \in Checked \cup {"failed", "skipped", "waived", "blocked"}
    \/ eng.list[s] = "needs_action" /\ Kinds(s)["apply"] = "none"

PassesOver(s) ==
    IF eng.tail THEN eng.list[s] # "pending"
                ELSE eng.mode = "resume" /\ FixedOutcome(s)

Uncertain(s) ==
    ~eng.tail /\ eng.mode = "resume" /\ eng.list[s] \in {"unknown", "paused"}

StatusFromChecklist ==
    IF \E s \in Steps : def.step[s].required /\ eng.list[s] \notin Checked
    THEN "completed_with_exceptions" ELSE "succeeded"

ChecklistDone ==
    /\ eng.pc = "next" /\ eng.i > NumSteps
    /\ eng' = [eng EXCEPT !.pc = "wrapUp", !.ending = StatusFromChecklist]
    /\ UNCHANGED <<def, db, coord, io, env, hist>>

\* Wrong on purpose: a resumed step continues with the phase it was due.
NextStep_Continues ==
    /\ eng.pc = "next" /\ eng.i \in Steps
    /\ IF PassesOver(eng.i)
       THEN eng' = [eng EXCEPT !.i = @ + 1]
       ELSE eng' = [eng EXCEPT !.pc = "begin",
                       !.phase = IF eng.list[eng.i] = "needs_action" THEN "apply"
                                                                     ELSE "check"]
    /\ UNCHANGED <<def, db, coord, io, env, hist>>

NextStep ==
    /\ eng.pc = "next" /\ eng.i \in Steps
    /\ \/ /\ io.cancelled /\ ~eng.tail
          /\ Goto("finishCancel")
          /\ UNCHANGED coord
       \/ /\ ~io.cancelled \/ eng.tail
          /\ PassesOver(eng.i)
          /\ eng' = [eng EXCEPT !.i = @ + 1]
          /\ UNCHANGED coord
       \/ /\ ~io.cancelled \/ eng.tail
          /\ ~PassesOver(eng.i) /\ ~Uncertain(eng.i)
          /\ eng' = [eng EXCEPT !.pc = "begin", !.phase = "check"]
          /\ UNCHANGED coord
       \* Only the coordinator hears that a resumed step awaits a decision.
       \/ /\ ~io.cancelled
          /\ ~PassesOver(eng.i) /\ Uncertain(eng.i)
          /\ CanRequireOperator(coord)
          /\ coord' = CoordRequireOperator(coord)
          /\ eng' = [eng EXCEPT !.pc = "decide", !.tail = TRUE]
    /\ UNCHANGED <<def, db, io, env, hist>>

BeginPhase ==
    LET s == eng.i
        next == StatusOfPhase(eng.phase)
    IN  /\ eng.pc = "begin"
        /\ CanBeginPhase(coord, s, eng.phase)
        /\ coord' = CoordBeginPhase(coord, s, eng.phase)
        /\ IF eng.list[s] = next
           THEN db' = SetRunCursor(db, s, eng.phase)
           ELSE /\ CanTransitionStep(db, s, eng.list[s], next, eng.chg[s])
                /\ db' = TransitionStep(db, s, next, eng.chg[s])
        /\ eng' = [eng EXCEPT !.pc = "dispatch", !.list[s] = next]
        /\ UNCHANGED <<def, io, env, hist>>

\* run_phase after begin_phase.  An agent phase without a model provider fails
\* on the spot; shell and manual phases check the target and record an intent.
Dispatch ==
    LET s == eng.i
        kind == Kinds(s)[eng.phase]
    IN  /\ eng.pc = "dispatch"
        /\ \/ io.cancelled /\ Goto("finishCancel") /\ UNCHANGED db
           \/ /\ ~io.cancelled /\ kind = "agent"
              /\ eng' = [eng EXCEPT !.pc = "settle", !.result = "failed"]
              /\ UNCHANGED db
           \/ /\ ~io.cancelled /\ kind \in {"shell", "manual"} /\ env.terminal
              /\ CanCreateAttempt(db)
              /\ db' = CreateAttemptIntent(db, s, eng.phase, kind)
              /\ eng' = [eng EXCEPT !.open = TRUE,
                            !.pc = IF kind = "shell" THEN "request" ELSE "manualStart"]
        /\ UNCHANGED <<def, coord, io, env, hist>>

\* ensure_target found the terminal closed: before an intent is recorded, after
\* an approval, or after a manual attestation.  The step becomes unknown with
\* the checklist's own idea of `changed`; the run row follows in a second
\* transaction, an open attempt in a third.
TargetDrift ==
    LET s == eng.i
    IN  /\ ~env.terminal
        /\ \/ eng.pc = "dispatch" /\ ~io.cancelled /\ Kinds(s)[eng.phase] # "agent"
           \/ eng.pc = "approved"
           \/ eng.pc = "manualTarget" /\ eng.result # "unknown"
        /\ coord' = CoordTargetDrift(coord)
        /\ CanTransitionStep(db, s, eng.list[s], "unknown", eng.chg[s])
        /\ db' = TransitionStep(db, s, "unknown", eng.chg[s])
        /\ eng' = [eng EXCEPT !.pc = "driftRun", !.list[s] = "unknown"]
        /\ UNCHANGED <<def, io, env, hist>>

DriftRun ==
    /\ eng.pc = "driftRun"
    /\ CanTransitionRun(db, "running", "paused")
    /\ db' = TransitionRun(db, "paused")
    /\ Goto(IF eng.open THEN "driftAttempt" ELSE "decide")
    /\ UNCHANGED <<def, coord, io, env, hist>>

DriftAttempt ==
    /\ eng.pc = "driftAttempt"
    /\ CanFinishAttempt(db)
    /\ db' = FinishAttempt(db, "unknown")
    /\ eng' = [eng EXCEPT !.pc = "decide", !.open = FALSE]
    /\ UNCHANGED <<def, coord, io, env, hist>>
-----------------------------------------------------------------------------
(* A shell command: execute_command and await_approval *)

\* The waiter is registered and the request committed before the coordinator
\* is asked; a coordinator that refuses aborts the run with the gate pending.
RequestApproval ==
    /\ eng.pc = "request"
    /\ CanRequestApproval(db)
    /\ db' = RequestApprovalAwaiting(db)
    /\ io' = [io EXCEPT !.approval = "waiting"]
    /\ IF CoordCanRequestApproval(coord, eng.i, eng.phase)
       THEN coord' = CoordRequestApproval(coord) /\ Goto("approval")
       ELSE Goto("abort") /\ UNCHANGED coord
    /\ hist' = [hist EXCEPT !.typed = 0]
    /\ UNCHANGED <<def, env>>

ApprovalCancelled ==
    /\ eng.pc = "approval" /\ io.cancelled
    /\ db' = CancelPendingApprovals(db)
    /\ io' = [io EXCEPT !.approval = "none"]
    /\ eng' = [eng EXCEPT !.pc = "finishCancel", !.open = FALSE]
    /\ UNCHANGED <<def, coord, env, hist>>

Approved ==
    /\ eng.pc = "approval" /\ ~io.cancelled
    /\ io.approval = "approve"
    /\ CanResolveApproval(coord) /\ CanDecideApproval(db)
    /\ coord' = CoordApprove(coord)
    /\ db' = ApproveAndResume(db)
    /\ io' = [io EXCEPT !.approval = "none"]
    /\ Goto("approved")
    /\ UNCHANGED <<def, env, hist>>

\* Wrong on purpose: the request waits for its answer without a timeout.
Declined_NoTimeout ==
    /\ eng.pc = "approval" /\ ~io.cancelled /\ io.approval = "decline"
    /\ CanResolveApproval(coord) /\ CanDecideApproval(db)
    /\ coord' = CoordDecline(coord, eng.i)
    /\ db' = DeclineApproval(db)
    /\ io' = [io EXCEPT !.approval = "none"]
    /\ eng' = [eng EXCEPT !.pc = "declineStep", !.open = FALSE]
    /\ UNCHANGED <<def, env, hist>>

\* A refusal, or no answer within the response timeout: the approval row, the
\* step row and the run row follow in three transactions under one lock.
Declined ==
    /\ eng.pc = "approval" /\ ~io.cancelled
    /\ io.approval \in {"decline", "waiting"}
    /\ CanResolveApproval(coord) /\ CanDecideApproval(db)
    /\ coord' = CoordDecline(coord, eng.i)
    /\ db' = DeclineApproval(db)
    /\ io' = [io EXCEPT !.approval = "none"]
    /\ eng' = [eng EXCEPT !.pc = "declineStep", !.open = FALSE]
    /\ UNCHANGED <<def, env, hist>>

DeclineStep ==
    LET s == eng.i
    IN  /\ eng.pc = "declineStep"
        /\ CanTransitionStep(db, s, eng.list[s], "paused", eng.chg[s])
        /\ db' = TransitionStep(db, s, "paused", eng.chg[s])
        /\ eng' = [eng EXCEPT !.pc = "declineRun", !.list[s] = "paused"]
        /\ UNCHANGED <<def, coord, io, env, hist>>

DeclineRun ==
    /\ eng.pc = "declineRun"
    /\ CanTransitionRun(db, "waiting_approval", "paused")
    /\ db' = TransitionRun(db, "paused")
    /\ Goto("decide")
    /\ UNCHANGED <<def, coord, io, env, hist>>

\* The target, then the cancellation watch, are checked again on the way from
\* the approval to the dispatch.
Recheck ==
    /\ eng.pc = "approved" /\ env.terminal
    /\ IF io.cancelled
       THEN /\ CanFinishAttempt(db)
            /\ db' = FinishAttempt(db, "cancelled")
            /\ eng' = [eng EXCEPT !.pc = "finishCancel", !.open = FALSE]
       ELSE Goto("start") /\ UNCHANGED db
    /\ UNCHANGED <<def, coord, io, env, hist>>

\* The attempt is running, an apply is recorded as a change, and only then is
\* the one-time lease registered and RunInTerminal emitted.
StartCommand ==
    LET s == eng.i
    IN  /\ eng.pc = "start"
        /\ CanStartAttempt(db)
        /\ db' = StartAttempt(db)
        /\ io' = [io EXCEPT !.pty = "leased", !.late = FALSE]
        /\ eng' = [eng EXCEPT !.pc = "terminal",
                              !.chg[s] = @ \/ eng.phase = "apply"]
        /\ UNCHANGED <<def, coord, env, hist>>

\* No result (cancellation, timeout) drains the lease before the attempt is
\* settled as unknown.
CommandCancelled ==
    /\ eng.pc = "terminal" /\ io.cancelled
    /\ CanFinishAttempt(db)
    /\ db' = FinishAttempt(db, "unknown")
    /\ io' = [io EXCEPT !.pty = "none", !.late = FALSE]
    /\ eng' = [eng EXCEPT !.pc = "finishCancel", !.open = FALSE]
    /\ UNCHANGED <<def, coord, env, hist>>

\* Wrong on purpose: no answer in time is taken for whatever was hoped for.
CommandObserved_Hopeful ==
    /\ eng.pc = "terminal" /\ ~io.cancelled
    /\ \E result \in PhaseResult(eng.phase) :
          /\ io.pty = result \/ io.late
          /\ CanFinishAttempt(db)
          /\ db' = FinishAttempt(db, AttemptAfter(result))
          /\ eng' = [eng EXCEPT !.pc = "settle", !.open = FALSE, !.result = result]
    /\ io' = [io EXCEPT !.pty = "none", !.late = FALSE]
    /\ UNCHANGED <<def, coord, env, hist>>

CommandObserved ==
    /\ eng.pc = "terminal" /\ ~io.cancelled
    /\ \E result \in PhaseResult(eng.phase) :
          /\ \/ io.pty = result
             \/ result = "unknown" /\ io.late
          /\ CanFinishAttempt(db)
          /\ db' = FinishAttempt(db, AttemptAfter(result))
          /\ eng' = [eng EXCEPT !.pc = "settle", !.open = FALSE, !.result = result]
    /\ io' = [io EXCEPT !.pty = "none", !.late = FALSE]
    /\ UNCHANGED <<def, coord, env, hist>>
-----------------------------------------------------------------------------
(* A manual action: execute_manual *)

\* The human may act from here on, so an apply counts as a change; the
\* checklist's own flag is not raised (there is no executed command).
StartManual ==
    /\ eng.pc = "manualStart"
    /\ CanStartAttempt(db) /\ CanRequireOperator(coord)
    /\ db' = StartAttempt(db)
    /\ coord' = CoordRequireOperator(coord)
    /\ io' = [io EXCEPT !.manual = "waiting"]
    /\ Goto("manualOpen")
    /\ UNCHANGED <<def, env, hist>>

OpenManual ==
    /\ eng.pc = "manualOpen"
    /\ CanTransitionRun(db, "running", "waiting_operator")
    /\ db' = TransitionRun(db, "waiting_operator")
    /\ Goto("manual")
    /\ hist' = IF eng.phase = "apply" THEN Mutated(eng.i) ELSE hist
    /\ UNCHANGED <<def, coord, io, env>>

ManualCancelled ==
    /\ eng.pc = "manual" /\ io.cancelled
    /\ CanFinishAttempt(db)
    /\ db' = FinishAttempt(db, "unknown")
    /\ io' = [io EXCEPT !.manual = "none"]
    /\ eng' = [eng EXCEPT !.pc = "finishCancel", !.open = FALSE]
    /\ UNCHANGED <<def, coord, env, hist>>

\* An attestation, or the response timeout ("unknown"), resumes the run.
ManualAnswered ==
    /\ eng.pc = "manual" /\ ~io.cancelled
    /\ CanTransitionRun(db, "waiting_operator", "running")
    /\ coord' = CoordOperatorAnswered(coord)
    /\ db' = TransitionRun(db, "running")
    /\ eng' = [eng EXCEPT !.pc = "manualTarget",
                          !.result = IF io.manual = "waiting" THEN "unknown" ELSE io.manual]
    /\ io' = [io EXCEPT !.manual = "none"]
    /\ UNCHANGED <<def, env, hist>>

ManualObserved ==
    /\ eng.pc = "manualTarget"
    /\ eng.result = "unknown" \/ env.terminal
    /\ CanFinishAttempt(db)
    /\ db' = FinishAttempt(db, AttemptAfter(eng.result))
    /\ eng' = [eng EXCEPT !.pc = "settle", !.open = FALSE]
    /\ UNCHANGED <<def, coord, io, env, hist>>
-----------------------------------------------------------------------------
(* Settling a phase: complete_phase, run_step, run_verify, handle_failure *)

\* The step row moves first; the run row or the cursor follows (SettleRun).
CompletePhase ==
    LET s == eng.i
        next == StatusAfter(eng.result)
        chg == eng.chg[s] \/ eng.phase = "apply"
        apply == Kinds(s)["apply"] # "none"
    IN  /\ eng.pc = "settle"
        /\ CanCompletePhase(coord, s, eng.phase, eng.result)
        /\ coord' = CoordCompletePhase(coord, s, eng.result)
        /\ CanTransitionStep(db, s, eng.list[s], next, chg)
        /\ db' = TransitionStep(db, s, next, chg)
        /\ eng' = [eng EXCEPT
              !.list[s] = next, !.chg[s] = chg,
              !.pc = CASE eng.result = "applied" -> "begin"
                       [] eng.result = "noncompliant" -> IF apply THEN "begin" ELSE "assess"
                       [] OTHER -> "settleRun",
              !.phase = CASE eng.result = "applied" -> "verify"
                          [] eng.result = "noncompliant" /\ apply -> "apply"
                          [] OTHER -> @]
        /\ UNCHANGED <<def, io, env, hist>>

\* A compliant check of a step this run has already changed still has to be
\* verified; a failed phase goes to the step's policy, an unknown one always to
\* the operator.
SettleRun ==
    LET s == eng.i
    IN  /\ eng.pc = "settleRun"
        /\ \/ /\ eng.result \in {"compliant", "verified"}
              /\ db' = SetRunCursor(db, 0, "none")
              /\ IF eng.result = "compliant" /\ eng.chg[s]
                 THEN eng' = [eng EXCEPT !.pc = "begin", !.phase = "verify"]
                 ELSE Goto("summary")
           \/ /\ eng.result \in {"failed", "unknown"}
              /\ CanTransitionRun(db, "running", "waiting_operator")
              /\ db' = TransitionRun(db, "waiting_operator")
              /\ Goto(IF eng.result = "failed" /\ Policy(s) # "pause"
                      THEN "policy" ELSE "decide")
        /\ UNCHANGED <<def, coord, io, env, hist>>

\* An assessment-only step keeps needs_action.
Assess ==
    /\ eng.pc = "assess"
    /\ coord' = CoordContinueAssessment(coord)
    /\ db' = SetRunCursor(db, 0, "none")
    /\ Goto("summary")
    /\ UNCHANGED <<def, io, env, hist>>

\* The row of a stopped step is settled like any other exception: the run row
\* is "running" again until finalize_run.
SettleStopped(s) ==
    /\ CanResolveStep(coord, s) /\ CanSettleStep(db, s)
    /\ coord' = CoordStop(coord, s)
    /\ db' = SettleStep(db, s, "failed")
    /\ eng' = [eng EXCEPT !.pc = "summary", !.ending = "failed", !.list[s] = "failed"]
    /\ hist' = [hist EXCEPT !.stopped = TRUE]

SettleAs(s, next) ==
    /\ CanResolveStep(coord, s) /\ CanSettleStep(db, s)
    /\ coord' = CoordSettleStep(coord, s, next)
    /\ db' = SettleStep(db, s, next)
    /\ eng' = [eng EXCEPT !.pc = "summary", !.list[s] = next]
    /\ UNCHANGED hist

FailurePolicyApplies ==
    /\ eng.pc = "policy"
    /\ \/ Policy(eng.i) = "continue" /\ SettleAs(eng.i, "failed")
       \/ Policy(eng.i) = "stop" /\ SettleStopped(eng.i)
    /\ UNCHANGED <<def, io, env>>

AwaitDecision ==
    /\ eng.pc = "decide"
    /\ io' = [io EXCEPT !.decision = "waiting"]
    /\ Goto("deciding")
    /\ UNCHANGED <<def, db, coord, env, hist>>

\* Wrong on purpose: a retry repeats the phase that was interrupted.
Decided_RetriesPhase ==
    LET s == eng.i
    IN  /\ eng.pc = "deciding" /\ io.decision = "retry"
        /\ CanResolveStep(coord, s) /\ CanSettleStep(db, s)
        /\ coord' = CoordSettleStep(coord, s, "needs_action")
        /\ db' = SettleStep(db, s, "needs_action")
        /\ eng' = [eng EXCEPT !.pc = "begin", !.list[s] = "needs_action"]
        /\ io' = [io EXCEPT !.decision = "none"]
        /\ UNCHANGED <<def, env, hist>>

\* Retry goes back to a fresh check, never to apply.
Decided ==
    LET s == eng.i
    IN  /\ eng.pc = "deciding"
        /\ io.decision \in PauseDecision
        /\ \/ /\ io.decision = "retry"
              /\ CanResolveStep(coord, s) /\ CanSettleStep(db, s)
              /\ coord' = CoordSettleStep(coord, s, "pending")
              /\ db' = ResetStepForRetry(db, s)
              /\ eng' = [eng EXCEPT !.pc = "begin", !.phase = "check",
                                    !.list[s] = "pending"]
              /\ UNCHANGED hist
           \/ io.decision = "skip" /\ SettleAs(s, "skipped")
           \/ io.decision = "waive" /\ SettleAs(s, "waived")
           \/ io.decision = "stop" /\ SettleStopped(s)
        /\ io' = [io EXCEPT !.decision = "none"]
        /\ UNCHANGED <<def, env>>

DecisionCancelled ==
    /\ eng.pc = "deciding" /\ io.cancelled
    /\ io' = [io EXCEPT !.decision = "none"]
    /\ Goto("finishCancel")
    /\ UNCHANGED <<def, db, coord, env, hist>>

\* finalize_step_summary may wait for a model before it writes the details.
Summarize ==
    /\ eng.pc = "summary"
    /\ db' = UpdateStepDetails(db, eng.i, eng.chg[eng.i])
    /\ eng' = IF eng.ending = "none"
              THEN [eng EXCEPT !.pc = "next", !.i = @ + 1, !.result = "none"]
              ELSE [eng EXCEPT !.pc = "wrapUp"]
    /\ UNCHANGED <<def, coord, io, env, hist>>
-----------------------------------------------------------------------------
(* Ending: finish, finalize_status_and_report, abort_with_report *)

FinishCancelled ==
    /\ eng.pc = "finishCancel"
    /\ db' = CancelPendingApprovals(db)
    /\ io' = [io EXCEPT !.approval = "none"]
    /\ eng' = [eng EXCEPT !.pc = "finishMark", !.ending = "cancelled"]
    /\ UNCHANGED <<def, coord, env, hist>>

\* The phase cancellation interrupted has no conclusion, and what the database
\* knows of its changes is kept.
MarkUnknown ==
    LET open == {s \in Steps : eng.list[s] \in InPhase}
    IN  /\ eng.pc = "finishMark"
        /\ IF open = {}
           THEN Goto("wrapUp") /\ UNCHANGED db
           ELSE \E s \in open :
                  LET chg == eng.chg[s] \/ db.changed[s]
                  IN  /\ \A t \in open : s <= t
                      /\ CanTransitionStep(db, s, eng.list[s], "unknown", chg)
                      /\ db' = TransitionStep(db, s, "unknown", chg)
                      /\ eng' = [eng EXCEPT !.pc = "wrapUp", !.list[s] = "unknown",
                                            !.chg[s] = chg]
        /\ UNCHANGED <<def, coord, io, env, hist>>

\* finish() writes the details of every step that has left "pending".
WrapUp ==
    /\ eng.pc = "wrapUp"
    /\ db' = [db EXCEPT !.changed =
                 [s \in Steps |-> IF eng.list[s] = "pending" THEN db.changed[s]
                                                             ELSE eng.chg[s]]]
    /\ Goto("finalize")
    /\ UNCHANGED <<def, coord, io, env, hist>>

Finalize ==
    /\ eng.pc = "finalize"
    /\ coord.run \notin Terminal \/ coord.run = eng.ending
    /\ CanFinalizeRun(db, eng.ending, Required)
    /\ db' = FinalizeRun(db, eng.ending)
    /\ coord' = IF coord.run \in Terminal THEN coord
                ELSE CoordTransitionRun(coord, eng.ending)
    /\ Goto("exit")
    /\ UNCHANGED <<def, io, env, hist>>

\* A durable write refused because a runbooks_cancel that had read
\* "interrupted" settled the run's approvals and attempts under an engine that
\* was resumed in the meantime, or because the report would not be a valid one.
Refused ==
    \/ eng.pc = "finalize" /\ ~CanFinalizeRun(db, eng.ending, Required)
    \/ eng.pc = "request" /\ ~CanRequestApproval(db)
    \/ eng.pc = "approval" /\ ~CanDecideApproval(db)
    \/ eng.pc \in {"start", "manualStart"} /\ ~CanStartAttempt(db)
    \/ eng.open /\ ~CanFinishAttempt(db)
       /\ eng.pc \in {"approved", "terminal", "manual", "manualTarget", "driftAttempt"}

EngineError ==
    /\ Refused
    /\ Goto("abort")
    /\ UNCHANGED <<def, db, coord, io, env, hist>>

Abort ==
    /\ eng.pc = "abort"
    /\ db' = CancelPendingApprovals(db)
    /\ Goto("abortSteps")
    /\ UNCHANGED <<def, coord, io, env, hist>>

AbortSteps ==
    LET open == {s \in Steps : db.step[s] \in InPhase}
    IN  /\ eng.pc = "abortSteps"
        /\ IF open = {}
           THEN Goto("abortFinalize") /\ UNCHANGED db
           ELSE /\ \E s \in open : db' = TransitionStep(db, s, "unknown", db.changed[s])
                /\ UNCHANGED eng
        /\ UNCHANGED <<def, coord, io, env, hist>>

AbortFinalize ==
    /\ eng.pc = "abortFinalize"
    /\ CanFinalizeRun(db, "failed", Required)
    /\ db' = FinalizeRun(db, "failed")
    /\ coord' = NoRun
    /\ Goto("exit")
    /\ UNCHANGED <<def, io, env, hist>>

\* Nor can the abort store a report: its error is logged, and the engine leaves
\* the row and the coordinator's entry as they are.
AbortRefused ==
    /\ eng.pc = "abortFinalize"
    /\ ~CanFinalizeRun(db, "failed", Required)
    /\ Goto("exit")
    /\ UNCHANGED <<def, db, coord, io, env, hist>>

Exit ==
    /\ eng.pc = "exit"
    /\ io' = NoIO
    /\ eng' = NoEngine
    /\ UNCHANGED <<def, db, coord, env, hist>>

\* Everything the engine task does by itself: its transactions, and the
\* timeouts its own timers guarantee.
EngineStep ==
    \/ Register \/ Launch \/ Probe \/ ChecklistDone \/ NextStep \/ BeginPhase
    \/ Dispatch \/ TargetDrift \/ DriftRun \/ DriftAttempt
    \/ RequestApproval \/ ApprovalCancelled \/ Approved \/ Declined
    \/ DeclineStep \/ DeclineRun \/ Recheck \/ StartCommand
    \/ CommandCancelled \/ CommandObserved
    \/ StartManual \/ OpenManual \/ ManualCancelled \/ ManualAnswered
    \/ ManualObserved \/ CompletePhase \/ SettleRun \/ Assess
    \/ FailurePolicyApplies \/ AwaitDecision \/ Decided \/ DecisionCancelled
    \/ Summarize \/ FinishCancelled \/ MarkUnknown \/ WrapUp \/ Finalize
    \/ EngineError \/ Abort \/ AbortSteps \/ AbortFinalize \/ AbortRefused \/ Exit
-----------------------------------------------------------------------------
(* The operator's commands (commands/runbooks.rs) *)

RespondApproval ==
    /\ env.up
    /\ db.approval = "pending" /\ io.approval = "waiting"
    /\ \E reply \in {"approve", "decline"} : io' = [io EXCEPT !.approval = reply]
    /\ UNCHANGED <<def, db, coord, eng, env, hist>>

\* An operator decision is accepted from the durable run status.
DecisionAccepted == db.run \in {"paused", "waiting_operator"}

Decide ==
    /\ env.up
    /\ DecisionAccepted /\ io.decision = "waiting"
    /\ \E decision \in PauseDecision :
          /\ decision = "retry" => env.retries < MaxRetries
          /\ io' = [io EXCEPT !.decision = decision]
          /\ env' = [env EXCEPT !.retries = IF decision = "retry" THEN @ + 1 ELSE @]
    /\ UNCHANGED <<def, db, coord, eng, hist>>

\* An attestation for the active step and phase, with its outcome mapped to the
\* phase it answers.
SubmitManual ==
    /\ env.up
    /\ io.manual = "waiting" /\ db.active = eng.i /\ db.phase # "none"
    /\ \E result \in PhaseResult(db.phase) \ {"unknown"} :
          /\ io' = [io EXCEPT !.manual = result]
          /\ hist' = Observe(eng.i, result)
    /\ UNCHANGED <<def, db, coord, eng, env>>

\* runbooks_cancel reads the run's status under the database lock ...
CancelRead ==
    /\ env.up /\ env.cancel = "idle" /\ env.cancels < MaxCancels
    /\ db.run \notin Terminal
    /\ env' = [env EXCEPT !.cancels = @ + 1,
                  !.cancel = IF db.run = "interrupted" THEN "readInterrupted" ELSE "read"]
    /\ UNCHANGED <<def, db, coord, eng, io, hist>>

\* Wrong on purpose: a run that has not registered yet does not hear of it.
CancelSignal_Forgotten ==
    /\ env.cancel \in {"read", "readInterrupted"}
    /\ io' = [io EXCEPT !.cancelled = @ \/ io.registered, !.registered = FALSE,
                        !.pty = IF @ \in {"leased", "claimed"} THEN "none" ELSE @]
    /\ env' = [env EXCEPT !.cancel = IF @ = "read" THEN "idle" ELSE "signalled"]
    /\ UNCHANGED <<def, db, coord, eng, hist>>

\* ... then trips the cancellation watch (or leaves a mark for a run that has
\* not registered one) and drops the dispatch lease ...
CancelSignal ==
    /\ env.cancel \in {"read", "readInterrupted"}
    /\ io' = [io EXCEPT
          !.cancelled = @ \/ io.registered,
          !.registered = FALSE,
          !.preCancelled = @ \/ ~io.registered,
          !.pty = IF @ \in {"leased", "claimed"} THEN "none" ELSE @,
          !.late = FALSE]
    /\ env' = [env EXCEPT !.cancel = IF @ = "read" THEN "idle" ELSE "signalled"]
    /\ UNCHANGED <<def, db, coord, eng, hist>>

\* ... and finalizes a run that was interrupted when it was read.  A run resumed
\* since keeps its status, and so does one that no report can be made of, but
\* the pending approvals and attempts are settled.
CancelInterrupted ==
    /\ env.cancel = "signalled"
    /\ LET settled == CancelPendingApprovals(db)
       IN  IF db.run = "interrupted" /\ CanFinalizeRun(settled, "cancelled", Required)
           THEN db' = FinalizeRun(settled, "cancelled") /\ io' = NoIO
           ELSE db' = settled /\ UNCHANGED io
    /\ env' = [env EXCEPT !.cancel = "idle"]
    /\ UNCHANGED <<def, coord, eng, hist>>

\* runbooks_resume rebinds an interrupted run to an open terminal and spawns a
\* new engine task for it.
Resume ==
    /\ env.up
    /\ eng.pc = "off" /\ CanRebind(db)
    /\ db' = RebindInterruptedRun(db)
    /\ eng' = Spawned("resume")
    /\ env' = [env EXCEPT !.terminal = TRUE]
    /\ UNCHANGED <<def, coord, io, hist>>
-----------------------------------------------------------------------------
(* The webview and the terminal *)

\* Wrong on purpose: the claim looks at the lease and leaves it in place.
Claim_KeepsLease ==
    /\ env.up /\ env.terminal
    /\ db.attempt.status = "running"
    /\ io.pty = "leased" /\ ~io.late
    /\ hist' = Typed(db.attempt.step, db.attempt.phase)
    /\ UNCHANGED <<def, db, coord, eng, io, env>>

\* runbooks_claim_terminal_dispatch: one handler may take the lease of a running
\* attempt before it expires; it types the command.
Claim ==
    /\ env.up /\ env.terminal
    /\ db.attempt.status = "running"
    /\ io.pty = "leased" /\ ~io.late
    /\ io' = [io EXCEPT !.pty = "claimed"]
    /\ hist' = Typed(db.attempt.step, db.attempt.phase)
    /\ UNCHANGED <<def, db, coord, eng, env>>

\* runbooks_submit_terminal_result, for a claimed lease of a running attempt.
SubmitResult ==
    /\ env.up
    /\ db.attempt.status = "running" /\ io.pty = "claimed"
    /\ \E result \in PhaseResult(db.attempt.phase) :
          /\ env.terminal \/ result = "unknown"
          /\ io' = [io EXCEPT !.pty = result]
          /\ hist' = Observe(db.attempt.step, result)
    /\ UNCHANGED <<def, db, coord, eng, env>>

\* The lease's claim timeout passes; the engine's own timeout is 15 s later.
LeaseExpires ==
    /\ eng.pc = "terminal" /\ ~io.late
    /\ io' = [io EXCEPT !.late = TRUE]
    /\ UNCHANGED <<def, db, coord, eng, env, hist>>

CloseTerminal ==
    /\ env.up /\ env.terminal
    /\ eng.pc # "off"
    /\ env' = [env EXCEPT !.terminal = FALSE]
    /\ UNCHANGED <<def, db, coord, eng, io, hist>>
-----------------------------------------------------------------------------
(* Process loss and restart *)

Crash ==
    /\ env.up /\ env.crashes < MaxCrashes
    /\ db.run \notin Terminal
    /\ env' = [env EXCEPT !.up = FALSE, !.cancel = "idle", !.cancels = 0,
                           !.crashes = @ + 1]
    /\ coord' = NoRun
    /\ eng' = NoEngine
    /\ io' = NoIO
    /\ hist' = [hist EXCEPT !.verdict =
                   [s \in Steps |-> IF hist.verdict[s] = "noncompliant" THEN "none"
                                    ELSE hist.verdict[s]]]
    /\ UNCHANGED <<def, db>>

Restart ==
    /\ ~env.up
    /\ db' = InterruptActiveRuns(db)
    /\ env' = [env EXCEPT !.up = TRUE]
    /\ UNCHANGED <<def, coord, eng, io, hist>>

\* The engine is gone, and no report can be made of the rows it left.
Stranded == eng.pc = "off" /\ ~Reportable(db)

\* The report is stored and the engine is gone, or no report can be: nothing
\* more has to happen.
Finished ==
    /\ (db.run \in Terminal /\ eng.pc = "off") \/ Stranded
    /\ UNCHANGED vars

Next ==
    \/ EngineStep
    \/ RespondApproval \/ Decide \/ SubmitManual
    \/ CancelRead \/ CancelSignal \/ CancelInterrupted \/ Resume
    \/ Claim \/ SubmitResult \/ LeaseExpires \/ CloseTerminal
    \/ Crash \/ Restart \/ Finished

Spec == Init /\ [][Next]_vars

\* The async runtime keeps polling a ready engine task, timers fire, and a
\* command handler that started returns.  Nothing is assumed of the operator,
\* the webview, the terminal or the process.
Fairness ==
    /\ WF_vars(EngineStep)
    /\ WF_vars(LeaseExpires)
    /\ WF_vars(CancelSignal \/ CancelInterrupted)

FairSpec == Spec /\ Fairness
-----------------------------------------------------------------------------
TypeOK ==
    /\ def \in Definitions
    /\ db \in Database
    /\ coord \in Coordinator
    /\ eng \in Engine
    /\ io \in Registries
    /\ env \in Environment
    /\ hist \in History
=============================================================================
