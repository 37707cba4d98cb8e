----------------------------- MODULE RunbookDb -----------------------------
(***************************************************************************)
(* The durable side of one runbook run (runbooks/db.rs): its row in        *)
(* runbook_runs, its rows in runbook_steps, its latest attempt and that    *)
(* attempt's approval, and its report.  Each operator below is one SQLite  *)
(* transaction, given as the row values after it; CanX says when X commits *)
(* (otherwise it rolls back and returns Err).  An attempt runs to its end  *)
(* before the next one is created, so only the latest attempt can be in    *)
(* flight; what earlier ones leave behind is applyStarted.                 *)
(***************************************************************************)
EXTENDS RunbookStates, Naturals

CONSTANT NumSteps      \* the length of the definition's ordered checklist

ASSUME NumStepsAssumption == NumSteps \in Nat \ {0}

Steps == 1 .. NumSteps

Executor == {"shell", "manual"}

NoAttempt == [step |-> 0, phase |-> "none", executor |-> "none", status |-> "none"]

Attempt ==
    {NoAttempt} \cup
    [step : Steps, phase : Phase, executor : Executor, status : AttemptStatus]

NoReport == [status |-> "none"]

\* The canonical report: the terminal status and the checklist it describes.
Report ==
    {NoReport} \cup
    [status : Terminal, step : [Steps -> StepStatus], changed : [Steps -> BOOLEAN]]

Database ==
    [run : RunStatus,
     step : [Steps -> StepStatus],
     changed : [Steps -> BOOLEAN],      \* the run may have mutated the target
     active : Steps \cup {0},           \* active_step_id, 0 for NULL
     phase : Phase \cup {"none"},       \* active_phase
     attempt : Attempt,
     applyStarted : [Steps -> BOOLEAN], \* an apply attempt has a started_at
     approval : ApprovalStatus \cup {"none"},
     report : Report]

\* The rows create_run inserts.
CreatedRun ==
    [run |-> "created",
     step |-> [s \in Steps |-> "pending"],
     changed |-> [s \in Steps |-> FALSE],
     active |-> 0,
     phase |-> "none",
     attempt |-> NoAttempt,
     applyStarted |-> [s \in Steps |-> FALSE],
     approval |-> "none",
     report |-> NoReport]
-----------------------------------------------------------------------------
(* Run and step transitions *)

CanTransitionRun(d, expected, next) ==
    d.run = expected /\ next \in RunMoves[expected]

TransitionRun(d, next) == [d EXCEPT !.run = next]

CanTransitionStep(d, s, expected, next, changed) ==
    /\ d.step[s] = expected
    /\ next \in StepMoves[expected]
    /\ next = "remediated_verified" => changed

\* Wrong on purpose: the cursor stays where it was.
TransitionStep_NoCursor(d, s, next, changed) ==
    [d EXCEPT !.step[s] = next, !.changed[s] = changed]

\* The caller's idea of `changed` overwrites the column, and the cursor
\* follows the step.
TransitionStep(d, s, next, changed) ==
    [d EXCEPT !.step[s] = next, !.changed[s] = changed,
              !.active = s, !.phase = PhaseForStep(next)]

SetRunCursor(d, s, phase) == [d EXCEPT !.active = s, !.phase = phase]

\* Retry, skip, waive, stop and onFailure settle the step the run is paused on
\* and put the run back to "running", even when the engine means to stop it.
CanSettleStep(d, s) ==
    /\ d.step[s] \in Unsettled
    /\ d.active = s
    /\ d.run \in {"paused", "waiting_operator"}

SettleStep(d, s, next) ==
    [d EXCEPT !.step[s] = next, !.run = "running", !.active = 0, !.phase = "none"]

ResetStepForRetry(d, s) == SettleStep(d, s, "pending")

UpdateStepDetails(d, s, changed) == [d EXCEPT !.changed[s] = changed]
-----------------------------------------------------------------------------
(* Attempts and approvals *)

CanCreateAttempt(d) == d.run = "running"

CreateAttemptIntent(d, s, phase, executor) ==
    [d EXCEPT !.attempt = [step |-> s, phase |-> phase, executor |-> executor,
                           status |-> "intent"],
              !.approval = "none"]

CanStartAttempt(d) == d.attempt.status \in {"intent", "waiting_approval"}

\* Wrong on purpose: the change is left to the phase's completion.
StartAttempt_Unrecorded(d) == [d EXCEPT !.attempt.status = "running"]

\* Crossing the dispatch boundary of an apply is recorded before anything can
\* be typed.
StartAttempt(d) ==
    LET s == d.attempt.step
        mutates == d.attempt.phase = "apply"
    IN  [d EXCEPT !.attempt.status = "running",
                  !.changed = [t \in Steps |-> d.changed[t] \/ (mutates /\ t = s)],
                  !.applyStarted =
                      [t \in Steps |-> d.applyStarted[t] \/ (mutates /\ t = s)]]

CanFinishAttempt(d) == d.attempt.status \in InFlight

FinishAttempt(d, status) == [d EXCEPT !.attempt.status = status]

CanRequestApproval(d) == d.attempt.status = "intent" /\ d.run = "running"

RequestApprovalAwaiting(d) ==
    [d EXCEPT !.attempt.status = "waiting_approval", !.approval = "pending",
              !.run = "waiting_approval"]

CanDecideApproval(d) == d.approval = "pending"

\* decide_approval_tx touches the attempt only while it still waits.
ApproveAndResume(d) ==
    [d EXCEPT !.approval = "approved", !.run = "running",
              !.attempt.status = IF @ = "waiting_approval" THEN "intent" ELSE @]

DeclineApproval(d) ==
    [d EXCEPT !.approval = "declined",
              !.attempt.status = IF @ = "waiting_approval" THEN "declined" ELSE @]

\* A started apply may have changed the target: keep that fact.
KeepApplyStarted(d) == [s \in Steps |-> d.changed[s] \/ d.applyStarted[s]]

\* Wrong on purpose: the attempts are settled, the approvals forgotten.
CancelPendingApprovals_KeepsGate(d) ==
    [d EXCEPT !.changed = KeepApplyStarted(d),
              !.attempt.status = IF @ \in InFlight THEN "unknown" ELSE @]

CancelPendingApprovals(d) ==
    [d EXCEPT !.approval = IF @ = "pending" THEN "cancelled" ELSE @,
              !.changed = KeepApplyStarted(d),
              !.attempt.status = CASE @ \in {"intent", "waiting_approval"} -> "cancelled"
                                   [] @ = "running" -> "unknown"
                                   [] OTHER -> @]
-----------------------------------------------------------------------------
(* Process loss, rebind and finalization *)

\* Wrong on purpose: an approval survives the process that asked for it.
InterruptActiveRuns_KeepsGate(d) ==
    IF d.run \in Active \cup {"created", "ready"}
    THEN [d EXCEPT !.run = "interrupted", !.changed = KeepApplyStarted(d),
                   !.step = [s \in Steps |-> IF d.step[s] \in InPhase THEN "unknown"
                                                                 ELSE d.step[s]]]
    ELSE d

\* Startup reconciliation: nothing is re-dispatched, whatever was in flight
\* becomes unknown.
InterruptActiveRuns(d) ==
    IF d.run \in Active \cup {"created", "ready"}
    THEN [d EXCEPT !.run = "interrupted",
                   !.changed = KeepApplyStarted(d),
                   !.step = [s \in Steps |-> IF d.step[s] \in InPhase THEN "unknown"
                                                                 ELSE d.step[s]],
                   !.attempt.status = IF @ \in InFlight THEN "unknown" ELSE @,
                   !.approval = IF @ = "pending" THEN "cancelled" ELSE @]
    ELSE d

CanRebind(d) == d.run = "interrupted"

RebindInterruptedRun(d) == [d EXCEPT !.run = "ready"]

\* ReportChecklistItem::validate: no report can be made of other rows.
Reportable(d) ==
    \A s \in Steps :
        /\ d.step[s] = "remediated_verified" => d.changed[s]
        /\ d.step[s] = "already_compliant" => ~d.changed[s]

\* The report is validated inside the transaction that ends the run, and one
\* that does not pass takes the terminal status back with it.
CanFinalizeRun(d, terminal, required) ==
    /\ terminal \in RunMoves[d.run] /\ d.report = NoReport
    /\ Reportable(d)
    /\ terminal = "succeeded" => \A s \in required : d.step[s] \in Checked

\* Wrong on purpose: the report describes the run before it ended.
FinalizeRun_EarlyReport(d, terminal) ==
    [d EXCEPT !.run = terminal,
              !.report = [status |-> d.run, step |-> d.step, changed |-> d.changed]]

\* One transaction chooses the terminal status and stores the report that
\* describes it.
FinalizeRun(d, terminal) ==
    [d EXCEPT !.run = terminal,
              !.report = [status |-> terminal, step |-> d.step, changed |-> d.changed]]
=============================================================================
