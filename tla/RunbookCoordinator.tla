------------------------ MODULE RunbookCoordinator ------------------------
(***************************************************************************)
(* The in-memory RunCoordinator (runbooks/runtime.rs): the volatile copy of*)
(* one run's state that the engine consults before every dispatch.  Each   *)
(* operator is one method, performed under the coordinator's mutex; CanX is*)
(* the method's error checks.  It is lost with the process and rebuilt from*)
(* the durable rows on resume.                                             *)
(***************************************************************************)
EXTENDS RunbookDb

Coordinator ==
    [run : RunStatus \cup {"absent"},
     step : [Steps -> StepStatus],
     active : Steps \cup {0},             \* active_step_id
     phase : Phase \cup {"none"},         \* active_phase
     pending : BOOLEAN]                   \* pending_approval is set

\* No entry for the run: before registration, after abort_run or a crash.
NoRun ==
    [run |-> "absent", step |-> [s \in Steps |-> "pending"], active |-> 0,
     phase |-> "none", pending |-> FALSE]

RegisterRun == [NoRun EXCEPT !.run = "created"]

\* A restored run starts without an active step, whatever its cursor was.
CanRegisterRestored(steps) == \A s \in Steps : steps[s] \notin InPhase
\* Wrong on purpose: the restored entry starts with a blank checklist.
RegisterRestoredRun_Blank(steps) == [NoRun EXCEPT !.run = "ready"]

RegisterRestoredRun(steps) == [NoRun EXCEPT !.run = "ready", !.step = steps]

CoordTransitionRun(c, next) ==
    [c EXCEPT !.run = next, !.pending = @ /\ next \notin Terminal \cup {"interrupted"}]

CanBeginPhase(c, s, p) ==
    /\ c.run = "running"
    /\ StatusOfPhase(p) \in {c.step[s]} \cup StepMoves[c.step[s]]

CoordBeginPhase(c, s, p) ==
    [c EXCEPT !.step[s] = StatusOfPhase(p), !.active = s, !.phase = p]

CanCompletePhase(c, s, p, result) ==
    /\ c.run = "running"
    /\ c.active = s
    /\ c.phase = p
    /\ StatusAfter(result) \in StepMoves[c.step[s]]

CoordCompletePhase(c, s, result) ==
    LET next == StatusAfter(result)
    IN  [c EXCEPT !.step[s] = next,
                  !.run = IF next \in {"paused", "unknown"} THEN "waiting_operator" ELSE @,
                  !.phase = "none",
                  !.active = IF next \in Checked THEN 0 ELSE @]

CoordCanRequestApproval(c, s, p) ==
    c.run = "running" /\ c.active = s /\ c.phase = p /\ ~c.pending

CoordRequestApproval(c) == [c EXCEPT !.pending = TRUE, !.run = "waiting_approval"]

CanResolveApproval(c) == c.pending /\ c.run = "waiting_approval"

CoordApprove(c) == [c EXCEPT !.pending = FALSE, !.run = "running"]

\* Wrong on purpose: the run pauses, the step does not.
CoordDecline_RunOnly(c, s) == [c EXCEPT !.pending = FALSE, !.run = "paused"]

CoordDecline(c, s) == [c EXCEPT !.pending = FALSE, !.run = "paused", !.step[s] = "paused"]

CanRequireOperator(c) == c.run \in {"running", "paused"}
CoordRequireOperator(c) == [c EXCEPT !.run = "waiting_operator"]

\* resolve_operator_decision(Retry), after a manual action was answered.
CoordOperatorAnswered(c) == [c EXCEPT !.run = "running"]

CanResolveStep(c, s) ==
    /\ c.run \in {"paused", "waiting_operator"}
    /\ c.active = s
    /\ c.step[s] \in Unsettled

\* resolve_step_decision and, with "failed" and the run continuing,
\* continue_failed_step.  Stop ends the run and keeps the active step.
CoordSettleStep(c, s, next) ==
    [c EXCEPT !.step[s] = next, !.run = "running", !.active = 0, !.phase = "none"]

CoordStop(c, s) ==
    [c EXCEPT !.step[s] = "failed", !.run = "failed", !.phase = "none"]

CoordContinueAssessment(c) == [c EXCEPT !.active = 0, !.phase = "none"]

\* Wrong on purpose: the active step is dropped with the phase.
CoordTargetDrift_DropsStep(c) ==
    [c EXCEPT !.run = "paused", !.pending = FALSE, !.phase = "none", !.active = 0]

\* observe_target when the binding no longer matches: the run pauses, its
\* approval is dropped, and the executing phase loses its conclusion.
CoordTargetDrift(c) ==
    IF c.run \in Active
    THEN [c EXCEPT !.run = "paused", !.pending = FALSE, !.phase = "none",
                   !.step = [s \in Steps |->
                                IF s = c.active /\ c.step[s] \in InPhase
                                THEN "unknown" ELSE c.step[s]]]
    ELSE c
=============================================================================
