--------------------------- MODULE RunbookStates ---------------------------
(***************************************************************************)
(* The vocabulary of the runbook subsystem: the status enumerations of     *)
(* runbooks/state.rs, the two transition tables every durable write goes   *)
(* through, and the predicates the engine and the report builder decide by.*)
(* Statuses are the strings the program itself stores in SQLite.           *)
(***************************************************************************)

Phase == {"check", "apply", "verify"}

RunStatus ==
    {"created", "ready", "running", "waiting_approval", "waiting_operator",
     "paused", "succeeded", "completed_with_exceptions", "failed",
     "cancelled", "interrupted"}

Terminal == {"succeeded", "completed_with_exceptions", "failed", "cancelled"}

Active == {"running", "waiting_approval", "waiting_operator", "paused"}

\* The only legal durable moves of a run.  An interrupted run must be rebound
\* into "ready" before it can run again.
RunMoves ==
    [s \in RunStatus |->
        CASE s = "created" -> {"ready", "failed", "cancelled", "interrupted"}
          [] s = "ready" -> {"running", "failed", "cancelled", "interrupted"}
          [] s = "running" ->
                (Active \ {"running"}) \cup Terminal \cup {"interrupted"}
          [] s \in {"waiting_approval", "waiting_operator"} ->
                {"running", "paused", "failed", "cancelled", "interrupted"}
          [] s = "paused" -> {"running", "failed", "cancelled", "interrupted"}
          [] s = "interrupted" -> {"ready", "cancelled"}
          [] OTHER -> {}]

StepStatus ==
    {"pending", "checking", "already_compliant", "needs_action", "applying",
     "verifying", "remediated_verified", "paused", "failed", "skipped",
     "waived", "blocked", "unknown"}

\* The two positive outcomes: the only statuses that check an item off.
Checked == {"already_compliant", "remediated_verified"}

\* The statuses of a step whose phase is executing.
InPhase == {"checking", "applying", "verifying"}

\* The statuses an operator (or onFailure) may still settle.
Unsettled == {"paused", "unknown", "blocked", "needs_action", "failed"}

StepMoves ==
    [s \in StepStatus |->
        CASE s = "pending" -> {"checking", "skipped", "waived", "blocked"}
          [] s = "checking" ->
                Checked \cup {"needs_action", "paused", "failed", "blocked",
                              "unknown"}
          [] s = "needs_action" ->
                {"checking", "applying", "paused", "failed", "skipped",
                 "waived", "blocked"}
          [] s = "applying" ->
                {"verifying", "paused", "failed", "blocked", "unknown"}
          [] s = "verifying" ->
                {"remediated_verified", "paused", "failed", "blocked",
                 "unknown"}
          [] s = "paused" ->
                InPhase \cup {"failed", "skipped", "waived", "blocked",
                              "unknown"}
          [] s = "unknown" ->
                {"checking", "verifying", "paused", "failed", "skipped",
                 "waived"}
          [] s = "already_compliant" -> {"verifying"}
          [] OTHER -> {}]

AttemptStatus ==
    {"intent", "waiting_approval", "running", "succeeded", "failed",
     "unknown", "cancelled", "declined"}

InFlight == {"intent", "waiting_approval", "running"}

ApprovalStatus == {"pending", "approved", "declined", "cancelled"}

\* What a pause can be answered with.
PauseDecision == {"retry", "skip", "waive", "stop"}

FailurePolicy == {"pause", "stop", "continue"}

\* The status a step has while phase p of it executes.
StatusOfPhase(p) ==
    CASE p = "check" -> "checking"
      [] p = "apply" -> "applying"
      [] p = "verify" -> "verifying"

\* Wrong on purpose: a step that left its phase keeps its status as a phase.
PhaseForStep_Stale(s) ==
    CASE s = "checking" -> "check" [] s = "applying" -> "apply" [] OTHER -> s

\* The durable cursor's phase after a step reached status s ("none" for NULL).
PhaseForStep(s) ==
    CASE s = "checking" -> "check"
      [] s = "applying" -> "apply"
      [] s = "verifying" -> "verify"
      [] OTHER -> "none"

\* The outcomes a phase can be observed with.
PhaseResult(p) ==
    CASE p = "check" -> {"compliant", "noncompliant", "failed", "unknown"}
      [] p = "apply" -> {"applied", "failed", "unknown"}
      [] p = "verify" -> {"verified", "failed", "unknown"}

Results == UNION {PhaseResult(p) : p \in Phase}

\* Where the completion of a phase takes its step.
StatusAfter(result) ==
    CASE result = "compliant" -> "already_compliant"
      [] result = "noncompliant" -> "needs_action"
      [] result = "applied" -> "verifying"
      [] result = "verified" -> "remediated_verified"
      [] result = "failed" -> "paused"
      [] result = "unknown" -> "unknown"

\* The status of the attempt that observed result: an exit code outside the
\* accepted ones is a failure, no exit code at all leaves it unknown.
AttemptAfter(result) ==
    IF result \in {"failed", "unknown"} THEN result ELSE "succeeded"
=============================================================================
