---------------------------- MODULE RunbookTypes ----------------------------
(***************************************************************************)
(* Lemmas about the operators a run is built from: every transaction of    *)
(* RunbookDb maps rows to rows, every method of RunbookCoordinator maps an *)
(* entry to an entry, and the transition tables stay within their states.  *)
(***************************************************************************)
EXTENDS RunbookCoordinator, TLAPS

\* No move of a run leaves the run statuses: runs move by the table.
LEMMA RunMovesType == \A s \in RunStatus : RunMoves[s] \subseteq RunStatus
BY DEF RunMoves, RunStatus, Active, Terminal

\* A finished run has nowhere to go.
LEMMA TerminalIsFinal == \A s \in Terminal : RunMoves[s] = {}
BY DEF RunMoves, RunStatus, Active, Terminal

\* The phase the cursor shows is a phase or none.
LEMMA PhaseForStepType == \A s \in StepStatus : PhaseForStep(s) \in Phase \cup {"none"}
BY DEF PhaseForStep, Phase, StepStatus

\* A phase executes under a step status.
LEMMA StatusOfPhaseType == \A p \in Phase : StatusOfPhase(p) \in StepStatus
BY DEF StatusOfPhase, Phase, StepStatus

\* What a phase was observed with takes its step and its attempt to statuses.
LEMMA ResultTypes ==
    /\ \A p \in Phase : PhaseResult(p) \subseteq Results
    /\ \A r \in Results : StatusAfter(r) \in StepStatus /\ AttemptAfter(r) \in AttemptStatus
    /\ "unknown" \in Results /\ "failed" \in Results
BY DEF Phase, PhaseResult, Results, StatusAfter, AttemptAfter, StepStatus, AttemptStatus
-----------------------------------------------------------------------------
(* The transactions of RunbookDb *)

\* The rows create_run inserts are rows.
LEMMA CreatedRunType == CreatedRun \in Database
BY DEF CreatedRun, Database, RunStatus, StepStatus, Phase, Attempt, ApprovalStatus, Report

\* transition_run, set_run_cursor and rebind_interrupted_run keep rows rows.
LEMMA RunRowType ==
    ASSUME NEW d \in Database
    PROVE  /\ \A next \in RunStatus : TransitionRun(d, next) \in Database
           /\ \A s \in Steps \cup {0}, p \in Phase \cup {"none"} :
                 SetRunCursor(d, s, p) \in Database
           /\ RebindInterruptedRun(d) \in Database
BY DEF TransitionRun, SetRunCursor, RebindInterruptedRun, Database, RunStatus

\* transition_step, settle_exception_step and update_step_details do too.
LEMMA StepRowType ==
    ASSUME NEW d \in Database, NEW s \in Steps, NEW next \in StepStatus, NEW c \in BOOLEAN
    PROVE  /\ TransitionStep(d, s, next, c) \in Database
           /\ SettleStep(d, s, next) \in Database
           /\ ResetStepForRetry(d, s) \in Database
           /\ UpdateStepDetails(d, s, c) \in Database
<1>1. TransitionStep(d, s, next, c) \in Database
  BY PhaseForStepType DEF TransitionStep, Database
<1>2. \A n \in StepStatus : SettleStep(d, s, n) \in Database
  BY DEF SettleStep, Database, RunStatus
<1>3. "pending" \in StepStatus
  BY DEF StepStatus
<1>4. UpdateStepDetails(d, s, c) \in Database
  BY DEF UpdateStepDetails, Database
<1> QED
  BY <1>1, <1>2, <1>3, <1>4 DEF ResetStepForRetry

\* So do the transactions of an attempt, from its intent to its end.
LEMMA AttemptRowType ==
    ASSUME NEW d \in Database
    PROVE  /\ \A s \in Steps, p \in Phase, x \in Executor :
                 CreateAttemptIntent(d, s, p, x) \in Database
           /\ CanStartAttempt(d) => StartAttempt(d) \in Database
           /\ \A st \in AttemptStatus :
                 CanFinishAttempt(d) => FinishAttempt(d, st) \in Database
<1>1. ASSUME NEW s \in Steps, NEW p \in Phase, NEW x \in Executor
      PROVE  CreateAttemptIntent(d, s, p, x) \in Database
  BY DEF CreateAttemptIntent, Database, Attempt, AttemptStatus
<1>2. ASSUME CanStartAttempt(d) PROVE StartAttempt(d) \in Database
  <2>1. d.attempt \in [step : Steps, phase : Phase, executor : Executor, status : AttemptStatus]
    BY <1>2 DEF CanStartAttempt, Database, Attempt, NoAttempt
  <2>2. [d.attempt EXCEPT !.status = "running"] \in Attempt
    BY <2>1 DEF Attempt, AttemptStatus
  <2> QED
    BY <2>1, <2>2 DEF StartAttempt, Database
<1>3. ASSUME NEW st \in AttemptStatus, CanFinishAttempt(d)
      PROVE  FinishAttempt(d, st) \in Database
  BY <1>3 DEF CanFinishAttempt, InFlight, FinishAttempt, Database, Attempt, NoAttempt
<1> QED
  BY <1>1, <1>2, <1>3

\* So do the transactions of an approval.
LEMMA ApprovalRowType ==
    ASSUME NEW d \in Database
    PROVE  /\ CanRequestApproval(d) => RequestApprovalAwaiting(d) \in Database
           /\ ApproveAndResume(d) \in Database
           /\ DeclineApproval(d) \in Database
           /\ CancelPendingApprovals(d) \in Database
<1> DEFINE Row == [step : Steps, phase : Phase, executor : Executor, status : AttemptStatus]
<1>1. ASSUME NEW st \in AttemptStatus, d.attempt.status # "none"
      PROVE  [d.attempt EXCEPT !.status = st] \in Attempt
  BY <1>1 DEF Database, Attempt, NoAttempt
<1>2. CanRequestApproval(d) => RequestApprovalAwaiting(d) \in Database
  BY <1>1 DEF CanRequestApproval, RequestApprovalAwaiting, Database, AttemptStatus,
              ApprovalStatus, RunStatus
<1>3. [d.attempt EXCEPT !.status = d.attempt.status] \in Attempt
  BY DEF Database, Attempt, NoAttempt
<1>4. ApproveAndResume(d) \in Database
  BY <1>1, <1>3 DEF ApproveAndResume, Database, AttemptStatus, ApprovalStatus, RunStatus
<1>5. DeclineApproval(d) \in Database
  BY <1>1, <1>3 DEF DeclineApproval, Database, AttemptStatus, ApprovalStatus
<1>6. CancelPendingApprovals(d) \in Database
  BY <1>1, <1>3 DEF CancelPendingApprovals, KeepApplyStarted, Database, AttemptStatus,
                    ApprovalStatus
<1> QED
  BY <1>2, <1>4, <1>5, <1>6

\* And so do the transactions at both ends of a process: reconciliation at
\* startup, and the report of a terminal run.
LEMMA EndRowType ==
    ASSUME NEW d \in Database
    PROVE  /\ InterruptActiveRuns(d) \in Database
           /\ \A t \in Terminal : FinalizeRun(d, t) \in Database
<1>1. [d.attempt EXCEPT !.status = IF @ \in InFlight THEN "unknown" ELSE @] \in Attempt
  BY DEF Database, Attempt, NoAttempt, InFlight, AttemptStatus
<1>2. InterruptActiveRuns(d) \in Database
  <2>1. KeepApplyStarted(d) \in [Steps -> BOOLEAN]
    BY DEF KeepApplyStarted
  <2>2. [s \in Steps |-> IF d.step[s] \in InPhase THEN "unknown" ELSE d.step[s]]
            \in [Steps -> StepStatus]
    BY DEF Database, StepStatus
  <2>3. (IF d.approval = "pending" THEN "cancelled" ELSE d.approval)
            \in ApprovalStatus \cup {"none"}
    BY DEF Database, ApprovalStatus
  <2>4. "interrupted" \in RunStatus
    BY DEF RunStatus
  <2> QED
    BY <1>1, <2>1, <2>2, <2>3, <2>4 DEF InterruptActiveRuns, Database
<1>3. \A t \in Terminal : FinalizeRun(d, t) \in Database
  BY DEF FinalizeRun, Database, Report, Terminal, RunStatus
<1> QED
  BY <1>2, <1>3
-----------------------------------------------------------------------------
(* The methods of RunbookCoordinator *)

\* No entry is an entry.
LEMMA NoRunType == NoRun \in Coordinator
BY DEF NoRun, Coordinator, RunStatus, StepStatus

\* Registration makes an entry.
LEMMA RegisteredType ==
    /\ RegisterRun \in Coordinator
    /\ \A st \in [Steps -> StepStatus] : RegisterRestoredRun(st) \in Coordinator
BY NoRunType DEF RegisterRun, RegisterRestoredRun, Coordinator, RunStatus

\* A transition of the run, or a drift of its target, keeps an entry an entry.
LEMMA CoordRunType ==
    ASSUME NEW c \in Coordinator
    PROVE  /\ \A next \in RunStatus : CoordTransitionRun(c, next) \in Coordinator
           /\ CoordRequestApproval(c) \in Coordinator
           /\ CoordApprove(c) \in Coordinator
           /\ CoordRequireOperator(c) \in Coordinator
           /\ CoordOperatorAnswered(c) \in Coordinator
           /\ CoordContinueAssessment(c) \in Coordinator
           /\ CoordTargetDrift(c) \in Coordinator
<1>1. ASSUME NEW next \in RunStatus PROVE CoordTransitionRun(c, next) \in Coordinator
  <2>1. (c.pending /\ next \notin Terminal \cup {"interrupted"}) \in BOOLEAN
    OBVIOUS
  <2> QED
    BY <2>1 DEF CoordTransitionRun, Coordinator
<1>2. CoordTargetDrift(c) \in Coordinator
  <2>1. [s \in Steps |-> IF s = c.active /\ c.step[s] \in InPhase
                         THEN "unknown" ELSE c.step[s]] \in [Steps -> StepStatus]
    BY DEF Coordinator, StepStatus
  <2> QED
    BY <2>1 DEF CoordTargetDrift, Coordinator, RunStatus
<1>3. CoordRequestApproval(c) \in Coordinator /\ CoordApprove(c) \in Coordinator
  BY DEF CoordRequestApproval, CoordApprove, Coordinator, RunStatus
<1>4. /\ CoordRequireOperator(c) \in Coordinator
      /\ CoordOperatorAnswered(c) \in Coordinator
      /\ CoordContinueAssessment(c) \in Coordinator
  BY DEF CoordRequireOperator, CoordOperatorAnswered, CoordContinueAssessment,
         Coordinator, RunStatus
<1> QED
  BY <1>1, <1>2, <1>3, <1>4

\* So do the methods that move a step.
LEMMA CoordStepType ==
    ASSUME NEW c \in Coordinator, NEW s \in Steps
    PROVE  /\ \A p \in Phase : CoordBeginPhase(c, s, p) \in Coordinator
           /\ \A r : StatusAfter(r) \in StepStatus =>
                 CoordCompletePhase(c, s, r) \in Coordinator
           /\ CoordDecline(c, s) \in Coordinator
           /\ \A next \in StepStatus : CoordSettleStep(c, s, next) \in Coordinator
           /\ CoordStop(c, s) \in Coordinator
<1>1. \A p \in Phase : CoordBeginPhase(c, s, p) \in Coordinator
  BY StatusOfPhaseType DEF CoordBeginPhase, Coordinator
<1>2. ASSUME NEW r, StatusAfter(r) \in StepStatus
      PROVE  CoordCompletePhase(c, s, r) \in Coordinator
  BY <1>2 DEF CoordCompletePhase, Coordinator, RunStatus
<1>3. CoordDecline(c, s) \in Coordinator
  BY DEF CoordDecline, Coordinator, RunStatus, StepStatus
<1>4. \A next \in StepStatus : CoordSettleStep(c, s, next) \in Coordinator
  BY DEF CoordSettleStep, Coordinator, RunStatus
<1>5. CoordStop(c, s) \in Coordinator
  BY DEF CoordStop, Coordinator, RunStatus, StepStatus
<1> QED
  BY <1>1, <1>2, <1>3, <1>4, <1>5
=============================================================================
