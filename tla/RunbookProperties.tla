------------------------- MODULE RunbookProperties -------------------------
(***************************************************************************)
(* What must hold of one runbook run, whatever the operator, the webview,  *)
(* the terminal and the process do to it.  The history variable hist is    *)
(* what really happened to the target; the rest is what the code knows.    *)
(***************************************************************************)
EXTENDS RunbookRun

\* The one command on which the durable rows and the engine must agree.
DbCommand == <<db.attempt.step, db.attempt.phase>>
EngineCommand == <<eng.i, eng.phase>>

\* A lease can be claimed while its attempt is still running.
Contract ==
    INSTANCE DispatchContract WITH
        Commands <- Steps \X Phase,
        asked <- IF db.approval = "pending" THEN {DbCommand} ELSE {},
        granted <- IF db.approval = "approved" /\ db.attempt.status = "intent"
                   THEN {DbCommand} ELSE {},
        offered <- IF io.pty = "leased" /\ db.attempt.status = "running"
                   THEN {EngineCommand} ELSE {},
        typed <- hist.typed,
        closed <- db.run \in Terminal

(* Every behaviour of the engine, its rows and its lease registry is one the
   dispatch contract allows: one approval, one lease, one hand-over, of the
   command that was approved, and none of it left in a finished run
   (engine.rs execute_command, runtime.rs PtyState). *)
HonoursContract == Contract!Spec

\* The command typed, or the manual action opened, by this step of the system.
Handed(s) ==
    /\ s = eng.i
    /\ \/ io.pty = "leased" /\ io'.pty = "claimed"
       \/ eng.pc = "manualOpen" /\ eng'.pc = "manual"

(* An apply is handed to the terminal or to the operator only when the last
   conclusive observation of its step, in this process and since the step was
   last changed, is a noncompliant check: neither a retry nor a resume repeats
   an apply blindly (engine.rs run_step, handle_failure). *)
ApplyNeedsFreshCheck ==
    [][\A s \in Steps : eng.phase = "apply" /\ Handed(s)
                           => hist.verdict[s] = "noncompliant"]_vars

(* Once a shell apply has been typed, its row says that the run changed the
   target, through every later overwrite of that column by the engine's own
   copy, across crashes, cancellations and retries (db.rs start_attempt,
   update_step_details, interrupt_active_runs). *)
TypedApplyIsRecorded ==
    \A s \in Steps :
        hist.mutated[s] /\ Kinds(s)["apply"] = "shell" => db.changed[s]

(* A run has a report exactly when it is terminal, and the report describes the
   rows: nothing moves them after it was stored, not even the tail of a cancel
   that began before.  (The changed column of a manual apply is left out: a
   target that drifted while the operator acted clears it, and a late cancel
   raises it again.)  (db.rs finalize_run, cancel_pending_approvals_for_run) *)
ReportDescribesRun ==
    /\ db.run \in Terminal <=> db.report # NoReport
    /\ db.run \in Terminal =>
          /\ db.report.status = db.run
          /\ db.report.step = db.step
          /\ \A s \in Steps : Kinds(s)["apply"] # "manual" =>
                 db.report.changed[s] = db.changed[s]

(* A step is checked off only on the evidence of the target itself: remediated
   means verified after the last change, and recorded as a change; compliant
   means that a check or verification said so since the last change; and a run
   succeeds only when each required step is checked off (state.rs StepStatus,
   report.rs status_from_checklist). *)
SuccessIsEarned ==
    \A s \in Steps :
        /\ db.step[s] = "remediated_verified" =>
               hist.verdict[s] = "verified" /\ db.changed[s]
        /\ db.step[s] = "already_compliant" =>
               hist.verdict[s] \in {"compliant", "verified"}
        /\ db.run = "succeeded" /\ def.step[s].required => db.step[s] \in Checked

\* The outcomes a run leaves a step with when it moves on to the next one.
Settled(s) ==
    \/ db.step[s] \in Checked \cup {"failed", "skipped", "waived"}
    \/ db.step[s] = "needs_action" /\ Kinds(s)["apply"] = "none"

(* The checklist is worked on in order: no step is begun while one before it has
   no settled outcome, across crashes and resumes that pass over settled steps
   (engine.rs execute_mode, run_remaining_steps). *)
ChecklistInOrder ==
    \A s \in Steps : db.step[s] # "pending" => \A t \in 1 .. s - 1 : Settled(t)

\* Where the engine waits for somebody else.
Waiting == {"approval", "terminal", "manual", "deciding"}

(* Whenever the engine waits for somebody, the three copies of the run's state
   agree: the rows that the commands validate against, the coordinator that the
   answer will be checked against, and the checklist the engine walks.  (A step
   that resumed as unknown is known to wait only to the coordinator.) *)
CopiesAgree ==
    eng.pc \in Waiting =>
        /\ coord.step = db.step
        /\ eng.list = db.step
        /\ ~eng.tail => coord.run = db.run /\ coord.active = db.active

(* When the engine waits for a decision, runbooks_decide accepts one, and
   whichever it is, the coordinator and the database will both carry it out
   (commands/runbooks.rs runbooks_decide, engine.rs handle_failure). *)
DecisionWillCommit ==
    eng.pc = "deciding" /\ ~eng.tail =>
        DecisionAccepted /\ CanResolveStep(coord, eng.i) /\ CanSettleStep(db, eng.i)

(* The operator never sees a run that moves on while an approval is pending: the
   run row, the attempt and the approval change together (db.rs
   request_approval_awaiting, approve_and_resume). *)
PendingApprovalHoldsRun ==
    db.approval = "pending" =>
        db.run = "waiting_approval" /\ db.attempt.status = "waiting_approval"
-----------------------------------------------------------------------------
(* Liveness, under FairSpec *)

(* A runbooks_cancel that found the run unfinished ends it, wherever the engine
   was, unless the process dies first, or an engine has left rows that no report
   may describe: then nothing can end it (commands/runbooks.rs runbooks_cancel,
   db.rs finalize_run). *)
CancelEndsRun ==
    env.cancel \in {"read", "readInterrupted"} ~> db.run \in Terminal \/ ~env.up \/ Stranded

(* The engine never waits forever for an approval, a terminal or an attestation:
   it stops, or it asks the operator for a decision. *)
EngineComesToRest ==
    eng.pc # "off" ~> eng.pc \in {"off", "deciding"}
-----------------------------------------------------------------------------
(* What the code says of itself and does not keep: see "Disagreements" in the
   README, one run each. *)

(* A resumed step whose outcome is uncertain goes through the same operator
   decision as any other (engine.rs resume_runbook): when the engine waits for
   one, runbooks_decide accepts it. *)
ResumedDecisionIsAccepted == io.decision = "waiting" => DecisionAccepted

(* A discovery probe that fails is not fatal, only cancellation and a target
   change stop there (engine.rs run_discovery): a run that nobody cancelled, with
   its terminal still open, does not fail before any step of it was begun. *)
DiscoveryIsNotFatal ==
    db.run = "failed" /\ env.cancels = 0 /\ env.terminal =>
        \E s \in Steps : db.step[s] # "pending"

(* The engine owns terminal settlement and canonical report generation
   (commands/runbooks.rs spawn_engine): one that leaves by itself leaves a run
   that is terminal. *)
EngineSettlesRun == eng.pc = "exit" => db.run \in Terminal

(* A stop, the operator's or onFailure's, ends the run (docs/RUNBOOKS.md
   "onFailure"): no command is typed for it afterwards. *)
StopIsFinal ==
    [][hist.stopped => ~(io.pty = "leased" /\ io'.pty = "claimed")]_vars

(* The cancellation watch is read again at the final dispatch boundary, so that a
   command approved just before a cancellation is never emitted after it
   (engine.rs execute_command): a cancelled run registers no dispatch lease. *)
CancelledRunDispatchesNothing ==
    [][io.cancelled => ~(io.pty # "leased" /\ io'.pty = "leased")]_vars
=============================================================================
