------------------------ MODULE RunbookSafetyProofs ------------------------
(***************************************************************************)
(* What holds of every run, for every checklist, every set of definitions  *)
(* and every bound: the invariant RunInv, the safety properties that follow*)
(* from it, and the engine as an implementation of the dispatch contract.  *)
(*                                                                         *)
(* An action of the engine is one transaction with several ways through it.*)
(* OneStep lists those ways as branches without alternatives; EveryStep    *)
(* shows that nothing else happens.  Each part of RunInv is then kept by   *)
(* each branch, and a branch is expanded in one leaf.                      *)
(***************************************************************************)
EXTENDS RunbookInvariants, RunbookRunProofs

-----------------------------------------------------------------------------
(* The branches of the engine's actions, one way through the code each.  Every
   invariant below is kept by each of them. *)

RegisterNew ==
    /\ eng.pc = "register" /\ eng.mode = "new"
    /\ CanTransitionRun(db, "created", "ready")
    /\ io' = [io EXCEPT !.registered = TRUE, !.cancelled = io.preCancelled,
                        !.preCancelled = FALSE]
    /\ db' = TransitionRun(db, "ready") /\ coord' = RegisterRun /\ Goto("launch")
    /\ UNCHANGED <<def, env, hist>>
RegisterResumed ==
    /\ eng.pc = "register" /\ eng.mode = "resume"
    /\ io' = [io EXCEPT !.registered = TRUE, !.cancelled = io.preCancelled,
                        !.preCancelled = FALSE]
    /\ coord' = RegisterRestoredRun(db.step) /\ eng' = Restored
    /\ UNCHANGED <<def, db, env, hist>>

ProbeCancelled ==
    /\ eng.pc = "probe" /\ Goto("finishCancel")
    /\ UNCHANGED <<def, db, coord, io, env, hist>>
ProbeLost ==
    /\ eng.pc = "probe" /\ coord' = CoordTargetDrift(coord) /\ Goto("abort")
    /\ UNCHANGED <<def, db, io, env, hist>>
ProbeAsks ==
    /\ eng.pc = "probe"
    /\ db' = CreateAttemptIntent(db, 1, "check", "shell")
    /\ eng' = [eng EXCEPT !.pc = "request", !.open = TRUE]
    /\ UNCHANGED <<def, coord, io, env, hist>>

NextCancelled ==
    /\ eng.pc = "next" /\ eng.i \in Steps /\ ~eng.tail /\ Goto("finishCancel")
    /\ UNCHANGED <<def, db, coord, io, env, hist>>
NextPassed ==
    /\ eng.pc = "next" /\ eng.i \in Steps /\ PassesOver(eng.i)
    /\ eng' = [eng EXCEPT !.i = @ + 1]
    /\ UNCHANGED <<def, db, coord, io, env, hist>>
NextBegins ==
    /\ eng.pc = "next" /\ eng.i \in Steps /\ ~PassesOver(eng.i) /\ ~Uncertain(eng.i)
    /\ eng' = [eng EXCEPT !.pc = "begin", !.phase = "check"]
    /\ UNCHANGED <<def, db, coord, io, env, hist>>
NextUncertain ==
    /\ eng.pc = "next" /\ eng.i \in Steps /\ ~PassesOver(eng.i) /\ Uncertain(eng.i)
    /\ coord' = CoordRequireOperator(coord)
    /\ eng' = [eng EXCEPT !.pc = "decide", !.tail = TRUE]
    /\ UNCHANGED <<def, db, io, env, hist>>

BeginAgain ==
    /\ eng.pc = "begin" /\ CanBeginPhase(coord, eng.i, eng.phase)
    /\ coord' = CoordBeginPhase(coord, eng.i, eng.phase)
    /\ eng.list[eng.i] = StatusOfPhase(eng.phase)
    /\ db' = SetRunCursor(db, eng.i, eng.phase)
    /\ eng' = [eng EXCEPT !.pc = "dispatch", !.list[eng.i] = StatusOfPhase(eng.phase)]
    /\ UNCHANGED <<def, io, env, hist>>
BeginMoves ==
    /\ eng.pc = "begin" /\ CanBeginPhase(coord, eng.i, eng.phase)
    /\ coord' = CoordBeginPhase(coord, eng.i, eng.phase)
    /\ eng.list[eng.i] # StatusOfPhase(eng.phase)
    /\ db' = TransitionStep(db, eng.i, StatusOfPhase(eng.phase), eng.chg[eng.i])
    /\ eng' = [eng EXCEPT !.pc = "dispatch", !.list[eng.i] = StatusOfPhase(eng.phase)]
    /\ UNCHANGED <<def, io, env, hist>>

DispatchCancelled ==
    /\ eng.pc = "dispatch" /\ Goto("finishCancel")
    /\ UNCHANGED <<def, db, coord, io, env, hist>>
DispatchAgent ==
    /\ eng.pc = "dispatch"
    /\ eng' = [eng EXCEPT !.pc = "settle", !.result = "failed"]
    /\ UNCHANGED <<def, db, coord, io, env, hist>>
DispatchShell ==
    /\ eng.pc = "dispatch" /\ Kinds(eng.i)[eng.phase] = "shell"
    /\ db' = CreateAttemptIntent(db, eng.i, eng.phase, "shell")
    /\ eng' = [eng EXCEPT !.open = TRUE, !.pc = "request"]
    /\ UNCHANGED <<def, coord, io, env, hist>>
DispatchManual ==
    /\ eng.pc = "dispatch" /\ Kinds(eng.i)[eng.phase] = "manual"
    /\ db' = CreateAttemptIntent(db, eng.i, eng.phase, "manual")
    /\ eng' = [eng EXCEPT !.open = TRUE, !.pc = "manualStart"]
    /\ UNCHANGED <<def, coord, io, env, hist>>

DriftFrom(pc) ==
    /\ eng.pc = pc
    /\ coord' = CoordTargetDrift(coord)
    /\ CanTransitionStep(db, eng.i, eng.list[eng.i], "unknown", eng.chg[eng.i])
    /\ db' = TransitionStep(db, eng.i, "unknown", eng.chg[eng.i])
    /\ eng' = [eng EXCEPT !.pc = "driftRun", !.list[eng.i] = "unknown"]
    /\ UNCHANGED <<def, io, env, hist>>

AskCoordinated ==
    /\ eng.pc = "request" /\ CanRequestApproval(db)
    /\ db' = RequestApprovalAwaiting(db) /\ io' = [io EXCEPT !.approval = "waiting"]
    /\ CoordCanRequestApproval(coord, eng.i, eng.phase)
    /\ coord' = CoordRequestApproval(coord) /\ Goto("approval")
    /\ hist' = [hist EXCEPT !.typed = 0]
    /\ UNCHANGED <<def, env>>
AskRefused ==
    /\ eng.pc = "request" /\ CanRequestApproval(db)
    /\ db' = RequestApprovalAwaiting(db) /\ io' = [io EXCEPT !.approval = "waiting"]
    /\ Goto("abort")
    /\ hist' = [hist EXCEPT !.typed = 0]
    /\ UNCHANGED <<def, coord, env>>

RecheckCancelled ==
    /\ eng.pc = "approved" /\ CanFinishAttempt(db)
    /\ db' = FinishAttempt(db, "cancelled")
    /\ eng' = [eng EXCEPT !.pc = "finishCancel", !.open = FALSE]
    /\ UNCHANGED <<def, coord, io, env, hist>>
RecheckPassed ==
    /\ eng.pc = "approved" /\ Goto("start")
    /\ UNCHANGED <<def, db, coord, io, env, hist>>

OpenApply ==
    /\ eng.pc = "manualOpen" /\ eng.phase = "apply"
    /\ CanTransitionRun(db, "running", "waiting_operator")
    /\ db' = TransitionRun(db, "waiting_operator") /\ Goto("manual")
    /\ hist' = Mutated(eng.i)
    /\ UNCHANGED <<def, coord, io, env>>
OpenOther ==
    /\ eng.pc = "manualOpen" /\ eng.phase # "apply"
    /\ CanTransitionRun(db, "running", "waiting_operator")
    /\ db' = TransitionRun(db, "waiting_operator") /\ Goto("manual")
    /\ UNCHANGED <<def, coord, io, env, hist>>

\* complete_phase with a result that leads to position pc and phase ph.
PhaseEnds(result, pc, ph) ==
    LET s == eng.i
        next == StatusAfter(result)
        chg == eng.chg[s] \/ eng.phase = "apply"
    IN  /\ eng.pc = "settle" /\ eng.result = result
        /\ CanCompletePhase(coord, s, eng.phase, result)
        /\ coord' = CoordCompletePhase(coord, s, result)
        /\ CanTransitionStep(db, s, eng.list[s], next, chg)
        /\ db' = TransitionStep(db, s, next, chg)
        /\ eng' = [eng EXCEPT !.list[s] = next, !.chg[s] = chg, !.pc = pc, !.phase = ph]
        /\ UNCHANGED <<def, io, env, hist>>
PhaseApplied == PhaseEnds("applied", "begin", "verify")
PhaseNeedsApply ==
    Kinds(eng.i)["apply"] # "none" /\ PhaseEnds("noncompliant", "begin", "apply")
PhaseAssessed ==
    Kinds(eng.i)["apply"] = "none" /\ PhaseEnds("noncompliant", "assess", eng.phase)
PhaseSettles(result) == PhaseEnds(result, "settleRun", eng.phase)

SettleVerifies ==
    /\ eng.pc = "settleRun" /\ eng.result = "compliant"
    /\ db' = SetRunCursor(db, 0, "none")
    /\ eng' = [eng EXCEPT !.pc = "begin", !.phase = "verify"]
    /\ UNCHANGED <<def, coord, io, env, hist>>
SettleChecksOff ==
    /\ eng.pc = "settleRun" /\ eng.result \in {"compliant", "verified"}
    /\ db' = SetRunCursor(db, 0, "none") /\ Goto("summary")
    /\ UNCHANGED <<def, coord, io, env, hist>>
SettlePauses(pc) ==
    /\ eng.pc = "settleRun" /\ eng.result \in {"failed", "unknown"}
    /\ pc = "policy" => eng.result = "failed"
    /\ CanTransitionRun(db, "running", "waiting_operator")
    /\ db' = TransitionRun(db, "waiting_operator") /\ Goto(pc)
    /\ UNCHANGED <<def, coord, io, env, hist>>

\* A step is settled, or the run stopped at it, by its policy or by a decision.
Settles(pc, next) ==
    /\ eng.pc = pc /\ SettleAs(eng.i, next)
    /\ io' = [io EXCEPT !.decision = IF pc = "deciding" THEN "none" ELSE @]
    /\ UNCHANGED <<def, env>>
Stops(pc) ==
    /\ eng.pc = pc /\ SettleStopped(eng.i)
    /\ io' = [io EXCEPT !.decision = IF pc = "deciding" THEN "none" ELSE @]
    /\ UNCHANGED <<def, env>>
Retries ==
    /\ eng.pc = "deciding"
    /\ CanResolveStep(coord, eng.i) /\ CanSettleStep(db, eng.i)
    /\ coord' = CoordSettleStep(coord, eng.i, "pending")
    /\ db' = ResetStepForRetry(db, eng.i)
    /\ eng' = [eng EXCEPT !.pc = "begin", !.phase = "check", !.list[eng.i] = "pending"]
    /\ io' = [io EXCEPT !.decision = "none"]
    /\ UNCHANGED <<def, env, hist>>

SummaryNext ==
    /\ eng.pc = "summary" /\ eng.ending = "none"
    /\ db' = UpdateStepDetails(db, eng.i, eng.chg[eng.i])
    /\ eng' = [eng EXCEPT !.pc = "next", !.i = @ + 1, !.result = "none"]
    /\ UNCHANGED <<def, coord, io, env, hist>>
SummaryEnds ==
    /\ eng.pc = "summary" /\ eng.ending # "none"
    /\ db' = UpdateStepDetails(db, eng.i, eng.chg[eng.i])
    /\ eng' = [eng EXCEPT !.pc = "wrapUp"]
    /\ UNCHANGED <<def, coord, io, env, hist>>

MarkNothing ==
    /\ eng.pc = "finishMark" /\ Goto("wrapUp")
    /\ UNCHANGED <<def, db, coord, io, env, hist>>
MarkOne(s) ==
    /\ eng.pc = "finishMark" /\ eng.list[s] \in InPhase
    /\ db' = TransitionStep(db, s, "unknown", eng.chg[s] \/ db.changed[s])
    /\ eng' = [eng EXCEPT !.pc = "wrapUp", !.list[s] = "unknown",
                          !.chg[s] = eng.chg[s] \/ db.changed[s]]
    /\ UNCHANGED <<def, coord, io, env, hist>>

AbortedSteps ==
    /\ eng.pc = "abortSteps" /\ Goto("abortFinalize")
    /\ UNCHANGED <<def, db, coord, io, env, hist>>
AbortOne(s) ==
    /\ eng.pc = "abortSteps" /\ db.step[s] \in InPhase
    /\ db' = TransitionStep(db, s, "unknown", db.changed[s])
    /\ UNCHANGED <<def, coord, eng, io, env, hist>>

CancelEnds ==
    /\ env.cancel = "signalled" /\ db.run = "interrupted"
    /\ db' = FinalizeRun(CancelPendingApprovals(db), "cancelled") /\ io' = NoIO
    /\ env' = [env EXCEPT !.cancel = "idle"]
    /\ UNCHANGED <<def, coord, eng, hist>>
CancelSettles ==
    /\ env.cancel = "signalled"
    /\ db' = CancelPendingApprovals(db)
    /\ env' = [env EXCEPT !.cancel = "idle"]
    /\ UNCHANGED <<def, coord, eng, io, hist>>

RestartInterrupts ==
    /\ ~env.up /\ db.run \in Active \cup {"created", "ready"}
    /\ db' = InterruptActiveRuns(db) /\ env' = [env EXCEPT !.up = TRUE]
    /\ UNCHANGED <<def, coord, eng, io, hist>>
RestartAgain ==
    /\ ~env.up /\ db.run \notin Active \cup {"created", "ready"}
    /\ env' = [env EXCEPT !.up = TRUE]
    /\ UNCHANGED <<def, db, coord, eng, io, hist>>

OneStep ==
    \/ RegisterNew \/ RegisterResumed \/ Launch \/ ProbeCancelled \/ ProbeLost
    \/ ProbeAsks \/ ChecklistDone \/ NextCancelled \/ NextPassed \/ NextBegins
    \/ NextUncertain \/ BeginAgain \/ BeginMoves \/ DispatchCancelled \/ DispatchAgent
    \/ DispatchShell \/ DispatchManual \/ DriftFrom("dispatch")
    \/ DriftFrom("approved") \/ DriftFrom("manualTarget") \/ DriftRun \/ DriftAttempt
    \/ AskCoordinated \/ AskRefused \/ ApprovalCancelled \/ Approved \/ Declined
    \/ DeclineStep \/ DeclineRun \/ RecheckCancelled \/ RecheckPassed \/ StartCommand
    \/ CommandCancelled \/ CommandObserved \/ StartManual \/ OpenApply \/ OpenOther
    \/ ManualCancelled \/ ManualAnswered \/ ManualObserved \/ PhaseApplied
    \/ PhaseNeedsApply \/ PhaseAssessed \/ PhaseSettles("compliant")
    \/ PhaseSettles("verified") \/ PhaseSettles("failed") \/ PhaseSettles("unknown")
    \/ SettleVerifies \/ SettleChecksOff \/ SettlePauses("policy")
    \/ SettlePauses("decide") \/ Assess \/ Settles("policy", "failed")
    \/ Stops("policy") \/ AwaitDecision \/ Retries \/ Settles("deciding", "skipped")
    \/ Settles("deciding", "waived") \/ Stops("deciding") \/ DecisionCancelled
    \/ SummaryNext \/ SummaryEnds \/ FinishCancelled \/ MarkNothing
    \/ \E s \in Steps : MarkOne(s)
    \/ WrapUp \/ Finalize \/ EngineError \/ Abort \/ AbortedSteps
    \/ \E s \in Steps : AbortOne(s)
    \/ AbortFinalize \/ AbortRefused \/ Exit \/ RespondApproval \/ Decide
    \/ SubmitManual
    \/ CancelRead \/ CancelSignal \/ CancelEnds \/ CancelSettles \/ Resume \/ Claim
    \/ SubmitResult \/ LeaseExpires \/ CloseTerminal \/ Crash \/ RestartInterrupts
    \/ RestartAgain
    \/ UNCHANGED vars
-----------------------------------------------------------------------------
(* Every step of the system is one of its branches *)

\* Nothing else happens.
LEMMA EveryStep == TypeInv /\ RunInv /\ [Next]_vars => OneStep
<1> SUFFICES ASSUME TypeInv, RunInv, [Next]_vars PROVE OneStep
  OBVIOUS
<1>0. eng \in Engine /\ io \in Registries /\ EngineInv
  BY DEF TypeInv, TypeOK, RunInv
<1>1. ASSUME Register PROVE OneStep
  BY <1>1 DEF Register, OneStep, RegisterNew, RegisterResumed
<1>2. ASSUME Probe PROVE OneStep
  BY <1>2 DEF Probe, OneStep, ProbeCancelled, ProbeLost, ProbeAsks
<1>3. ASSUME NextStep PROVE OneStep
  BY <1>3 DEF NextStep, OneStep, NextCancelled, NextPassed, NextBegins, NextUncertain
<1>4. ASSUME BeginPhase PROVE OneStep
  BY <1>4 DEF BeginPhase, OneStep, BeginAgain, BeginMoves
<1>5. ASSUME Dispatch PROVE OneStep
  BY <1>5 DEF Dispatch, OneStep, DispatchCancelled, DispatchAgent, DispatchShell,
     DispatchManual
<1>6. ASSUME TargetDrift PROVE OneStep
  BY <1>6 DEF TargetDrift, OneStep, DriftFrom
<1>7. ASSUME RequestApproval PROVE OneStep
  BY <1>7 DEF RequestApproval, OneStep, AskCoordinated, AskRefused
<1>8. ASSUME Recheck PROVE OneStep
  BY <1>8 DEF Recheck, OneStep, RecheckCancelled, RecheckPassed
<1>9. ASSUME OpenManual PROVE OneStep
  BY <1>9 DEF OpenManual, OneStep, OpenApply, OpenOther
<1>10. ASSUME CompletePhase PROVE OneStep
  <2>1. /\ eng.pc = "settle" /\ eng.result \in PhaseResult(eng.phase)
        /\ eng.phase \in Phase
    BY <1>0, <1>10 DEF CompletePhase, EngineInv, Engine
  <2>2. eng.result \in {"applied", "noncompliant", "compliant", "verified", "failed",
                        "unknown"}
    BY <2>1 DEF PhaseResult, Phase
  <2>3. eng' = [eng EXCEPT !.list[eng.i] = StatusAfter(eng.result),
             !.chg[eng.i] = eng.chg[eng.i] \/ eng.phase = "apply", !.pc = eng'.pc,
             !.phase = eng'.phase]
    BY <1>0, <1>10 DEF CompletePhase, Engine
  <2>4. ASSUME eng.result = "applied" PROVE PhaseApplied
    <3>1. eng'.pc = "begin" /\ eng'.phase = "verify"
      BY <1>0, <1>10, <2>4 DEF CompletePhase, Engine
    <3> QED
      BY <1>10, <2>3, <2>4, <3>1 DEF CompletePhase, PhaseApplied, PhaseEnds
  <2>5. ASSUME eng.result = "noncompliant", Kinds(eng.i)["apply"] # "none"
        PROVE  PhaseNeedsApply
    <3>1. eng'.pc = "begin" /\ eng'.phase = "apply"
      BY <1>0, <1>10, <2>5 DEF CompletePhase, Engine
    <3> QED
      BY <1>10, <2>3, <2>5, <3>1 DEF CompletePhase, PhaseNeedsApply, PhaseEnds
  <2>6. ASSUME eng.result = "noncompliant", Kinds(eng.i)["apply"] = "none"
        PROVE  PhaseAssessed
    <3>1. eng'.pc = "assess" /\ eng'.phase = eng.phase
      BY <1>0, <1>10, <2>6 DEF CompletePhase, Engine
    <3> QED
      BY <1>10, <2>3, <2>6, <3>1 DEF CompletePhase, PhaseAssessed, PhaseEnds
  <2>7. ASSUME NEW r \in {"compliant", "verified", "failed", "unknown"}, eng.result = r
        PROVE  PhaseSettles(r)
    <3>1. eng'.pc = "settleRun" /\ eng'.phase = eng.phase
      BY <1>0, <1>10, <2>7 DEF CompletePhase, Engine
    <3> QED
      BY <1>10, <2>3, <2>7, <3>1 DEF CompletePhase, PhaseSettles, PhaseEnds
  <2> QED
    BY <2>2, <2>4, <2>5, <2>6, <2>7 DEF OneStep
<1>11. ASSUME SettleRun PROVE OneStep
  BY <1>11 DEF SettleRun, OneStep, SettleVerifies, SettleChecksOff, SettlePauses
<1>12. ASSUME FailurePolicyApplies PROVE OneStep
  <2>1. io' = [io EXCEPT !.decision = IF "policy" = "deciding" THEN "none" ELSE @]
    BY <1>0, <1>12 DEF FailurePolicyApplies, Registries
  <2> QED
    BY <1>12, <2>1 DEF FailurePolicyApplies, OneStep, Settles, Stops
<1>13. ASSUME Decided PROVE OneStep
  <2>1. io' = [io EXCEPT !.decision = IF "deciding" = "deciding" THEN "none" ELSE @]
    BY <1>13 DEF Decided
  <2> QED
    BY <1>13, <2>1 DEF Decided, OneStep, Settles, Stops, Retries
<1>14. ASSUME Summarize PROVE OneStep
  BY <1>14 DEF Summarize, OneStep, SummaryNext, SummaryEnds
<1>15. ASSUME MarkUnknown PROVE OneStep
  BY <1>15 DEF MarkUnknown, OneStep, MarkNothing, MarkOne
<1>16. ASSUME AbortSteps PROVE OneStep
  BY <1>16 DEF AbortSteps, OneStep, AbortedSteps, AbortOne
<1>17. ASSUME CancelInterrupted PROVE OneStep
  BY <1>17 DEF CancelInterrupted, OneStep, CancelEnds, CancelSettles
<1>18. ASSUME Restart PROVE OneStep
  BY <1>18 DEF Restart, OneStep, RestartInterrupts, RestartAgain, InterruptActiveRuns
<1>e. ASSUME EngineStep PROVE OneStep
  BY <1>e, <1>1, <1>2, <1>3, <1>4, <1>5, <1>6, <1>7, <1>8, <1>9, <1>10, <1>11, <1>12,
     <1>13, <1>14, <1>15, <1>16 DEF EngineStep, OneStep
<1> QED
  BY <1>e, <1>17, <1>18 DEF Next, Finished, OneStep

-----------------------------------------------------------------------------
(* The parts of the invariant *)

\* What the run's row says of the engine's position: only the engine moves the row
\* while there is one.
LEMMA RowStep == TypeInv /\ RunInv /\ OneStep => RowInv'
<1> SUFFICES ASSUME TypeInv, RunInv, OneStep PROVE RowInv'
  OBVIOUS
<1>0. /\ db \in Database /\ coord \in Coordinator /\ eng \in Engine /\ env \in Environment
      /\ io \in Registries /\ hist \in History /\ InRange
  BY DEF TypeInv, TypeOK
<1>i. RowInv /\ EngineInv
  BY DEF RunInv
<1> USE DEF RowInv, EngineInv, Deciding, Terminal, Active, RunStatus, Ending,
        Database, Coordinator, Engine, Environment, Registries, InRange
<1>1. ASSUME RegisterNew PROVE RowInv'
  BY <1>0, <1>i, <1>1 DEF RegisterNew, Goto, CanTransitionRun, TransitionRun,
     RegisterRun, NoRun
<1>2. ASSUME RegisterResumed PROVE RowInv'
  BY <1>0, <1>i, <1>2 DEF RegisterResumed, Restored, RegisterRestoredRun, NoRun
<1>3. ASSUME Launch PROVE RowInv'
  BY <1>0, <1>i, <1>3 DEF Launch, Goto, CanTransitionRun, TransitionRun,
     CoordTransitionRun
<1>4. ASSUME ProbeCancelled PROVE RowInv'
  BY <1>0, <1>i, <1>4 DEF ProbeCancelled, Goto
<1>5. ASSUME ProbeLost PROVE RowInv'
  BY <1>0, <1>i, <1>5 DEF ProbeLost, Goto, CoordTargetDrift
<1>6. ASSUME ProbeAsks PROVE RowInv'
  BY <1>0, <1>i, <1>6 DEF ProbeAsks, CreateAttemptIntent
<1>7. ASSUME ChecklistDone PROVE RowInv'
  BY <1>0, <1>i, <1>7 DEF ChecklistDone, StatusFromChecklist
<1>8. ASSUME NextCancelled PROVE RowInv'
  BY <1>0, <1>i, <1>8 DEF NextCancelled, Goto
<1>9. ASSUME NextPassed PROVE RowInv'
  BY <1>0, <1>i, <1>9 DEF NextPassed
<1>10. ASSUME NextBegins PROVE RowInv'
  BY <1>0, <1>i, <1>10 DEF NextBegins
<1>11. ASSUME NextUncertain PROVE RowInv'
  BY <1>0, <1>i, <1>11 DEF NextUncertain, CoordRequireOperator
<1>12. ASSUME BeginAgain PROVE RowInv'
  BY <1>0, <1>i, <1>12 DEF BeginAgain, CanBeginPhase, CoordBeginPhase, SetRunCursor
<1>13. ASSUME BeginMoves PROVE RowInv'
  BY <1>0, <1>i, <1>13 DEF BeginMoves, CanBeginPhase, CoordBeginPhase, TransitionStep
<1>14. ASSUME DispatchCancelled PROVE RowInv'
  BY <1>0, <1>i, <1>14 DEF DispatchCancelled, Goto
<1>15. ASSUME DispatchAgent PROVE RowInv'
  BY <1>0, <1>i, <1>15 DEF DispatchAgent
<1>16. ASSUME DispatchShell PROVE RowInv'
  BY <1>0, <1>i, <1>16 DEF DispatchShell, CreateAttemptIntent
<1>17. ASSUME DispatchManual PROVE RowInv'
  BY <1>0, <1>i, <1>17 DEF DispatchManual, CreateAttemptIntent
<1>18. ASSUME DriftFrom("dispatch") PROVE RowInv'
  BY <1>0, <1>i, <1>18 DEF DriftFrom, CoordTargetDrift, CanTransitionStep,
     TransitionStep
<1>19. ASSUME DriftFrom("approved") PROVE RowInv'
  BY <1>0, <1>i, <1>19 DEF DriftFrom, CoordTargetDrift, CanTransitionStep,
     TransitionStep
<1>20. ASSUME DriftFrom("manualTarget") PROVE RowInv'
  BY <1>0, <1>i, <1>20 DEF DriftFrom, CoordTargetDrift, CanTransitionStep,
     TransitionStep
<1>21. ASSUME DriftRun PROVE RowInv'
  BY <1>0, <1>i, <1>21 DEF DriftRun, Goto, CanTransitionRun, TransitionRun
<1>22. ASSUME DriftAttempt PROVE RowInv'
  BY <1>0, <1>i, <1>22 DEF DriftAttempt, CanFinishAttempt, FinishAttempt
<1>23. ASSUME AskCoordinated PROVE RowInv'
  BY <1>0, <1>i, <1>23 DEF AskCoordinated, Goto, CanRequestApproval,
     RequestApprovalAwaiting, CoordCanRequestApproval, CoordRequestApproval
<1>24. ASSUME AskRefused PROVE RowInv'
  BY <1>0, <1>i, <1>24 DEF AskRefused, Goto, CanRequestApproval, RequestApprovalAwaiting
<1>25. ASSUME ApprovalCancelled PROVE RowInv'
  BY <1>0, <1>i, <1>25 DEF ApprovalCancelled, CancelPendingApprovals
<1>26. ASSUME Approved PROVE RowInv'
  BY <1>0, <1>i, <1>26 DEF Approved, Goto, CanResolveApproval, CanDecideApproval,
     CoordApprove, ApproveAndResume
<1>27. ASSUME Declined PROVE RowInv'
  BY <1>0, <1>i, <1>27 DEF Declined, CanResolveApproval, CanDecideApproval,
     CoordDecline, DeclineApproval
<1>28. ASSUME DeclineStep PROVE RowInv'
  BY <1>0, <1>i, <1>28 DEF DeclineStep, CanTransitionStep, TransitionStep
<1>29. ASSUME DeclineRun PROVE RowInv'
  BY <1>0, <1>i, <1>29 DEF DeclineRun, Goto, CanTransitionRun, TransitionRun
<1>30. ASSUME RecheckCancelled PROVE RowInv'
  BY <1>0, <1>i, <1>30 DEF RecheckCancelled, CanFinishAttempt, FinishAttempt
<1>31. ASSUME RecheckPassed PROVE RowInv'
  BY <1>0, <1>i, <1>31 DEF RecheckPassed, Goto
<1>32. ASSUME StartCommand PROVE RowInv'
  BY <1>0, <1>i, <1>32 DEF StartCommand, CanStartAttempt, StartAttempt
<1>33. ASSUME CommandCancelled PROVE RowInv'
  BY <1>0, <1>i, <1>33 DEF CommandCancelled, CanFinishAttempt, FinishAttempt
<1>34. ASSUME CommandObserved PROVE RowInv'
  BY <1>0, <1>i, <1>34 DEF CommandObserved, CanFinishAttempt, FinishAttempt
<1>35. ASSUME StartManual PROVE RowInv'
  BY <1>0, <1>i, <1>35 DEF StartManual, Goto, CanStartAttempt, StartAttempt,
     CanRequireOperator, CoordRequireOperator
<1>36. ASSUME OpenApply PROVE RowInv'
  BY <1>0, <1>i, <1>36 DEF OpenApply, Goto, CanTransitionRun, TransitionRun, Mutated
<1>37. ASSUME OpenOther PROVE RowInv'
  BY <1>0, <1>i, <1>37 DEF OpenOther, Goto, CanTransitionRun, TransitionRun
<1>38. ASSUME ManualCancelled PROVE RowInv'
  BY <1>0, <1>i, <1>38 DEF ManualCancelled, CanFinishAttempt, FinishAttempt
<1>39. ASSUME ManualAnswered PROVE RowInv'
  BY <1>0, <1>i, <1>39 DEF ManualAnswered, CanTransitionRun, TransitionRun,
     CoordOperatorAnswered
<1>40. ASSUME ManualObserved PROVE RowInv'
  BY <1>0, <1>i, <1>40 DEF ManualObserved, CanFinishAttempt, FinishAttempt
<1>41. ASSUME PhaseApplied PROVE RowInv'
  BY <1>0, <1>i, <1>41 DEF PhaseApplied, PhaseEnds, CanCompletePhase,
     CoordCompletePhase, CanTransitionStep, TransitionStep
<1>42. ASSUME PhaseNeedsApply PROVE RowInv'
  BY <1>0, <1>i, <1>42 DEF PhaseNeedsApply, PhaseEnds, CanCompletePhase,
     CoordCompletePhase, CanTransitionStep, TransitionStep
<1>43. ASSUME PhaseAssessed PROVE RowInv'
  BY <1>0, <1>i, <1>43 DEF PhaseAssessed, PhaseEnds, CanCompletePhase,
     CoordCompletePhase, CanTransitionStep, TransitionStep
<1>44. ASSUME PhaseSettles("compliant") PROVE RowInv'
  BY <1>0, <1>i, <1>44 DEF PhaseSettles, PhaseEnds, CanCompletePhase,
     CoordCompletePhase, CanTransitionStep, TransitionStep
<1>45. ASSUME PhaseSettles("verified") PROVE RowInv'
  BY <1>0, <1>i, <1>45 DEF PhaseSettles, PhaseEnds, CanCompletePhase,
     CoordCompletePhase, CanTransitionStep, TransitionStep
<1>46. ASSUME PhaseSettles("failed") PROVE RowInv'
  BY <1>0, <1>i, <1>46 DEF PhaseSettles, PhaseEnds, CanCompletePhase,
     CoordCompletePhase, CanTransitionStep, TransitionStep
<1>47. ASSUME PhaseSettles("unknown") PROVE RowInv'
  BY <1>0, <1>i, <1>47 DEF PhaseSettles, PhaseEnds, CanCompletePhase,
     CoordCompletePhase, CanTransitionStep, TransitionStep
<1>48. ASSUME SettleVerifies PROVE RowInv'
  BY <1>0, <1>i, <1>48 DEF SettleVerifies, SetRunCursor
<1>49. ASSUME SettleChecksOff PROVE RowInv'
  BY <1>0, <1>i, <1>49 DEF SettleChecksOff, SetRunCursor, Goto
<1>50. ASSUME SettlePauses("policy") PROVE RowInv'
  BY <1>0, <1>i, <1>50 DEF SettlePauses, Goto, CanTransitionRun, TransitionRun
<1>51. ASSUME SettlePauses("decide") PROVE RowInv'
  BY <1>0, <1>i, <1>51 DEF SettlePauses, Goto, CanTransitionRun, TransitionRun
<1>52. ASSUME Assess PROVE RowInv'
  BY <1>0, <1>i, <1>52 DEF Assess, Goto, CoordContinueAssessment, SetRunCursor
<1>53. ASSUME Settles("policy", "failed") PROVE RowInv'
  BY <1>0, <1>i, <1>53 DEF Settles, SettleAs, CoordSettleStep, CanResolveStep,
     CanSettleStep, SettleStep
<1>54. ASSUME Stops("policy") PROVE RowInv'
  BY <1>0, <1>i, <1>54 DEF Stops, SettleStopped, CoordStop, CanResolveStep,
     CanSettleStep, SettleStep
<1>55. ASSUME AwaitDecision PROVE RowInv'
  BY <1>0, <1>i, <1>55 DEF AwaitDecision, Goto
<1>56. ASSUME Retries PROVE RowInv'
  BY <1>0, <1>i, <1>56 DEF Retries, CoordSettleStep, ResetStepForRetry, CanResolveStep,
     CanSettleStep, SettleStep
<1>57. ASSUME Settles("deciding", "skipped") PROVE RowInv'
  BY <1>0, <1>i, <1>57 DEF Settles, SettleAs, CoordSettleStep, CanResolveStep,
     CanSettleStep, SettleStep
<1>58. ASSUME Settles("deciding", "waived") PROVE RowInv'
  BY <1>0, <1>i, <1>58 DEF Settles, SettleAs, CoordSettleStep, CanResolveStep,
     CanSettleStep, SettleStep
<1>59. ASSUME Stops("deciding") PROVE RowInv'
  BY <1>0, <1>i, <1>59 DEF Stops, SettleStopped, CoordStop, CanResolveStep,
     CanSettleStep, SettleStep
<1>60. ASSUME DecisionCancelled PROVE RowInv'
  BY <1>0, <1>i, <1>60 DEF DecisionCancelled, Goto
<1>61. ASSUME SummaryNext PROVE RowInv'
  BY <1>0, <1>i, <1>61 DEF SummaryNext, UpdateStepDetails
<1>62. ASSUME SummaryEnds PROVE RowInv'
  BY <1>0, <1>i, <1>62 DEF SummaryEnds, UpdateStepDetails
<1>63. ASSUME FinishCancelled PROVE RowInv'
  BY <1>0, <1>i, <1>63 DEF FinishCancelled, CancelPendingApprovals
<1>64. ASSUME MarkNothing PROVE RowInv'
  BY <1>0, <1>i, <1>64 DEF MarkNothing, Goto
<1>65. ASSUME NEW s \in Steps, MarkOne(s) PROVE RowInv'
  BY <1>0, <1>i, <1>65 DEF MarkOne, TransitionStep
<1>66. ASSUME WrapUp PROVE RowInv'
  BY <1>0, <1>i, <1>66 DEF WrapUp, Goto
<1>67. ASSUME Finalize PROVE RowInv'
  BY <1>0, <1>i, <1>67 DEF Finalize, Goto, CanFinalizeRun, FinalizeRun,
     CoordTransitionRun
<1>68. ASSUME EngineError PROVE RowInv'
  BY <1>0, <1>i, <1>68 DEF EngineError, Goto, Refused
<1>69. ASSUME Abort PROVE RowInv'
  BY <1>0, <1>i, <1>69 DEF Abort, Goto, CancelPendingApprovals
<1>70. ASSUME AbortedSteps PROVE RowInv'
  BY <1>0, <1>i, <1>70 DEF AbortedSteps, Goto
<1>71. ASSUME NEW s \in Steps, AbortOne(s) PROVE RowInv'
  BY <1>0, <1>i, <1>71 DEF AbortOne, TransitionStep
<1>72. ASSUME AbortFinalize PROVE RowInv'
  BY <1>0, <1>i, <1>72 DEF AbortFinalize, Goto, CanFinalizeRun, FinalizeRun, NoRun
<1>73. ASSUME Exit PROVE RowInv'
  BY <1>0, <1>i, <1>73 DEF Exit, NoEngine, Spawned, NoIO
<1>74. ASSUME RespondApproval PROVE RowInv'
  BY <1>0, <1>i, <1>74 DEF RespondApproval
<1>75. ASSUME Decide PROVE RowInv'
  BY <1>0, <1>i, <1>75 DEF Decide
<1>76. ASSUME SubmitManual PROVE RowInv'
  BY <1>0, <1>i, <1>76 DEF SubmitManual
<1>77. ASSUME CancelRead PROVE RowInv'
  BY <1>0, <1>i, <1>77 DEF CancelRead
<1>78. ASSUME CancelSignal PROVE RowInv'
  BY <1>0, <1>i, <1>78 DEF CancelSignal
<1>79. ASSUME CancelEnds PROVE RowInv'
  BY <1>0, <1>i, <1>79 DEF CancelEnds, CancelPendingApprovals, FinalizeRun, NoIO
<1>80. ASSUME CancelSettles PROVE RowInv'
  BY <1>0, <1>i, <1>80 DEF CancelSettles, CancelPendingApprovals
<1>81. ASSUME Resume PROVE RowInv'
  BY <1>0, <1>i, <1>81 DEF Resume, CanRebind, RebindInterruptedRun, Spawned
<1>82. ASSUME Claim PROVE RowInv'
  BY <1>0, <1>i, <1>82 DEF Claim
<1>83. ASSUME SubmitResult PROVE RowInv'
  BY <1>0, <1>i, <1>83 DEF SubmitResult
<1>84. ASSUME LeaseExpires PROVE RowInv'
  BY <1>0, <1>i, <1>84 DEF LeaseExpires
<1>85. ASSUME CloseTerminal PROVE RowInv'
  BY <1>0, <1>i, <1>85 DEF CloseTerminal
<1>86. ASSUME Crash PROVE RowInv'
  BY <1>0, <1>i, <1>86 DEF Crash, NoRun, NoEngine, Spawned, NoIO
<1>87. ASSUME RestartInterrupts PROVE RowInv'
  BY <1>0, <1>i, <1>87 DEF RestartInterrupts, InterruptActiveRuns
<1>88. ASSUME RestartAgain PROVE RowInv'
  BY <1>0, <1>i, <1>88 DEF RestartAgain
<1>r. ASSUME AbortRefused PROVE RowInv'
  BY <1>0, <1>i, <1>r DEF AbortRefused, Goto
<1>s. ASSUME UNCHANGED vars PROVE RowInv'
  BY <1>i, <1>s DEF vars
<1> HIDE DEF RowInv, EngineInv, Deciding, Terminal, Active, RunStatus, Ending,
        Database, Coordinator, Engine, Environment, Registries, InRange
<1> QED
  BY <1>r, <1>s, <1>1, <1>2, <1>3, <1>4, <1>5, <1>6, <1>7, <1>8, <1>9, <1>10, <1>11,
     <1>12, <1>13, <1>14, <1>15, <1>16, <1>17, <1>18, <1>19, <1>20, <1>21, <1>22, <1>23,
     <1>24, <1>25, <1>26, <1>27, <1>28, <1>29, <1>30, <1>31, <1>32, <1>33, <1>34, <1>35,
     <1>36, <1>37, <1>38, <1>39, <1>40, <1>41, <1>42, <1>43, <1>44, <1>45, <1>46, <1>47,
     <1>48, <1>49, <1>50, <1>51, <1>52, <1>53, <1>54, <1>55, <1>56, <1>57, <1>58, <1>59,
     <1>60, <1>61, <1>62, <1>63, <1>64, <1>65, <1>66, <1>67, <1>68, <1>69, <1>70, <1>71,
     <1>72, <1>73, <1>74, <1>75, <1>76, <1>77, <1>78, <1>79, <1>80, <1>81, <1>82, <1>83,
     <1>84, <1>85, <1>86, <1>87, <1>88 DEF OneStep

\* What the engine's locals say of its position.
LEMMA EngineStepInv == TypeInv /\ RunInv /\ OneStep => EngineInv'
<1> SUFFICES ASSUME TypeInv, RunInv, OneStep PROVE EngineInv'
  OBVIOUS
<1>0. /\ db \in Database /\ coord \in Coordinator /\ eng \in Engine /\ env \in Environment
      /\ io \in Registries /\ hist \in History /\ InRange
  BY DEF TypeInv, TypeOK
<1>i. RowInv /\ EngineInv /\ LeaseInv
  BY DEF RunInv
<1> USE DEF RowInv, EngineInv, LeaseInv, Deciding, Ending, Aborting, PhaseResult,
        Results, Phase, Database, Coordinator, Engine, Environment, Registries, InRange
<1>1. ASSUME RegisterNew PROVE EngineInv'
  BY <1>0, <1>i, <1>1 DEF RegisterNew, Goto, CanTransitionRun, TransitionRun,
     RegisterRun, NoRun
<1>2. ASSUME RegisterResumed PROVE EngineInv'
  BY <1>0, <1>i, <1>2 DEF RegisterResumed, Restored, RegisterRestoredRun, NoRun
<1>3. ASSUME Launch PROVE EngineInv'
  BY <1>0, <1>i, <1>3 DEF Launch, Goto, CanTransitionRun, TransitionRun,
     CoordTransitionRun
<1>4. ASSUME ProbeCancelled PROVE EngineInv'
  BY <1>0, <1>i, <1>4 DEF ProbeCancelled, Goto
<1>5. ASSUME ProbeLost PROVE EngineInv'
  BY <1>0, <1>i, <1>5 DEF ProbeLost, Goto, CoordTargetDrift
<1>6. ASSUME ProbeAsks PROVE EngineInv'
  BY <1>0, <1>i, <1>6 DEF ProbeAsks, CreateAttemptIntent
<1>7. ASSUME ChecklistDone PROVE EngineInv'
  BY <1>0, <1>i, <1>7 DEF ChecklistDone, StatusFromChecklist
<1>8. ASSUME NextCancelled PROVE EngineInv'
  BY <1>0, <1>i, <1>8 DEF NextCancelled, Goto
<1>9. ASSUME NextPassed PROVE EngineInv'
  BY <1>0, <1>i, <1>9 DEF NextPassed
<1>10. ASSUME NextBegins PROVE EngineInv'
  BY <1>0, <1>i, <1>10 DEF NextBegins
<1>11. ASSUME NextUncertain PROVE EngineInv'
  BY <1>0, <1>i, <1>11 DEF NextUncertain, CoordRequireOperator
<1>12. ASSUME BeginAgain PROVE EngineInv'
  BY <1>0, <1>i, <1>12 DEF BeginAgain, CanBeginPhase, CoordBeginPhase, SetRunCursor
<1>13. ASSUME BeginMoves PROVE EngineInv'
  BY <1>0, <1>i, <1>13 DEF BeginMoves, CanBeginPhase, CoordBeginPhase, TransitionStep
<1>14. ASSUME DispatchCancelled PROVE EngineInv'
  BY <1>0, <1>i, <1>14 DEF DispatchCancelled, Goto
<1>15. ASSUME DispatchAgent PROVE EngineInv'
  BY <1>0, <1>i, <1>15 DEF DispatchAgent
<1>16. ASSUME DispatchShell PROVE EngineInv'
  BY <1>0, <1>i, <1>16 DEF DispatchShell, CreateAttemptIntent
<1>17. ASSUME DispatchManual PROVE EngineInv'
  BY <1>0, <1>i, <1>17 DEF DispatchManual, CreateAttemptIntent
<1>18. ASSUME DriftFrom("dispatch") PROVE EngineInv'
  BY <1>0, <1>i, <1>18 DEF DriftFrom, CoordTargetDrift, CanTransitionStep,
     TransitionStep
<1>19. ASSUME DriftFrom("approved") PROVE EngineInv'
  BY <1>0, <1>i, <1>19 DEF DriftFrom, CoordTargetDrift, CanTransitionStep,
     TransitionStep
<1>20. ASSUME DriftFrom("manualTarget") PROVE EngineInv'
  BY <1>0, <1>i, <1>20 DEF DriftFrom, CoordTargetDrift, CanTransitionStep,
     TransitionStep
<1>21. ASSUME DriftRun PROVE EngineInv'
  BY <1>0, <1>i, <1>21 DEF DriftRun, Goto, CanTransitionRun, TransitionRun
<1>22. ASSUME DriftAttempt PROVE EngineInv'
  BY <1>0, <1>i, <1>22 DEF DriftAttempt, CanFinishAttempt, FinishAttempt
<1>23. ASSUME AskCoordinated PROVE EngineInv'
  BY <1>0, <1>i, <1>23 DEF AskCoordinated, Goto, CanRequestApproval,
     RequestApprovalAwaiting, CoordCanRequestApproval, CoordRequestApproval
<1>24. ASSUME AskRefused PROVE EngineInv'
  BY <1>0, <1>i, <1>24 DEF AskRefused, Goto, CanRequestApproval, RequestApprovalAwaiting
<1>25. ASSUME ApprovalCancelled PROVE EngineInv'
  BY <1>0, <1>i, <1>25 DEF ApprovalCancelled, CancelPendingApprovals
<1>26. ASSUME Approved PROVE EngineInv'
  BY <1>0, <1>i, <1>26 DEF Approved, Goto, CanResolveApproval, CanDecideApproval,
     CoordApprove, ApproveAndResume
<1>27. ASSUME Declined PROVE EngineInv'
  BY <1>0, <1>i, <1>27 DEF Declined, CanResolveApproval, CanDecideApproval,
     CoordDecline, DeclineApproval
<1>28. ASSUME DeclineStep PROVE EngineInv'
  BY <1>0, <1>i, <1>28 DEF DeclineStep, CanTransitionStep, TransitionStep
<1>29. ASSUME DeclineRun PROVE EngineInv'
  BY <1>0, <1>i, <1>29 DEF DeclineRun, Goto, CanTransitionRun, TransitionRun
<1>30. ASSUME RecheckCancelled PROVE EngineInv'
  BY <1>0, <1>i, <1>30 DEF RecheckCancelled, CanFinishAttempt, FinishAttempt
<1>31. ASSUME RecheckPassed PROVE EngineInv'
  BY <1>0, <1>i, <1>31 DEF RecheckPassed, Goto
<1>32. ASSUME StartCommand PROVE EngineInv'
  BY <1>0, <1>i, <1>32 DEF StartCommand, CanStartAttempt, StartAttempt
<1>33. ASSUME CommandCancelled PROVE EngineInv'
  BY <1>0, <1>i, <1>33 DEF CommandCancelled, CanFinishAttempt, FinishAttempt
<1>34. ASSUME CommandObserved PROVE EngineInv'
  BY <1>0, <1>i, <1>34 DEF CommandObserved, CanFinishAttempt, FinishAttempt
<1>35. ASSUME StartManual PROVE EngineInv'
  BY <1>0, <1>i, <1>35 DEF StartManual, Goto, CanStartAttempt, StartAttempt,
     CanRequireOperator, CoordRequireOperator
<1>36. ASSUME OpenApply PROVE EngineInv'
  BY <1>0, <1>i, <1>36 DEF OpenApply, Goto, CanTransitionRun, TransitionRun, Mutated
<1>37. ASSUME OpenOther PROVE EngineInv'
  BY <1>0, <1>i, <1>37 DEF OpenOther, Goto, CanTransitionRun, TransitionRun
<1>38. ASSUME ManualCancelled PROVE EngineInv'
  BY <1>0, <1>i, <1>38 DEF ManualCancelled, CanFinishAttempt, FinishAttempt
<1>39. ASSUME ManualAnswered PROVE EngineInv'
  BY <1>0, <1>i, <1>39 DEF ManualAnswered, CanTransitionRun, TransitionRun,
     CoordOperatorAnswered
<1>40. ASSUME ManualObserved PROVE EngineInv'
  BY <1>0, <1>i, <1>40 DEF ManualObserved, CanFinishAttempt, FinishAttempt
<1>41. ASSUME PhaseApplied PROVE EngineInv'
  BY <1>0, <1>i, <1>41 DEF PhaseApplied, PhaseEnds, CanCompletePhase,
     CoordCompletePhase, CanTransitionStep, TransitionStep
<1>42. ASSUME PhaseNeedsApply PROVE EngineInv'
  BY <1>0, <1>i, <1>42 DEF PhaseNeedsApply, PhaseEnds, CanCompletePhase,
     CoordCompletePhase, CanTransitionStep, TransitionStep
<1>43. ASSUME PhaseAssessed PROVE EngineInv'
  BY <1>0, <1>i, <1>43 DEF PhaseAssessed, PhaseEnds, CanCompletePhase,
     CoordCompletePhase, CanTransitionStep, TransitionStep
<1>44. ASSUME PhaseSettles("compliant") PROVE EngineInv'
  BY <1>0, <1>i, <1>44 DEF PhaseSettles, PhaseEnds, CanCompletePhase,
     CoordCompletePhase, CanTransitionStep, TransitionStep
<1>45. ASSUME PhaseSettles("verified") PROVE EngineInv'
  BY <1>0, <1>i, <1>45 DEF PhaseSettles, PhaseEnds, CanCompletePhase,
     CoordCompletePhase, CanTransitionStep, TransitionStep
<1>46. ASSUME PhaseSettles("failed") PROVE EngineInv'
  BY <1>0, <1>i, <1>46 DEF PhaseSettles, PhaseEnds, CanCompletePhase,
     CoordCompletePhase, CanTransitionStep, TransitionStep
<1>47. ASSUME PhaseSettles("unknown") PROVE EngineInv'
  BY <1>0, <1>i, <1>47 DEF PhaseSettles, PhaseEnds, CanCompletePhase,
     CoordCompletePhase, CanTransitionStep, TransitionStep
<1>48. ASSUME SettleVerifies PROVE EngineInv'
  BY <1>0, <1>i, <1>48 DEF SettleVerifies, SetRunCursor
<1>49. ASSUME SettleChecksOff PROVE EngineInv'
  BY <1>0, <1>i, <1>49 DEF SettleChecksOff, SetRunCursor, Goto
<1>50. ASSUME SettlePauses("policy") PROVE EngineInv'
  BY <1>0, <1>i, <1>50 DEF SettlePauses, Goto, CanTransitionRun, TransitionRun
<1>51. ASSUME SettlePauses("decide") PROVE EngineInv'
  BY <1>0, <1>i, <1>51 DEF SettlePauses, Goto, CanTransitionRun, TransitionRun
<1>52. ASSUME Assess PROVE EngineInv'
  BY <1>0, <1>i, <1>52 DEF Assess, Goto, CoordContinueAssessment, SetRunCursor
<1>53. ASSUME Settles("policy", "failed") PROVE EngineInv'
  BY <1>0, <1>i, <1>53 DEF Settles, SettleAs, CoordSettleStep, CanResolveStep,
     CanSettleStep, SettleStep
<1>54. ASSUME Stops("policy") PROVE EngineInv'
  BY <1>0, <1>i, <1>54 DEF Stops, SettleStopped, CoordStop, CanResolveStep,
     CanSettleStep, SettleStep
<1>55. ASSUME AwaitDecision PROVE EngineInv'
  BY <1>0, <1>i, <1>55 DEF AwaitDecision, Goto
<1>56. ASSUME Retries PROVE EngineInv'
  BY <1>0, <1>i, <1>56 DEF Retries, CoordSettleStep, ResetStepForRetry, CanResolveStep,
     CanSettleStep, SettleStep
<1>57. ASSUME Settles("deciding", "skipped") PROVE EngineInv'
  BY <1>0, <1>i, <1>57 DEF Settles, SettleAs, CoordSettleStep, CanResolveStep,
     CanSettleStep, SettleStep
<1>58. ASSUME Settles("deciding", "waived") PROVE EngineInv'
  BY <1>0, <1>i, <1>58 DEF Settles, SettleAs, CoordSettleStep, CanResolveStep,
     CanSettleStep, SettleStep
<1>59. ASSUME Stops("deciding") PROVE EngineInv'
  BY <1>0, <1>i, <1>59 DEF Stops, SettleStopped, CoordStop, CanResolveStep,
     CanSettleStep, SettleStep
<1>60. ASSUME DecisionCancelled PROVE EngineInv'
  BY <1>0, <1>i, <1>60 DEF DecisionCancelled, Goto
<1>61. ASSUME SummaryNext PROVE EngineInv'
  BY <1>0, <1>i, <1>61 DEF SummaryNext, UpdateStepDetails
<1>62. ASSUME SummaryEnds PROVE EngineInv'
  BY <1>0, <1>i, <1>62 DEF SummaryEnds, UpdateStepDetails
<1>63. ASSUME FinishCancelled PROVE EngineInv'
  BY <1>0, <1>i, <1>63 DEF FinishCancelled, CancelPendingApprovals
<1>64. ASSUME MarkNothing PROVE EngineInv'
  BY <1>0, <1>i, <1>64 DEF MarkNothing, Goto
<1>65. ASSUME NEW s \in Steps, MarkOne(s) PROVE EngineInv'
  BY <1>0, <1>i, <1>65 DEF MarkOne, TransitionStep
<1>66. ASSUME WrapUp PROVE EngineInv'
  BY <1>0, <1>i, <1>66 DEF WrapUp, Goto
<1>67. ASSUME Finalize PROVE EngineInv'
  BY <1>0, <1>i, <1>67 DEF Finalize, Goto, CanFinalizeRun, FinalizeRun,
     CoordTransitionRun
<1>68. ASSUME EngineError PROVE EngineInv'
  BY <1>0, <1>i, <1>68 DEF EngineError, Goto, Refused
<1>69. ASSUME Abort PROVE EngineInv'
  BY <1>0, <1>i, <1>69 DEF Abort, Goto, CancelPendingApprovals
<1>70. ASSUME AbortedSteps PROVE EngineInv'
  BY <1>0, <1>i, <1>70 DEF AbortedSteps, Goto
<1>71. ASSUME NEW s \in Steps, AbortOne(s) PROVE EngineInv'
  BY <1>0, <1>i, <1>71 DEF AbortOne, TransitionStep
<1>72. ASSUME AbortFinalize PROVE EngineInv'
  BY <1>0, <1>i, <1>72 DEF AbortFinalize, Goto, CanFinalizeRun, FinalizeRun, NoRun
<1>73. ASSUME Exit PROVE EngineInv'
  BY <1>0, <1>i, <1>73 DEF Exit, NoEngine, Spawned, NoIO
<1>74. ASSUME RespondApproval PROVE EngineInv'
  BY <1>0, <1>i, <1>74 DEF RespondApproval
<1>75. ASSUME Decide PROVE EngineInv'
  BY <1>0, <1>i, <1>75 DEF Decide
<1>76. ASSUME SubmitManual PROVE EngineInv'
  BY <1>0, <1>i, <1>76 DEF SubmitManual
<1>77. ASSUME CancelRead PROVE EngineInv'
  BY <1>0, <1>i, <1>77 DEF CancelRead
<1>78. ASSUME CancelSignal PROVE EngineInv'
  BY <1>0, <1>i, <1>78 DEF CancelSignal
<1>79. ASSUME CancelEnds PROVE EngineInv'
  BY <1>0, <1>i, <1>79 DEF CancelEnds, CancelPendingApprovals, FinalizeRun, NoIO
<1>80. ASSUME CancelSettles PROVE EngineInv'
  BY <1>0, <1>i, <1>80 DEF CancelSettles, CancelPendingApprovals
<1>81. ASSUME Resume PROVE EngineInv'
  BY <1>0, <1>i, <1>81 DEF Resume, CanRebind, RebindInterruptedRun, Spawned
<1>82. ASSUME Claim PROVE EngineInv'
  BY <1>0, <1>i, <1>82 DEF Claim
<1>83. ASSUME SubmitResult PROVE EngineInv'
  BY <1>0, <1>i, <1>83 DEF SubmitResult
<1>84. ASSUME LeaseExpires PROVE EngineInv'
  BY <1>0, <1>i, <1>84 DEF LeaseExpires
<1>85. ASSUME CloseTerminal PROVE EngineInv'
  BY <1>0, <1>i, <1>85 DEF CloseTerminal
<1>86. ASSUME Crash PROVE EngineInv'
  BY <1>0, <1>i, <1>86 DEF Crash, NoRun, NoEngine, Spawned, NoIO
<1>87. ASSUME RestartInterrupts PROVE EngineInv'
  BY <1>0, <1>i, <1>87 DEF RestartInterrupts, InterruptActiveRuns
<1>88. ASSUME RestartAgain PROVE EngineInv'
  BY <1>0, <1>i, <1>88 DEF RestartAgain
<1>r. ASSUME AbortRefused PROVE EngineInv'
  BY <1>0, <1>i, <1>r DEF AbortRefused, Goto
<1>s. ASSUME UNCHANGED vars PROVE EngineInv'
  BY <1>i, <1>s DEF vars
<1> HIDE DEF RowInv, EngineInv, LeaseInv, Deciding, Ending, Aborting, PhaseResult,
        Results, Phase, Database, Coordinator, Engine, Environment, Registries, InRange
<1> QED
  BY <1>r, <1>s, <1>1, <1>2, <1>3, <1>4, <1>5, <1>6, <1>7, <1>8, <1>9, <1>10, <1>11,
     <1>12, <1>13, <1>14, <1>15, <1>16, <1>17, <1>18, <1>19, <1>20, <1>21, <1>22, <1>23,
     <1>24, <1>25, <1>26, <1>27, <1>28, <1>29, <1>30, <1>31, <1>32, <1>33, <1>34, <1>35,
     <1>36, <1>37, <1>38, <1>39, <1>40, <1>41, <1>42, <1>43, <1>44, <1>45, <1>46, <1>47,
     <1>48, <1>49, <1>50, <1>51, <1>52, <1>53, <1>54, <1>55, <1>56, <1>57, <1>58, <1>59,
     <1>60, <1>61, <1>62, <1>63, <1>64, <1>65, <1>66, <1>67, <1>68, <1>69, <1>70, <1>71,
     <1>72, <1>73, <1>74, <1>75, <1>76, <1>77, <1>78, <1>79, <1>80, <1>81, <1>82, <1>83,
     <1>84, <1>85, <1>86, <1>87, <1>88 DEF OneStep

\* The coordinator's status and the two cursors follow the engine.
LEMMA CoordStep == TypeInv /\ RunInv /\ OneStep => CoordInv'
<1> SUFFICES ASSUME TypeInv, RunInv, OneStep PROVE CoordInv'
  OBVIOUS
<1>0. /\ db \in Database /\ coord \in Coordinator /\ eng \in Engine /\ env \in Environment
      /\ io \in Registries /\ hist \in History /\ InRange
  BY DEF TypeInv, TypeOK
<1>i. RowInv /\ EngineInv /\ CoordInv /\ StepInv /\ CopyInv
  BY DEF RunInv
<1> USE DEF RowInv, EngineInv, CoordInv, StepInv, CopyInv, Loaded, Followed,
        AtShell, AtManual, Ending, Aborting, OnStep, Deciding, Paused, Database,
        Coordinator, Engine, Environment, Registries, InRange
<1>1. ASSUME RegisterNew PROVE CoordInv'
  BY <1>0, <1>i, <1>1 DEF RegisterNew, Goto, CanTransitionRun, TransitionRun,
     RegisterRun, NoRun
<1>2. ASSUME RegisterResumed PROVE CoordInv'
  BY <1>0, <1>i, <1>2 DEF RegisterResumed, Restored, RegisterRestoredRun, NoRun
<1>3. ASSUME Launch PROVE CoordInv'
  BY <1>0, <1>i, <1>3 DEF Launch, Goto, CanTransitionRun, TransitionRun,
     CoordTransitionRun
<1>4. ASSUME ProbeCancelled PROVE CoordInv'
  BY <1>0, <1>i, <1>4 DEF ProbeCancelled, Goto
<1>5. ASSUME ProbeLost PROVE CoordInv'
  BY <1>0, <1>i, <1>5 DEF ProbeLost, Goto, CoordTargetDrift
<1>6. ASSUME ProbeAsks PROVE CoordInv'
  BY <1>0, <1>i, <1>6 DEF ProbeAsks, CreateAttemptIntent
<1>7. ASSUME ChecklistDone PROVE CoordInv'
  BY <1>0, <1>i, <1>7 DEF ChecklistDone, StatusFromChecklist
<1>8. ASSUME NextCancelled PROVE CoordInv'
  BY <1>0, <1>i, <1>8 DEF NextCancelled, Goto
<1>9. ASSUME NextPassed PROVE CoordInv'
  BY <1>0, <1>i, <1>9 DEF NextPassed
<1>10. ASSUME NextBegins PROVE CoordInv'
  BY <1>0, <1>i, <1>10 DEF NextBegins
<1>11. ASSUME NextUncertain PROVE CoordInv'
  BY <1>0, <1>i, <1>11 DEF NextUncertain, CoordRequireOperator
<1>12. ASSUME BeginAgain PROVE CoordInv'
  BY <1>0, <1>i, <1>12 DEF BeginAgain, CanBeginPhase, CoordBeginPhase, SetRunCursor
<1>13. ASSUME BeginMoves PROVE CoordInv'
  BY <1>0, <1>i, <1>13 DEF BeginMoves, CanBeginPhase, CoordBeginPhase, TransitionStep,
     PhaseForStep, StatusOfPhase, Phase
<1>14. ASSUME DispatchCancelled PROVE CoordInv'
  BY <1>0, <1>i, <1>14 DEF DispatchCancelled, Goto
<1>15. ASSUME DispatchAgent PROVE CoordInv'
  BY <1>0, <1>i, <1>15 DEF DispatchAgent
<1>16. ASSUME DispatchShell PROVE CoordInv'
  BY <1>0, <1>i, <1>16 DEF DispatchShell, CreateAttemptIntent
<1>17. ASSUME DispatchManual PROVE CoordInv'
  BY <1>0, <1>i, <1>17 DEF DispatchManual, CreateAttemptIntent
<1>18. ASSUME DriftFrom("dispatch") PROVE CoordInv'
  BY <1>0, <1>i, <1>18 DEF DriftFrom, CoordTargetDrift, CanTransitionStep,
     TransitionStep, Active
<1>19. ASSUME DriftFrom("approved") PROVE CoordInv'
  BY <1>0, <1>i, <1>19 DEF DriftFrom, CoordTargetDrift, CanTransitionStep,
     TransitionStep, Active
<1>20. ASSUME DriftFrom("manualTarget") PROVE CoordInv'
  BY <1>0, <1>i, <1>20 DEF DriftFrom, CoordTargetDrift, CanTransitionStep,
     TransitionStep, Active
<1>21. ASSUME DriftRun PROVE CoordInv'
  BY <1>0, <1>i, <1>21 DEF DriftRun, Goto, CanTransitionRun, TransitionRun
<1>22. ASSUME DriftAttempt PROVE CoordInv'
  BY <1>0, <1>i, <1>22 DEF DriftAttempt, CanFinishAttempt, FinishAttempt
<1>23. ASSUME AskCoordinated PROVE CoordInv'
  BY <1>0, <1>i, <1>23 DEF AskCoordinated, Goto, CanRequestApproval,
     RequestApprovalAwaiting, CoordCanRequestApproval, CoordRequestApproval
<1>24. ASSUME AskRefused PROVE CoordInv'
  BY <1>0, <1>i, <1>24 DEF AskRefused, Goto, CanRequestApproval, RequestApprovalAwaiting
<1>25. ASSUME ApprovalCancelled PROVE CoordInv'
  BY <1>0, <1>i, <1>25 DEF ApprovalCancelled, CancelPendingApprovals
<1>26. ASSUME Approved PROVE CoordInv'
  BY <1>0, <1>i, <1>26 DEF Approved, Goto, CanResolveApproval, CanDecideApproval,
     CoordApprove, ApproveAndResume
<1>27. ASSUME Declined PROVE CoordInv'
  BY <1>0, <1>i, <1>27 DEF Declined, CanResolveApproval, CanDecideApproval,
     CoordDecline, DeclineApproval
<1>28. ASSUME DeclineStep PROVE CoordInv'
  BY <1>0, <1>i, <1>28 DEF DeclineStep, CanTransitionStep, TransitionStep
<1>29. ASSUME DeclineRun PROVE CoordInv'
  BY <1>0, <1>i, <1>29 DEF DeclineRun, Goto, CanTransitionRun, TransitionRun
<1>30. ASSUME RecheckCancelled PROVE CoordInv'
  BY <1>0, <1>i, <1>30 DEF RecheckCancelled, CanFinishAttempt, FinishAttempt
<1>31. ASSUME RecheckPassed PROVE CoordInv'
  BY <1>0, <1>i, <1>31 DEF RecheckPassed, Goto
<1>32. ASSUME StartCommand PROVE CoordInv'
  BY <1>0, <1>i, <1>32 DEF StartCommand, CanStartAttempt, StartAttempt
<1>33. ASSUME CommandCancelled PROVE CoordInv'
  BY <1>0, <1>i, <1>33 DEF CommandCancelled, CanFinishAttempt, FinishAttempt
<1>34. ASSUME CommandObserved PROVE CoordInv'
  BY <1>0, <1>i, <1>34 DEF CommandObserved, CanFinishAttempt, FinishAttempt
<1>35. ASSUME StartManual PROVE CoordInv'
  BY <1>0, <1>i, <1>35 DEF StartManual, Goto, CanStartAttempt, StartAttempt,
     CanRequireOperator, CoordRequireOperator
<1>36. ASSUME OpenApply PROVE CoordInv'
  BY <1>0, <1>i, <1>36 DEF OpenApply, Goto, CanTransitionRun, TransitionRun, Mutated
<1>37. ASSUME OpenOther PROVE CoordInv'
  BY <1>0, <1>i, <1>37 DEF OpenOther, Goto, CanTransitionRun, TransitionRun
<1>38. ASSUME ManualCancelled PROVE CoordInv'
  BY <1>0, <1>i, <1>38 DEF ManualCancelled, CanFinishAttempt, FinishAttempt
<1>39. ASSUME ManualAnswered PROVE CoordInv'
  BY <1>0, <1>i, <1>39 DEF ManualAnswered, CanTransitionRun, TransitionRun,
     CoordOperatorAnswered
<1>40. ASSUME ManualObserved PROVE CoordInv'
  BY <1>0, <1>i, <1>40 DEF ManualObserved, CanFinishAttempt, FinishAttempt
<1>41. ASSUME PhaseApplied PROVE CoordInv'
  BY <1>0, <1>i, <1>41 DEF PhaseApplied, PhaseEnds, CanCompletePhase,
     CoordCompletePhase, CanTransitionStep, TransitionStep, StatusAfter, Checked
<1>42. ASSUME PhaseNeedsApply PROVE CoordInv'
  BY <1>0, <1>i, <1>42 DEF PhaseNeedsApply, PhaseEnds, CanCompletePhase,
     CoordCompletePhase, CanTransitionStep, TransitionStep, StatusAfter, Checked
<1>43. ASSUME PhaseAssessed PROVE CoordInv'
  BY <1>0, <1>i, <1>43 DEF PhaseAssessed, PhaseEnds, CanCompletePhase,
     CoordCompletePhase, CanTransitionStep, TransitionStep, StatusAfter, Checked
<1>44. ASSUME PhaseSettles("compliant") PROVE CoordInv'
  BY <1>0, <1>i, <1>44 DEF PhaseSettles, PhaseEnds, CanCompletePhase,
     CoordCompletePhase, CanTransitionStep, TransitionStep, StatusAfter, Checked
<1>45. ASSUME PhaseSettles("verified") PROVE CoordInv'
  BY <1>0, <1>i, <1>45 DEF PhaseSettles, PhaseEnds, CanCompletePhase,
     CoordCompletePhase, CanTransitionStep, TransitionStep, StatusAfter, Checked
<1>46. ASSUME PhaseSettles("failed") PROVE CoordInv'
  BY <1>0, <1>i, <1>46 DEF PhaseSettles, PhaseEnds, CanCompletePhase,
     CoordCompletePhase, CanTransitionStep, TransitionStep, StatusAfter, Checked
<1>47. ASSUME PhaseSettles("unknown") PROVE CoordInv'
  BY <1>0, <1>i, <1>47 DEF PhaseSettles, PhaseEnds, CanCompletePhase,
     CoordCompletePhase, CanTransitionStep, TransitionStep, StatusAfter, Checked
<1>48. ASSUME SettleVerifies PROVE CoordInv'
  BY <1>0, <1>i, <1>48 DEF SettleVerifies, SetRunCursor
<1>49. ASSUME SettleChecksOff PROVE CoordInv'
  BY <1>0, <1>i, <1>49 DEF SettleChecksOff, SetRunCursor, Goto
<1>50. ASSUME SettlePauses("policy") PROVE CoordInv'
  BY <1>0, <1>i, <1>50 DEF SettlePauses, Goto, CanTransitionRun, TransitionRun
<1>51. ASSUME SettlePauses("decide") PROVE CoordInv'
  BY <1>0, <1>i, <1>51 DEF SettlePauses, Goto, CanTransitionRun, TransitionRun
<1>52. ASSUME Assess PROVE CoordInv'
  BY <1>0, <1>i, <1>52 DEF Assess, Goto, CoordContinueAssessment, SetRunCursor
<1>53. ASSUME Settles("policy", "failed") PROVE CoordInv'
  BY <1>0, <1>i, <1>53 DEF Settles, SettleAs, CoordSettleStep, CanResolveStep,
     CanSettleStep, SettleStep
<1>54. ASSUME Stops("policy") PROVE CoordInv'
  BY <1>0, <1>i, <1>54 DEF Stops, SettleStopped, CoordStop, CanResolveStep,
     CanSettleStep, SettleStep
<1>55. ASSUME AwaitDecision PROVE CoordInv'
  BY <1>0, <1>i, <1>55 DEF AwaitDecision, Goto
<1>56. ASSUME Retries PROVE CoordInv'
  BY <1>0, <1>i, <1>56 DEF Retries, CoordSettleStep, ResetStepForRetry, CanResolveStep,
     CanSettleStep, SettleStep
<1>57. ASSUME Settles("deciding", "skipped") PROVE CoordInv'
  BY <1>0, <1>i, <1>57 DEF Settles, SettleAs, CoordSettleStep, CanResolveStep,
     CanSettleStep, SettleStep
<1>58. ASSUME Settles("deciding", "waived") PROVE CoordInv'
  BY <1>0, <1>i, <1>58 DEF Settles, SettleAs, CoordSettleStep, CanResolveStep,
     CanSettleStep, SettleStep
<1>59. ASSUME Stops("deciding") PROVE CoordInv'
  BY <1>0, <1>i, <1>59 DEF Stops, SettleStopped, CoordStop, CanResolveStep,
     CanSettleStep, SettleStep
<1>60. ASSUME DecisionCancelled PROVE CoordInv'
  BY <1>0, <1>i, <1>60 DEF DecisionCancelled, Goto
<1>61. ASSUME SummaryNext PROVE CoordInv'
  BY <1>0, <1>i, <1>61 DEF SummaryNext, UpdateStepDetails
<1>62. ASSUME SummaryEnds PROVE CoordInv'
  BY <1>0, <1>i, <1>62 DEF SummaryEnds, UpdateStepDetails
<1>63. ASSUME FinishCancelled PROVE CoordInv'
  BY <1>0, <1>i, <1>63 DEF FinishCancelled, CancelPendingApprovals
<1>64. ASSUME MarkNothing PROVE CoordInv'
  BY <1>0, <1>i, <1>64 DEF MarkNothing, Goto
<1>65. ASSUME NEW s \in Steps, MarkOne(s) PROVE CoordInv'
  BY <1>0, <1>i, <1>65 DEF MarkOne, TransitionStep
<1>66. ASSUME WrapUp PROVE CoordInv'
  BY <1>0, <1>i, <1>66 DEF WrapUp, Goto
<1>67. ASSUME Finalize PROVE CoordInv'
  BY <1>0, <1>i, <1>67 DEF Finalize, Goto, CanFinalizeRun, FinalizeRun,
     CoordTransitionRun
<1>68. ASSUME EngineError PROVE CoordInv'
  BY <1>0, <1>i, <1>68 DEF EngineError, Goto, Refused
<1>69. ASSUME Abort PROVE CoordInv'
  BY <1>0, <1>i, <1>69 DEF Abort, Goto, CancelPendingApprovals
<1>70. ASSUME AbortedSteps PROVE CoordInv'
  BY <1>0, <1>i, <1>70 DEF AbortedSteps, Goto
<1>71. ASSUME NEW s \in Steps, AbortOne(s) PROVE CoordInv'
  BY <1>0, <1>i, <1>71 DEF AbortOne, TransitionStep
<1>72. ASSUME AbortFinalize PROVE CoordInv'
  BY <1>0, <1>i, <1>72 DEF AbortFinalize, Goto, CanFinalizeRun, FinalizeRun, NoRun
<1>73. ASSUME Exit PROVE CoordInv'
  BY <1>0, <1>i, <1>73 DEF Exit, NoEngine, Spawned, NoIO
<1>74. ASSUME RespondApproval PROVE CoordInv'
  BY <1>0, <1>i, <1>74 DEF RespondApproval
<1>75. ASSUME Decide PROVE CoordInv'
  BY <1>0, <1>i, <1>75 DEF Decide
<1>76. ASSUME SubmitManual PROVE CoordInv'
  BY <1>0, <1>i, <1>76 DEF SubmitManual
<1>77. ASSUME CancelRead PROVE CoordInv'
  BY <1>0, <1>i, <1>77 DEF CancelRead
<1>78. ASSUME CancelSignal PROVE CoordInv'
  BY <1>0, <1>i, <1>78 DEF CancelSignal
<1>79. ASSUME CancelEnds PROVE CoordInv'
  BY <1>0, <1>i, <1>79 DEF CancelEnds, CancelPendingApprovals, FinalizeRun, NoIO
<1>80. ASSUME CancelSettles PROVE CoordInv'
  BY <1>0, <1>i, <1>80 DEF CancelSettles, CancelPendingApprovals
<1>81. ASSUME Resume PROVE CoordInv'
  BY <1>0, <1>i, <1>81 DEF Resume, CanRebind, RebindInterruptedRun, Spawned
<1>82. ASSUME Claim PROVE CoordInv'
  BY <1>0, <1>i, <1>82 DEF Claim
<1>83. ASSUME SubmitResult PROVE CoordInv'
  BY <1>0, <1>i, <1>83 DEF SubmitResult
<1>84. ASSUME LeaseExpires PROVE CoordInv'
  BY <1>0, <1>i, <1>84 DEF LeaseExpires
<1>85. ASSUME CloseTerminal PROVE CoordInv'
  BY <1>0, <1>i, <1>85 DEF CloseTerminal
<1>86. ASSUME Crash PROVE CoordInv'
  BY <1>0, <1>i, <1>86 DEF Crash, NoRun, NoEngine, Spawned, NoIO
<1>87. ASSUME RestartInterrupts PROVE CoordInv'
  BY <1>0, <1>i, <1>87 DEF RestartInterrupts, InterruptActiveRuns
<1>88. ASSUME RestartAgain PROVE CoordInv'
  BY <1>0, <1>i, <1>88 DEF RestartAgain
<1>r. ASSUME AbortRefused PROVE CoordInv'
  BY <1>0, <1>i, <1>r DEF AbortRefused, Goto
<1>s. ASSUME UNCHANGED vars PROVE CoordInv'
  BY <1>i, <1>s DEF vars
<1> HIDE DEF RowInv, EngineInv, CoordInv, StepInv, CopyInv, Loaded, Followed,
        AtShell, AtManual, Ending, Aborting, OnStep, Deciding, Paused, Database,
        Coordinator, Engine, Environment, Registries, InRange
<1> QED
  BY <1>r, <1>s, <1>1, <1>2, <1>3, <1>4, <1>5, <1>6, <1>7, <1>8, <1>9, <1>10, <1>11,
     <1>12, <1>13, <1>14, <1>15, <1>16, <1>17, <1>18, <1>19, <1>20, <1>21, <1>22, <1>23,
     <1>24, <1>25, <1>26, <1>27, <1>28, <1>29, <1>30, <1>31, <1>32, <1>33, <1>34, <1>35,
     <1>36, <1>37, <1>38, <1>39, <1>40, <1>41, <1>42, <1>43, <1>44, <1>45, <1>46, <1>47,
     <1>48, <1>49, <1>50, <1>51, <1>52, <1>53, <1>54, <1>55, <1>56, <1>57, <1>58, <1>59,
     <1>60, <1>61, <1>62, <1>63, <1>64, <1>65, <1>66, <1>67, <1>68, <1>69, <1>70, <1>71,
     <1>72, <1>73, <1>74, <1>75, <1>76, <1>77, <1>78, <1>79, <1>80, <1>81, <1>82, <1>83,
     <1>84, <1>85, <1>86, <1>87, <1>88 DEF OneStep

\* The step that is worked on has the status of the engine's position.
LEMMA StepStep == TypeInv /\ RunInv /\ OneStep => StepInv'
<1> SUFFICES ASSUME TypeInv, RunInv, OneStep PROVE StepInv'
  OBVIOUS
<1>0. /\ db \in Database /\ coord \in Coordinator /\ eng \in Engine /\ env \in Environment
      /\ io \in Registries /\ hist \in History /\ InRange
  BY DEF TypeInv, TypeOK
<1>i. RowInv /\ EngineInv /\ CoordInv /\ StepInv /\ CopyInv
  BY DEF RunInv
<1> USE DEF RowInv, EngineInv, CoordInv, StepInv, CopyInv, Loaded, Followed,
        Settled, Kinds, AtShell, AtManual, Ending, Aborting, OnStep, Deciding,
        Paused, Database, Coordinator, Engine, Environment, Registries, InRange
<1>1. ASSUME RegisterNew PROVE StepInv'
  BY <1>0, <1>i, <1>1 DEF RegisterNew, Goto, CanTransitionRun, TransitionRun,
     RegisterRun, NoRun
<1>2. ASSUME RegisterResumed PROVE StepInv'
  BY <1>0, <1>i, <1>2 DEF RegisterResumed, Restored, RegisterRestoredRun, NoRun
<1>3. ASSUME Launch PROVE StepInv'
  BY <1>0, <1>i, <1>3 DEF Launch, Goto, CanTransitionRun, TransitionRun,
     CoordTransitionRun
<1>4. ASSUME ProbeCancelled PROVE StepInv'
  BY <1>0, <1>i, <1>4 DEF ProbeCancelled, Goto
<1>5. ASSUME ProbeLost PROVE StepInv'
  BY <1>0, <1>i, <1>5 DEF ProbeLost, Goto, CoordTargetDrift
<1>6. ASSUME ProbeAsks PROVE StepInv'
  BY <1>0, <1>i, <1>6 DEF ProbeAsks, CreateAttemptIntent
<1>7. ASSUME ChecklistDone PROVE StepInv'
  BY <1>0, <1>i, <1>7 DEF ChecklistDone, StatusFromChecklist
<1>8. ASSUME NextCancelled PROVE StepInv'
  BY <1>0, <1>i, <1>8 DEF NextCancelled, Goto
<1>9. ASSUME NextPassed PROVE StepInv'
  BY <1>0, <1>i, <1>9 DEF NextPassed
<1>10. ASSUME NextBegins PROVE StepInv'
  BY <1>0, <1>i, <1>10 DEF NextBegins
<1>11. ASSUME NextUncertain PROVE StepInv'
  BY <1>0, <1>i, <1>11 DEF NextUncertain, CoordRequireOperator
<1>12. ASSUME BeginAgain PROVE StepInv'
  BY <1>0, <1>i, <1>12 DEF BeginAgain, CanBeginPhase, CoordBeginPhase, SetRunCursor
<1>13. ASSUME BeginMoves PROVE StepInv'
  BY <1>0, <1>i, <1>13 DEF BeginMoves, CanBeginPhase, CoordBeginPhase, TransitionStep
<1>14. ASSUME DispatchCancelled PROVE StepInv'
  BY <1>0, <1>i, <1>14 DEF DispatchCancelled, Goto
<1>15. ASSUME DispatchAgent PROVE StepInv'
  BY <1>0, <1>i, <1>15 DEF DispatchAgent
<1>16. ASSUME DispatchShell PROVE StepInv'
  BY <1>0, <1>i, <1>16 DEF DispatchShell, CreateAttemptIntent
<1>17. ASSUME DispatchManual PROVE StepInv'
  BY <1>0, <1>i, <1>17 DEF DispatchManual, CreateAttemptIntent
<1>18. ASSUME DriftFrom("dispatch") PROVE StepInv'
  BY <1>0, <1>i, <1>18 DEF DriftFrom, CoordTargetDrift, CanTransitionStep,
     TransitionStep
<1>19. ASSUME DriftFrom("approved") PROVE StepInv'
  BY <1>0, <1>i, <1>19 DEF DriftFrom, CoordTargetDrift, CanTransitionStep,
     TransitionStep
<1>20. ASSUME DriftFrom("manualTarget") PROVE StepInv'
  BY <1>0, <1>i, <1>20 DEF DriftFrom, CoordTargetDrift, CanTransitionStep,
     TransitionStep
<1>21. ASSUME DriftRun PROVE StepInv'
  BY <1>0, <1>i, <1>21 DEF DriftRun, Goto, CanTransitionRun, TransitionRun
<1>22. ASSUME DriftAttempt PROVE StepInv'
  BY <1>0, <1>i, <1>22 DEF DriftAttempt, CanFinishAttempt, FinishAttempt
<1>23. ASSUME AskCoordinated PROVE StepInv'
  BY <1>0, <1>i, <1>23 DEF AskCoordinated, Goto, CanRequestApproval,
     RequestApprovalAwaiting, CoordCanRequestApproval, CoordRequestApproval
<1>24. ASSUME AskRefused PROVE StepInv'
  BY <1>0, <1>i, <1>24 DEF AskRefused, Goto, CanRequestApproval, RequestApprovalAwaiting
<1>25. ASSUME ApprovalCancelled PROVE StepInv'
  BY <1>0, <1>i, <1>25 DEF ApprovalCancelled, CancelPendingApprovals
<1>26. ASSUME Approved PROVE StepInv'
  BY <1>0, <1>i, <1>26 DEF Approved, Goto, CanResolveApproval, CanDecideApproval,
     CoordApprove, ApproveAndResume
<1>27. ASSUME Declined PROVE StepInv'
  BY <1>0, <1>i, <1>27 DEF Declined, CanResolveApproval, CanDecideApproval,
     CoordDecline, DeclineApproval, InPhase, StatusOfPhase, Phase
<1>28. ASSUME DeclineStep PROVE StepInv'
  BY <1>0, <1>i, <1>28 DEF DeclineStep, CanTransitionStep, TransitionStep
<1>29. ASSUME DeclineRun PROVE StepInv'
  BY <1>0, <1>i, <1>29 DEF DeclineRun, Goto, CanTransitionRun, TransitionRun
<1>30. ASSUME RecheckCancelled PROVE StepInv'
  BY <1>0, <1>i, <1>30 DEF RecheckCancelled, CanFinishAttempt, FinishAttempt
<1>31. ASSUME RecheckPassed PROVE StepInv'
  BY <1>0, <1>i, <1>31 DEF RecheckPassed, Goto
<1>32. ASSUME StartCommand PROVE StepInv'
  BY <1>0, <1>i, <1>32 DEF StartCommand, CanStartAttempt, StartAttempt
<1>33. ASSUME CommandCancelled PROVE StepInv'
  BY <1>0, <1>i, <1>33 DEF CommandCancelled, CanFinishAttempt, FinishAttempt
<1>34. ASSUME CommandObserved PROVE StepInv'
  BY <1>0, <1>i, <1>34 DEF CommandObserved, CanFinishAttempt, FinishAttempt
<1>35. ASSUME StartManual PROVE StepInv'
  BY <1>0, <1>i, <1>35 DEF StartManual, Goto, CanStartAttempt, StartAttempt,
     CanRequireOperator, CoordRequireOperator
<1>36. ASSUME OpenApply PROVE StepInv'
  BY <1>0, <1>i, <1>36 DEF OpenApply, Goto, CanTransitionRun, TransitionRun, Mutated
<1>37. ASSUME OpenOther PROVE StepInv'
  BY <1>0, <1>i, <1>37 DEF OpenOther, Goto, CanTransitionRun, TransitionRun
<1>38. ASSUME ManualCancelled PROVE StepInv'
  BY <1>0, <1>i, <1>38 DEF ManualCancelled, CanFinishAttempt, FinishAttempt
<1>39. ASSUME ManualAnswered PROVE StepInv'
  BY <1>0, <1>i, <1>39 DEF ManualAnswered, CanTransitionRun, TransitionRun,
     CoordOperatorAnswered
<1>40. ASSUME ManualObserved PROVE StepInv'
  BY <1>0, <1>i, <1>40 DEF ManualObserved, CanFinishAttempt, FinishAttempt
<1>41. ASSUME PhaseApplied PROVE StepInv'
  BY <1>0, <1>i, <1>41 DEF PhaseApplied, PhaseEnds, CanCompletePhase,
     CoordCompletePhase, CanTransitionStep, TransitionStep
<1>42. ASSUME PhaseNeedsApply PROVE StepInv'
  BY <1>0, <1>i, <1>42 DEF PhaseNeedsApply, PhaseEnds, CanCompletePhase,
     CoordCompletePhase, CanTransitionStep, TransitionStep
<1>43. ASSUME PhaseAssessed PROVE StepInv'
  BY <1>0, <1>i, <1>43 DEF PhaseAssessed, PhaseEnds, CanCompletePhase,
     CoordCompletePhase, CanTransitionStep, TransitionStep, StatusAfter
<1>44. ASSUME PhaseSettles("compliant") PROVE StepInv'
  BY <1>0, <1>i, <1>44 DEF PhaseSettles, PhaseEnds, CanCompletePhase,
     CoordCompletePhase, CanTransitionStep, TransitionStep
<1>45. ASSUME PhaseSettles("verified") PROVE StepInv'
  BY <1>0, <1>i, <1>45 DEF PhaseSettles, PhaseEnds, CanCompletePhase,
     CoordCompletePhase, CanTransitionStep, TransitionStep
<1>46. ASSUME PhaseSettles("failed") PROVE StepInv'
  BY <1>0, <1>i, <1>46 DEF PhaseSettles, PhaseEnds, CanCompletePhase,
     CoordCompletePhase, CanTransitionStep, TransitionStep
<1>47. ASSUME PhaseSettles("unknown") PROVE StepInv'
  BY <1>0, <1>i, <1>47 DEF PhaseSettles, PhaseEnds, CanCompletePhase,
     CoordCompletePhase, CanTransitionStep, TransitionStep
<1>48. ASSUME SettleVerifies PROVE StepInv'
  BY <1>0, <1>i, <1>48 DEF SettleVerifies, SetRunCursor
<1>49. ASSUME SettleChecksOff PROVE StepInv'
  BY <1>0, <1>i, <1>49 DEF SettleChecksOff, SetRunCursor, Goto, StatusAfter, Checked
<1>50. ASSUME SettlePauses("policy") PROVE StepInv'
  BY <1>0, <1>i, <1>50 DEF SettlePauses, Goto, CanTransitionRun, TransitionRun,
     StatusAfter, Checked
<1>51. ASSUME SettlePauses("decide") PROVE StepInv'
  BY <1>0, <1>i, <1>51 DEF SettlePauses, Goto, CanTransitionRun, TransitionRun,
     StatusAfter, Checked
<1>52. ASSUME Assess PROVE StepInv'
  BY <1>0, <1>i, <1>52 DEF Assess, Goto, CoordContinueAssessment, SetRunCursor
<1>53. ASSUME Settles("policy", "failed") PROVE StepInv'
  BY <1>0, <1>i, <1>53 DEF Settles, SettleAs, CoordSettleStep, CanResolveStep,
     CanSettleStep, SettleStep
<1>54. ASSUME Stops("policy") PROVE StepInv'
  BY <1>0, <1>i, <1>54 DEF Stops, SettleStopped, CoordStop, CanResolveStep,
     CanSettleStep, SettleStep
<1>55. ASSUME AwaitDecision PROVE StepInv'
  BY <1>0, <1>i, <1>55 DEF AwaitDecision, Goto
<1>56. ASSUME Retries PROVE StepInv'
  BY <1>0, <1>i, <1>56 DEF Retries, CoordSettleStep, ResetStepForRetry, CanResolveStep,
     CanSettleStep, SettleStep
<1>57. ASSUME Settles("deciding", "skipped") PROVE StepInv'
  BY <1>0, <1>i, <1>57 DEF Settles, SettleAs, CoordSettleStep, CanResolveStep,
     CanSettleStep, SettleStep
<1>58. ASSUME Settles("deciding", "waived") PROVE StepInv'
  BY <1>0, <1>i, <1>58 DEF Settles, SettleAs, CoordSettleStep, CanResolveStep,
     CanSettleStep, SettleStep
<1>59. ASSUME Stops("deciding") PROVE StepInv'
  BY <1>0, <1>i, <1>59 DEF Stops, SettleStopped, CoordStop, CanResolveStep,
     CanSettleStep, SettleStep
<1>60. ASSUME DecisionCancelled PROVE StepInv'
  BY <1>0, <1>i, <1>60 DEF DecisionCancelled, Goto
<1>61. ASSUME SummaryNext PROVE StepInv'
  BY <1>0, <1>i, <1>61 DEF SummaryNext, UpdateStepDetails
<1>62. ASSUME SummaryEnds PROVE StepInv'
  BY <1>0, <1>i, <1>62 DEF SummaryEnds, UpdateStepDetails
<1>63. ASSUME FinishCancelled PROVE StepInv'
  BY <1>0, <1>i, <1>63 DEF FinishCancelled, CancelPendingApprovals
<1>64. ASSUME MarkNothing PROVE StepInv'
  BY <1>0, <1>i, <1>64 DEF MarkNothing, Goto
<1>65. ASSUME NEW s \in Steps, MarkOne(s) PROVE StepInv'
  BY <1>0, <1>i, <1>65 DEF MarkOne, TransitionStep
<1>66. ASSUME WrapUp PROVE StepInv'
  BY <1>0, <1>i, <1>66 DEF WrapUp, Goto
<1>67. ASSUME Finalize PROVE StepInv'
  BY <1>0, <1>i, <1>67 DEF Finalize, Goto, CanFinalizeRun, FinalizeRun,
     CoordTransitionRun
<1>68. ASSUME EngineError PROVE StepInv'
  BY <1>0, <1>i, <1>68 DEF EngineError, Goto, Refused
<1>69. ASSUME Abort PROVE StepInv'
  BY <1>0, <1>i, <1>69 DEF Abort, Goto, CancelPendingApprovals
<1>70. ASSUME AbortedSteps PROVE StepInv'
  BY <1>0, <1>i, <1>70 DEF AbortedSteps, Goto
<1>71. ASSUME NEW s \in Steps, AbortOne(s) PROVE StepInv'
  BY <1>0, <1>i, <1>71 DEF AbortOne, TransitionStep
<1>72. ASSUME AbortFinalize PROVE StepInv'
  BY <1>0, <1>i, <1>72 DEF AbortFinalize, Goto, CanFinalizeRun, FinalizeRun, NoRun
<1>73. ASSUME Exit PROVE StepInv'
  BY <1>0, <1>i, <1>73 DEF Exit, NoEngine, Spawned, NoIO
<1>74. ASSUME RespondApproval PROVE StepInv'
  BY <1>0, <1>i, <1>74 DEF RespondApproval
<1>75. ASSUME Decide PROVE StepInv'
  BY <1>0, <1>i, <1>75 DEF Decide
<1>76. ASSUME SubmitManual PROVE StepInv'
  BY <1>0, <1>i, <1>76 DEF SubmitManual
<1>77. ASSUME CancelRead PROVE StepInv'
  BY <1>0, <1>i, <1>77 DEF CancelRead
<1>78. ASSUME CancelSignal PROVE StepInv'
  BY <1>0, <1>i, <1>78 DEF CancelSignal
<1>79. ASSUME CancelEnds PROVE StepInv'
  BY <1>0, <1>i, <1>79 DEF CancelEnds, CancelPendingApprovals, FinalizeRun, NoIO
<1>80. ASSUME CancelSettles PROVE StepInv'
  BY <1>0, <1>i, <1>80 DEF CancelSettles, CancelPendingApprovals
<1>81. ASSUME Resume PROVE StepInv'
  BY <1>0, <1>i, <1>81 DEF Resume, CanRebind, RebindInterruptedRun, Spawned
<1>82. ASSUME Claim PROVE StepInv'
  BY <1>0, <1>i, <1>82 DEF Claim
<1>83. ASSUME SubmitResult PROVE StepInv'
  BY <1>0, <1>i, <1>83 DEF SubmitResult
<1>84. ASSUME LeaseExpires PROVE StepInv'
  BY <1>0, <1>i, <1>84 DEF LeaseExpires
<1>85. ASSUME CloseTerminal PROVE StepInv'
  BY <1>0, <1>i, <1>85 DEF CloseTerminal
<1>86. ASSUME Crash PROVE StepInv'
  BY <1>0, <1>i, <1>86 DEF Crash, NoRun, NoEngine, Spawned, NoIO
<1>87. ASSUME RestartInterrupts PROVE StepInv'
  BY <1>0, <1>i, <1>87 DEF RestartInterrupts, InterruptActiveRuns
<1>88. ASSUME RestartAgain PROVE StepInv'
  BY <1>0, <1>i, <1>88 DEF RestartAgain
<1>r. ASSUME AbortRefused PROVE StepInv'
  BY <1>0, <1>i, <1>r DEF AbortRefused, Goto
<1>s. ASSUME UNCHANGED vars PROVE StepInv'
  BY <1>i, <1>s DEF vars
<1> HIDE DEF RowInv, EngineInv, CoordInv, StepInv, CopyInv, Loaded, Followed,
        Settled, Kinds, AtShell, AtManual, Ending, Aborting, OnStep, Deciding,
        Paused, Database, Coordinator, Engine, Environment, Registries, InRange
<1> QED
  BY <1>r, <1>s, <1>1, <1>2, <1>3, <1>4, <1>5, <1>6, <1>7, <1>8, <1>9, <1>10, <1>11,
     <1>12, <1>13, <1>14, <1>15, <1>16, <1>17, <1>18, <1>19, <1>20, <1>21, <1>22, <1>23,
     <1>24, <1>25, <1>26, <1>27, <1>28, <1>29, <1>30, <1>31, <1>32, <1>33, <1>34, <1>35,
     <1>36, <1>37, <1>38, <1>39, <1>40, <1>41, <1>42, <1>43, <1>44, <1>45, <1>46, <1>47,
     <1>48, <1>49, <1>50, <1>51, <1>52, <1>53, <1>54, <1>55, <1>56, <1>57, <1>58, <1>59,
     <1>60, <1>61, <1>62, <1>63, <1>64, <1>65, <1>66, <1>67, <1>68, <1>69, <1>70, <1>71,
     <1>72, <1>73, <1>74, <1>75, <1>76, <1>77, <1>78, <1>79, <1>80, <1>81, <1>82, <1>83,
     <1>84, <1>85, <1>86, <1>87, <1>88 DEF OneStep

\* The list in memory and the coordinator's statuses are copies of the rows.
LEMMA CopyStep == TypeInv /\ RunInv /\ OneStep => CopyInv'
<1> SUFFICES ASSUME TypeInv, RunInv, OneStep PROVE CopyInv'
  OBVIOUS
<1>0. /\ db \in Database /\ coord \in Coordinator /\ eng \in Engine /\ env \in Environment
      /\ io \in Registries /\ hist \in History /\ InRange
  BY DEF TypeInv, TypeOK
<1>i. RowInv /\ EngineInv /\ CoordInv /\ StepInv /\ CopyInv
  BY DEF RunInv
<1> USE DEF RowInv, EngineInv, CoordInv, StepInv, CopyInv, Loaded, Followed,
        InPhase, AtShell, AtManual, Ending, Aborting, OnStep, Deciding, Paused,
        Database, Coordinator, Engine, Environment, Registries, InRange
<1>1. ASSUME RegisterNew PROVE CopyInv'
  BY <1>0, <1>i, <1>1 DEF RegisterNew, Goto, CanTransitionRun, TransitionRun,
     RegisterRun, NoRun
<1>2. ASSUME RegisterResumed PROVE CopyInv'
  BY <1>0, <1>i, <1>2 DEF RegisterResumed, Restored, RegisterRestoredRun, NoRun
<1>3. ASSUME Launch PROVE CopyInv'
  BY <1>0, <1>i, <1>3 DEF Launch, Goto, CanTransitionRun, TransitionRun,
     CoordTransitionRun
<1>4. ASSUME ProbeCancelled PROVE CopyInv'
  BY <1>0, <1>i, <1>4 DEF ProbeCancelled, Goto
<1>5. ASSUME ProbeLost PROVE CopyInv'
  BY <1>0, <1>i, <1>5 DEF ProbeLost, Goto, CoordTargetDrift
<1>6. ASSUME ProbeAsks PROVE CopyInv'
  BY <1>0, <1>i, <1>6 DEF ProbeAsks, CreateAttemptIntent
<1>7. ASSUME ChecklistDone PROVE CopyInv'
  BY <1>0, <1>i, <1>7 DEF ChecklistDone, StatusFromChecklist
<1>8. ASSUME NextCancelled PROVE CopyInv'
  BY <1>0, <1>i, <1>8 DEF NextCancelled, Goto
<1>9. ASSUME NextPassed PROVE CopyInv'
  BY <1>0, <1>i, <1>9 DEF NextPassed
<1>10. ASSUME NextBegins PROVE CopyInv'
  BY <1>0, <1>i, <1>10 DEF NextBegins
<1>11. ASSUME NextUncertain PROVE CopyInv'
  BY <1>0, <1>i, <1>11 DEF NextUncertain, CoordRequireOperator
<1>12. ASSUME BeginAgain PROVE CopyInv'
  BY <1>0, <1>i, <1>12 DEF BeginAgain, CanBeginPhase, CoordBeginPhase, SetRunCursor
<1>13. ASSUME BeginMoves PROVE CopyInv'
  BY <1>0, <1>i, <1>13 DEF BeginMoves, CanBeginPhase, CoordBeginPhase, TransitionStep
<1>14. ASSUME DispatchCancelled PROVE CopyInv'
  BY <1>0, <1>i, <1>14 DEF DispatchCancelled, Goto
<1>15. ASSUME DispatchAgent PROVE CopyInv'
  BY <1>0, <1>i, <1>15 DEF DispatchAgent
<1>16. ASSUME DispatchShell PROVE CopyInv'
  BY <1>0, <1>i, <1>16 DEF DispatchShell, CreateAttemptIntent
<1>17. ASSUME DispatchManual PROVE CopyInv'
  BY <1>0, <1>i, <1>17 DEF DispatchManual, CreateAttemptIntent
<1>18. ASSUME DriftFrom("dispatch") PROVE CopyInv'
  BY <1>0, <1>i, <1>18 DEF DriftFrom, CoordTargetDrift, CanTransitionStep,
     TransitionStep, Active, StatusOfPhase, Phase
<1>19. ASSUME DriftFrom("approved") PROVE CopyInv'
  BY <1>0, <1>i, <1>19 DEF DriftFrom, CoordTargetDrift, CanTransitionStep,
     TransitionStep, Active, StatusOfPhase, Phase
<1>20. ASSUME DriftFrom("manualTarget") PROVE CopyInv'
  BY <1>0, <1>i, <1>20 DEF DriftFrom, CoordTargetDrift, CanTransitionStep,
     TransitionStep, Active, StatusOfPhase, Phase
<1>21. ASSUME DriftRun PROVE CopyInv'
  BY <1>0, <1>i, <1>21 DEF DriftRun, Goto, CanTransitionRun, TransitionRun
<1>22. ASSUME DriftAttempt PROVE CopyInv'
  BY <1>0, <1>i, <1>22 DEF DriftAttempt, CanFinishAttempt, FinishAttempt
<1>23. ASSUME AskCoordinated PROVE CopyInv'
  BY <1>0, <1>i, <1>23 DEF AskCoordinated, Goto, CanRequestApproval,
     RequestApprovalAwaiting, CoordCanRequestApproval, CoordRequestApproval
<1>24. ASSUME AskRefused PROVE CopyInv'
  BY <1>0, <1>i, <1>24 DEF AskRefused, Goto, CanRequestApproval, RequestApprovalAwaiting
<1>25. ASSUME ApprovalCancelled PROVE CopyInv'
  BY <1>0, <1>i, <1>25 DEF ApprovalCancelled, CancelPendingApprovals
<1>26. ASSUME Approved PROVE CopyInv'
  BY <1>0, <1>i, <1>26 DEF Approved, Goto, CanResolveApproval, CanDecideApproval,
     CoordApprove, ApproveAndResume
<1>27. ASSUME Declined PROVE CopyInv'
  BY <1>0, <1>i, <1>27 DEF Declined, CanResolveApproval, CanDecideApproval,
     CoordDecline, DeclineApproval
<1>28. ASSUME DeclineStep PROVE CopyInv'
  BY <1>0, <1>i, <1>28 DEF DeclineStep, CanTransitionStep, TransitionStep
<1>29. ASSUME DeclineRun PROVE CopyInv'
  BY <1>0, <1>i, <1>29 DEF DeclineRun, Goto, CanTransitionRun, TransitionRun
<1>30. ASSUME RecheckCancelled PROVE CopyInv'
  BY <1>0, <1>i, <1>30 DEF RecheckCancelled, CanFinishAttempt, FinishAttempt
<1>31. ASSUME RecheckPassed PROVE CopyInv'
  BY <1>0, <1>i, <1>31 DEF RecheckPassed, Goto
<1>32. ASSUME StartCommand PROVE CopyInv'
  BY <1>0, <1>i, <1>32 DEF StartCommand, CanStartAttempt, StartAttempt
<1>33. ASSUME CommandCancelled PROVE CopyInv'
  BY <1>0, <1>i, <1>33 DEF CommandCancelled, CanFinishAttempt, FinishAttempt
<1>34. ASSUME CommandObserved PROVE CopyInv'
  BY <1>0, <1>i, <1>34 DEF CommandObserved, CanFinishAttempt, FinishAttempt
<1>35. ASSUME StartManual PROVE CopyInv'
  BY <1>0, <1>i, <1>35 DEF StartManual, Goto, CanStartAttempt, StartAttempt,
     CanRequireOperator, CoordRequireOperator
<1>36. ASSUME OpenApply PROVE CopyInv'
  BY <1>0, <1>i, <1>36 DEF OpenApply, Goto, CanTransitionRun, TransitionRun, Mutated
<1>37. ASSUME OpenOther PROVE CopyInv'
  BY <1>0, <1>i, <1>37 DEF OpenOther, Goto, CanTransitionRun, TransitionRun
<1>38. ASSUME ManualCancelled PROVE CopyInv'
  BY <1>0, <1>i, <1>38 DEF ManualCancelled, CanFinishAttempt, FinishAttempt
<1>39. ASSUME ManualAnswered PROVE CopyInv'
  BY <1>0, <1>i, <1>39 DEF ManualAnswered, CanTransitionRun, TransitionRun,
     CoordOperatorAnswered
<1>40. ASSUME ManualObserved PROVE CopyInv'
  BY <1>0, <1>i, <1>40 DEF ManualObserved, CanFinishAttempt, FinishAttempt
<1>41. ASSUME PhaseApplied PROVE CopyInv'
  BY <1>0, <1>i, <1>41 DEF PhaseApplied, PhaseEnds, CanCompletePhase,
     CoordCompletePhase, CanTransitionStep, TransitionStep
<1>42. ASSUME PhaseNeedsApply PROVE CopyInv'
  BY <1>0, <1>i, <1>42 DEF PhaseNeedsApply, PhaseEnds, CanCompletePhase,
     CoordCompletePhase, CanTransitionStep, TransitionStep
<1>43. ASSUME PhaseAssessed PROVE CopyInv'
  BY <1>0, <1>i, <1>43 DEF PhaseAssessed, PhaseEnds, CanCompletePhase,
     CoordCompletePhase, CanTransitionStep, TransitionStep
<1>44. ASSUME PhaseSettles("compliant") PROVE CopyInv'
  BY <1>0, <1>i, <1>44 DEF PhaseSettles, PhaseEnds, CanCompletePhase,
     CoordCompletePhase, CanTransitionStep, TransitionStep
<1>45. ASSUME PhaseSettles("verified") PROVE CopyInv'
  BY <1>0, <1>i, <1>45 DEF PhaseSettles, PhaseEnds, CanCompletePhase,
     CoordCompletePhase, CanTransitionStep, TransitionStep
<1>46. ASSUME PhaseSettles("failed") PROVE CopyInv'
  BY <1>0, <1>i, <1>46 DEF PhaseSettles, PhaseEnds, CanCompletePhase,
     CoordCompletePhase, CanTransitionStep, TransitionStep
<1>47. ASSUME PhaseSettles("unknown") PROVE CopyInv'
  BY <1>0, <1>i, <1>47 DEF PhaseSettles, PhaseEnds, CanCompletePhase,
     CoordCompletePhase, CanTransitionStep, TransitionStep
<1>48. ASSUME SettleVerifies PROVE CopyInv'
  BY <1>0, <1>i, <1>48 DEF SettleVerifies, SetRunCursor
<1>49. ASSUME SettleChecksOff PROVE CopyInv'
  BY <1>0, <1>i, <1>49 DEF SettleChecksOff, SetRunCursor, Goto
<1>50. ASSUME SettlePauses("policy") PROVE CopyInv'
  BY <1>0, <1>i, <1>50 DEF SettlePauses, Goto, CanTransitionRun, TransitionRun
<1>51. ASSUME SettlePauses("decide") PROVE CopyInv'
  BY <1>0, <1>i, <1>51 DEF SettlePauses, Goto, CanTransitionRun, TransitionRun
<1>52. ASSUME Assess PROVE CopyInv'
  BY <1>0, <1>i, <1>52 DEF Assess, Goto, CoordContinueAssessment, SetRunCursor
<1>53. ASSUME Settles("policy", "failed") PROVE CopyInv'
  BY <1>0, <1>i, <1>53 DEF Settles, SettleAs, CoordSettleStep, CanResolveStep,
     CanSettleStep, SettleStep
<1>54. ASSUME Stops("policy") PROVE CopyInv'
  BY <1>0, <1>i, <1>54 DEF Stops, SettleStopped, CoordStop, CanResolveStep,
     CanSettleStep, SettleStep
<1>55. ASSUME AwaitDecision PROVE CopyInv'
  BY <1>0, <1>i, <1>55 DEF AwaitDecision, Goto
<1>56. ASSUME Retries PROVE CopyInv'
  BY <1>0, <1>i, <1>56 DEF Retries, CoordSettleStep, ResetStepForRetry, CanResolveStep,
     CanSettleStep, SettleStep
<1>57. ASSUME Settles("deciding", "skipped") PROVE CopyInv'
  BY <1>0, <1>i, <1>57 DEF Settles, SettleAs, CoordSettleStep, CanResolveStep,
     CanSettleStep, SettleStep
<1>58. ASSUME Settles("deciding", "waived") PROVE CopyInv'
  BY <1>0, <1>i, <1>58 DEF Settles, SettleAs, CoordSettleStep, CanResolveStep,
     CanSettleStep, SettleStep
<1>59. ASSUME Stops("deciding") PROVE CopyInv'
  BY <1>0, <1>i, <1>59 DEF Stops, SettleStopped, CoordStop, CanResolveStep,
     CanSettleStep, SettleStep
<1>60. ASSUME DecisionCancelled PROVE CopyInv'
  BY <1>0, <1>i, <1>60 DEF DecisionCancelled, Goto
<1>61. ASSUME SummaryNext PROVE CopyInv'
  BY <1>0, <1>i, <1>61 DEF SummaryNext, UpdateStepDetails
<1>62. ASSUME SummaryEnds PROVE CopyInv'
  BY <1>0, <1>i, <1>62 DEF SummaryEnds, UpdateStepDetails
<1>63. ASSUME FinishCancelled PROVE CopyInv'
  BY <1>0, <1>i, <1>63 DEF FinishCancelled, CancelPendingApprovals
<1>64. ASSUME MarkNothing PROVE CopyInv'
  BY <1>0, <1>i, <1>64 DEF MarkNothing, Goto
<1>65. ASSUME NEW s \in Steps, MarkOne(s) PROVE CopyInv'
  BY <1>0, <1>i, <1>65 DEF MarkOne, TransitionStep
<1>66. ASSUME WrapUp PROVE CopyInv'
  BY <1>0, <1>i, <1>66 DEF WrapUp, Goto
<1>67. ASSUME Finalize PROVE CopyInv'
  BY <1>0, <1>i, <1>67 DEF Finalize, Goto, CanFinalizeRun, FinalizeRun,
     CoordTransitionRun, Terminal
<1>68. ASSUME EngineError PROVE CopyInv'
  BY <1>0, <1>i, <1>68 DEF EngineError, Goto, Refused
<1>69. ASSUME Abort PROVE CopyInv'
  BY <1>0, <1>i, <1>69 DEF Abort, Goto, CancelPendingApprovals
<1>70. ASSUME AbortedSteps PROVE CopyInv'
  BY <1>0, <1>i, <1>70 DEF AbortedSteps, Goto
<1>71. ASSUME NEW s \in Steps, AbortOne(s) PROVE CopyInv'
  BY <1>0, <1>i, <1>71 DEF AbortOne, TransitionStep
<1>72. ASSUME AbortFinalize PROVE CopyInv'
  BY <1>0, <1>i, <1>72 DEF AbortFinalize, Goto, CanFinalizeRun, FinalizeRun, NoRun
<1>73. ASSUME Exit PROVE CopyInv'
  BY <1>0, <1>i, <1>73 DEF Exit, NoEngine, Spawned, NoIO
<1>74. ASSUME RespondApproval PROVE CopyInv'
  BY <1>0, <1>i, <1>74 DEF RespondApproval
<1>75. ASSUME Decide PROVE CopyInv'
  BY <1>0, <1>i, <1>75 DEF Decide
<1>76. ASSUME SubmitManual PROVE CopyInv'
  BY <1>0, <1>i, <1>76 DEF SubmitManual
<1>77. ASSUME CancelRead PROVE CopyInv'
  BY <1>0, <1>i, <1>77 DEF CancelRead
<1>78. ASSUME CancelSignal PROVE CopyInv'
  BY <1>0, <1>i, <1>78 DEF CancelSignal
<1>79. ASSUME CancelEnds PROVE CopyInv'
  BY <1>0, <1>i, <1>79 DEF CancelEnds, CancelPendingApprovals, FinalizeRun, NoIO
<1>80. ASSUME CancelSettles PROVE CopyInv'
  BY <1>0, <1>i, <1>80 DEF CancelSettles, CancelPendingApprovals
<1>81. ASSUME Resume PROVE CopyInv'
  BY <1>0, <1>i, <1>81 DEF Resume, CanRebind, RebindInterruptedRun, Spawned
<1>82. ASSUME Claim PROVE CopyInv'
  BY <1>0, <1>i, <1>82 DEF Claim
<1>83. ASSUME SubmitResult PROVE CopyInv'
  BY <1>0, <1>i, <1>83 DEF SubmitResult
<1>84. ASSUME LeaseExpires PROVE CopyInv'
  BY <1>0, <1>i, <1>84 DEF LeaseExpires
<1>85. ASSUME CloseTerminal PROVE CopyInv'
  BY <1>0, <1>i, <1>85 DEF CloseTerminal
<1>86. ASSUME Crash PROVE CopyInv'
  BY <1>0, <1>i, <1>86 DEF Crash, NoRun, NoEngine, Spawned, NoIO
<1>87. ASSUME RestartInterrupts PROVE CopyInv'
  BY <1>0, <1>i, <1>87 DEF RestartInterrupts, InterruptActiveRuns
<1>88. ASSUME RestartAgain PROVE CopyInv'
  BY <1>0, <1>i, <1>88 DEF RestartAgain
<1>r. ASSUME AbortRefused PROVE CopyInv'
  BY <1>0, <1>i, <1>r DEF AbortRefused, Goto
<1>s. ASSUME UNCHANGED vars PROVE CopyInv'
  BY <1>i, <1>s DEF vars
<1> HIDE DEF RowInv, EngineInv, CoordInv, StepInv, CopyInv, Loaded, Followed,
        InPhase, AtShell, AtManual, Ending, Aborting, OnStep, Deciding, Paused,
        Database, Coordinator, Engine, Environment, Registries, InRange
<1> QED
  BY <1>r, <1>s, <1>1, <1>2, <1>3, <1>4, <1>5, <1>6, <1>7, <1>8, <1>9, <1>10, <1>11,
     <1>12, <1>13, <1>14, <1>15, <1>16, <1>17, <1>18, <1>19, <1>20, <1>21, <1>22, <1>23,
     <1>24, <1>25, <1>26, <1>27, <1>28, <1>29, <1>30, <1>31, <1>32, <1>33, <1>34, <1>35,
     <1>36, <1>37, <1>38, <1>39, <1>40, <1>41, <1>42, <1>43, <1>44, <1>45, <1>46, <1>47,
     <1>48, <1>49, <1>50, <1>51, <1>52, <1>53, <1>54, <1>55, <1>56, <1>57, <1>58, <1>59,
     <1>60, <1>61, <1>62, <1>63, <1>64, <1>65, <1>66, <1>67, <1>68, <1>69, <1>70, <1>71,
     <1>72, <1>73, <1>74, <1>75, <1>76, <1>77, <1>78, <1>79, <1>80, <1>81, <1>82, <1>83,
     <1>84, <1>85, <1>86, <1>87, <1>88 DEF OneStep

\* The attempt the engine follows is of its step and phase.
LEMMA AttemptStep == TypeInv /\ RunInv /\ OneStep => AttemptInv'
<1> SUFFICES ASSUME TypeInv, RunInv, OneStep PROVE AttemptInv'
  OBVIOUS
<1>0. /\ db \in Database /\ coord \in Coordinator /\ eng \in Engine /\ env \in Environment
      /\ io \in Registries /\ hist \in History /\ InRange
  BY DEF TypeInv, TypeOK
<1>i. EngineInv /\ AttemptInv
  BY DEF RunInv
<1> USE DEF EngineInv, AttemptInv, AtShell, AtManual, Kinds, Attempt, NoAttempt,
        InFlight, Phase, Database, Coordinator, Engine, Environment, Registries,
        InRange
<1>1. ASSUME RegisterNew PROVE AttemptInv'
  BY <1>0, <1>i, <1>1 DEF RegisterNew, Goto, CanTransitionRun, TransitionRun,
     RegisterRun, NoRun
<1>2. ASSUME RegisterResumed PROVE AttemptInv'
  BY <1>0, <1>i, <1>2 DEF RegisterResumed, Restored, RegisterRestoredRun, NoRun
<1>3. ASSUME Launch PROVE AttemptInv'
  BY <1>0, <1>i, <1>3 DEF Launch, Goto, CanTransitionRun, TransitionRun,
     CoordTransitionRun
<1>4. ASSUME ProbeCancelled PROVE AttemptInv'
  BY <1>0, <1>i, <1>4 DEF ProbeCancelled, Goto
<1>5. ASSUME ProbeLost PROVE AttemptInv'
  BY <1>0, <1>i, <1>5 DEF ProbeLost, Goto, CoordTargetDrift
<1>6. ASSUME ProbeAsks PROVE AttemptInv'
  BY <1>0, <1>i, <1>6 DEF ProbeAsks, CreateAttemptIntent
<1>7. ASSUME ChecklistDone PROVE AttemptInv'
  BY <1>0, <1>i, <1>7 DEF ChecklistDone, StatusFromChecklist
<1>8. ASSUME NextCancelled PROVE AttemptInv'
  BY <1>0, <1>i, <1>8 DEF NextCancelled, Goto
<1>9. ASSUME NextPassed PROVE AttemptInv'
  BY <1>0, <1>i, <1>9 DEF NextPassed
<1>10. ASSUME NextBegins PROVE AttemptInv'
  BY <1>0, <1>i, <1>10 DEF NextBegins
<1>11. ASSUME NextUncertain PROVE AttemptInv'
  BY <1>0, <1>i, <1>11 DEF NextUncertain, CoordRequireOperator
<1>12. ASSUME BeginAgain PROVE AttemptInv'
  BY <1>0, <1>i, <1>12 DEF BeginAgain, CanBeginPhase, CoordBeginPhase, SetRunCursor
<1>13. ASSUME BeginMoves PROVE AttemptInv'
  BY <1>0, <1>i, <1>13 DEF BeginMoves, CanBeginPhase, CoordBeginPhase, TransitionStep
<1>14. ASSUME DispatchCancelled PROVE AttemptInv'
  BY <1>0, <1>i, <1>14 DEF DispatchCancelled, Goto
<1>15. ASSUME DispatchAgent PROVE AttemptInv'
  BY <1>0, <1>i, <1>15 DEF DispatchAgent
<1>16. ASSUME DispatchShell PROVE AttemptInv'
  BY <1>0, <1>i, <1>16 DEF DispatchShell, CreateAttemptIntent
<1>17. ASSUME DispatchManual PROVE AttemptInv'
  BY <1>0, <1>i, <1>17 DEF DispatchManual, CreateAttemptIntent
<1>18. ASSUME DriftFrom("dispatch") PROVE AttemptInv'
  BY <1>0, <1>i, <1>18 DEF DriftFrom, CoordTargetDrift, CanTransitionStep,
     TransitionStep
<1>19. ASSUME DriftFrom("approved") PROVE AttemptInv'
  BY <1>0, <1>i, <1>19 DEF DriftFrom, CoordTargetDrift, CanTransitionStep,
     TransitionStep
<1>20. ASSUME DriftFrom("manualTarget") PROVE AttemptInv'
  BY <1>0, <1>i, <1>20 DEF DriftFrom, CoordTargetDrift, CanTransitionStep,
     TransitionStep
<1>21. ASSUME DriftRun PROVE AttemptInv'
  BY <1>0, <1>i, <1>21 DEF DriftRun, Goto, CanTransitionRun, TransitionRun
<1>22. ASSUME DriftAttempt PROVE AttemptInv'
  BY <1>0, <1>i, <1>22 DEF DriftAttempt, CanFinishAttempt, FinishAttempt
<1>23. ASSUME AskCoordinated PROVE AttemptInv'
  BY <1>0, <1>i, <1>23 DEF AskCoordinated, Goto, CanRequestApproval,
     RequestApprovalAwaiting, CoordCanRequestApproval, CoordRequestApproval
<1>24. ASSUME AskRefused PROVE AttemptInv'
  BY <1>0, <1>i, <1>24 DEF AskRefused, Goto, CanRequestApproval, RequestApprovalAwaiting
<1>25. ASSUME ApprovalCancelled PROVE AttemptInv'
  BY <1>0, <1>i, <1>25 DEF ApprovalCancelled, CancelPendingApprovals
<1>26. ASSUME Approved PROVE AttemptInv'
  BY <1>0, <1>i, <1>26 DEF Approved, Goto, CanResolveApproval, CanDecideApproval,
     CoordApprove, ApproveAndResume
<1>27. ASSUME Declined PROVE AttemptInv'
  BY <1>0, <1>i, <1>27 DEF Declined, CanResolveApproval, CanDecideApproval,
     CoordDecline, DeclineApproval
<1>28. ASSUME DeclineStep PROVE AttemptInv'
  BY <1>0, <1>i, <1>28 DEF DeclineStep, CanTransitionStep, TransitionStep
<1>29. ASSUME DeclineRun PROVE AttemptInv'
  BY <1>0, <1>i, <1>29 DEF DeclineRun, Goto, CanTransitionRun, TransitionRun
<1>30. ASSUME RecheckCancelled PROVE AttemptInv'
  BY <1>0, <1>i, <1>30 DEF RecheckCancelled, CanFinishAttempt, FinishAttempt
<1>31. ASSUME RecheckPassed PROVE AttemptInv'
  BY <1>0, <1>i, <1>31 DEF RecheckPassed, Goto
<1>32. ASSUME StartCommand PROVE AttemptInv'
  BY <1>0, <1>i, <1>32 DEF StartCommand, CanStartAttempt, StartAttempt
<1>33. ASSUME CommandCancelled PROVE AttemptInv'
  BY <1>0, <1>i, <1>33 DEF CommandCancelled, CanFinishAttempt, FinishAttempt
<1>34. ASSUME CommandObserved PROVE AttemptInv'
  BY <1>0, <1>i, <1>34 DEF CommandObserved, CanFinishAttempt, FinishAttempt
<1>35. ASSUME StartManual PROVE AttemptInv'
  BY <1>0, <1>i, <1>35 DEF StartManual, Goto, CanStartAttempt, StartAttempt,
     CanRequireOperator, CoordRequireOperator
<1>36. ASSUME OpenApply PROVE AttemptInv'
  BY <1>0, <1>i, <1>36 DEF OpenApply, Goto, CanTransitionRun, TransitionRun, Mutated
<1>37. ASSUME OpenOther PROVE AttemptInv'
  BY <1>0, <1>i, <1>37 DEF OpenOther, Goto, CanTransitionRun, TransitionRun
<1>38. ASSUME ManualCancelled PROVE AttemptInv'
  BY <1>0, <1>i, <1>38 DEF ManualCancelled, CanFinishAttempt, FinishAttempt
<1>39. ASSUME ManualAnswered PROVE AttemptInv'
  BY <1>0, <1>i, <1>39 DEF ManualAnswered, CanTransitionRun, TransitionRun,
     CoordOperatorAnswered
<1>40. ASSUME ManualObserved PROVE AttemptInv'
  BY <1>0, <1>i, <1>40 DEF ManualObserved, CanFinishAttempt, FinishAttempt
<1>41. ASSUME PhaseApplied PROVE AttemptInv'
  BY <1>0, <1>i, <1>41 DEF PhaseApplied, PhaseEnds, CanCompletePhase,
     CoordCompletePhase, CanTransitionStep, TransitionStep
<1>42. ASSUME PhaseNeedsApply PROVE AttemptInv'
  BY <1>0, <1>i, <1>42 DEF PhaseNeedsApply, PhaseEnds, CanCompletePhase,
     CoordCompletePhase, CanTransitionStep, TransitionStep
<1>43. ASSUME PhaseAssessed PROVE AttemptInv'
  BY <1>0, <1>i, <1>43 DEF PhaseAssessed, PhaseEnds, CanCompletePhase,
     CoordCompletePhase, CanTransitionStep, TransitionStep
<1>44. ASSUME PhaseSettles("compliant") PROVE AttemptInv'
  BY <1>0, <1>i, <1>44 DEF PhaseSettles, PhaseEnds, CanCompletePhase,
     CoordCompletePhase, CanTransitionStep, TransitionStep
<1>45. ASSUME PhaseSettles("verified") PROVE AttemptInv'
  BY <1>0, <1>i, <1>45 DEF PhaseSettles, PhaseEnds, CanCompletePhase,
     CoordCompletePhase, CanTransitionStep, TransitionStep
<1>46. ASSUME PhaseSettles("failed") PROVE AttemptInv'
  BY <1>0, <1>i, <1>46 DEF PhaseSettles, PhaseEnds, CanCompletePhase,
     CoordCompletePhase, CanTransitionStep, TransitionStep
<1>47. ASSUME PhaseSettles("unknown") PROVE AttemptInv'
  BY <1>0, <1>i, <1>47 DEF PhaseSettles, PhaseEnds, CanCompletePhase,
     CoordCompletePhase, CanTransitionStep, TransitionStep
<1>48. ASSUME SettleVerifies PROVE AttemptInv'
  BY <1>0, <1>i, <1>48 DEF SettleVerifies, SetRunCursor
<1>49. ASSUME SettleChecksOff PROVE AttemptInv'
  BY <1>0, <1>i, <1>49 DEF SettleChecksOff, SetRunCursor, Goto
<1>50. ASSUME SettlePauses("policy") PROVE AttemptInv'
  BY <1>0, <1>i, <1>50 DEF SettlePauses, Goto, CanTransitionRun, TransitionRun
<1>51. ASSUME SettlePauses("decide") PROVE AttemptInv'
  BY <1>0, <1>i, <1>51 DEF SettlePauses, Goto, CanTransitionRun, TransitionRun
<1>52. ASSUME Assess PROVE AttemptInv'
  BY <1>0, <1>i, <1>52 DEF Assess, Goto, CoordContinueAssessment, SetRunCursor
<1>53. ASSUME Settles("policy", "failed") PROVE AttemptInv'
  BY <1>0, <1>i, <1>53 DEF Settles, SettleAs, CoordSettleStep, CanResolveStep,
     CanSettleStep, SettleStep
<1>54. ASSUME Stops("policy") PROVE AttemptInv'
  BY <1>0, <1>i, <1>54 DEF Stops, SettleStopped, CoordStop, CanResolveStep,
     CanSettleStep, SettleStep
<1>55. ASSUME AwaitDecision PROVE AttemptInv'
  BY <1>0, <1>i, <1>55 DEF AwaitDecision, Goto
<1>56. ASSUME Retries PROVE AttemptInv'
  BY <1>0, <1>i, <1>56 DEF Retries, CoordSettleStep, ResetStepForRetry, CanResolveStep,
     CanSettleStep, SettleStep
<1>57. ASSUME Settles("deciding", "skipped") PROVE AttemptInv'
  BY <1>0, <1>i, <1>57 DEF Settles, SettleAs, CoordSettleStep, CanResolveStep,
     CanSettleStep, SettleStep
<1>58. ASSUME Settles("deciding", "waived") PROVE AttemptInv'
  BY <1>0, <1>i, <1>58 DEF Settles, SettleAs, CoordSettleStep, CanResolveStep,
     CanSettleStep, SettleStep
<1>59. ASSUME Stops("deciding") PROVE AttemptInv'
  BY <1>0, <1>i, <1>59 DEF Stops, SettleStopped, CoordStop, CanResolveStep,
     CanSettleStep, SettleStep
<1>60. ASSUME DecisionCancelled PROVE AttemptInv'
  BY <1>0, <1>i, <1>60 DEF DecisionCancelled, Goto
<1>61. ASSUME SummaryNext PROVE AttemptInv'
  BY <1>0, <1>i, <1>61 DEF SummaryNext, UpdateStepDetails
<1>62. ASSUME SummaryEnds PROVE AttemptInv'
  BY <1>0, <1>i, <1>62 DEF SummaryEnds, UpdateStepDetails
<1>63. ASSUME FinishCancelled PROVE AttemptInv'
  BY <1>0, <1>i, <1>63 DEF FinishCancelled, CancelPendingApprovals
<1>64. ASSUME MarkNothing PROVE AttemptInv'
  BY <1>0, <1>i, <1>64 DEF MarkNothing, Goto
<1>65. ASSUME NEW s \in Steps, MarkOne(s) PROVE AttemptInv'
  BY <1>0, <1>i, <1>65 DEF MarkOne, TransitionStep
<1>66. ASSUME WrapUp PROVE AttemptInv'
  BY <1>0, <1>i, <1>66 DEF WrapUp, Goto
<1>67. ASSUME Finalize PROVE AttemptInv'
  BY <1>0, <1>i, <1>67 DEF Finalize, Goto, CanFinalizeRun, FinalizeRun,
     CoordTransitionRun
<1>68. ASSUME EngineError PROVE AttemptInv'
  BY <1>0, <1>i, <1>68 DEF EngineError, Goto, Refused
<1>69. ASSUME Abort PROVE AttemptInv'
  BY <1>0, <1>i, <1>69 DEF Abort, Goto, CancelPendingApprovals
<1>70. ASSUME AbortedSteps PROVE AttemptInv'
  BY <1>0, <1>i, <1>70 DEF AbortedSteps, Goto
<1>71. ASSUME NEW s \in Steps, AbortOne(s) PROVE AttemptInv'
  BY <1>0, <1>i, <1>71 DEF AbortOne, TransitionStep
<1>72. ASSUME AbortFinalize PROVE AttemptInv'
  BY <1>0, <1>i, <1>72 DEF AbortFinalize, Goto, CanFinalizeRun, FinalizeRun, NoRun
<1>73. ASSUME Exit PROVE AttemptInv'
  BY <1>0, <1>i, <1>73 DEF Exit, NoEngine, Spawned, NoIO
<1>74. ASSUME RespondApproval PROVE AttemptInv'
  BY <1>0, <1>i, <1>74 DEF RespondApproval
<1>75. ASSUME Decide PROVE AttemptInv'
  BY <1>0, <1>i, <1>75 DEF Decide
<1>76. ASSUME SubmitManual PROVE AttemptInv'
  BY <1>0, <1>i, <1>76 DEF SubmitManual
<1>77. ASSUME CancelRead PROVE AttemptInv'
  BY <1>0, <1>i, <1>77 DEF CancelRead
<1>78. ASSUME CancelSignal PROVE AttemptInv'
  BY <1>0, <1>i, <1>78 DEF CancelSignal
<1>79. ASSUME CancelEnds PROVE AttemptInv'
  BY <1>0, <1>i, <1>79 DEF CancelEnds, CancelPendingApprovals, FinalizeRun, NoIO
<1>80. ASSUME CancelSettles PROVE AttemptInv'
  BY <1>0, <1>i, <1>80 DEF CancelSettles, CancelPendingApprovals
<1>81. ASSUME Resume PROVE AttemptInv'
  BY <1>0, <1>i, <1>81 DEF Resume, CanRebind, RebindInterruptedRun, Spawned
<1>82. ASSUME Claim PROVE AttemptInv'
  BY <1>0, <1>i, <1>82 DEF Claim
<1>83. ASSUME SubmitResult PROVE AttemptInv'
  BY <1>0, <1>i, <1>83 DEF SubmitResult
<1>84. ASSUME LeaseExpires PROVE AttemptInv'
  BY <1>0, <1>i, <1>84 DEF LeaseExpires
<1>85. ASSUME CloseTerminal PROVE AttemptInv'
  BY <1>0, <1>i, <1>85 DEF CloseTerminal
<1>86. ASSUME Crash PROVE AttemptInv'
  BY <1>0, <1>i, <1>86 DEF Crash, NoRun, NoEngine, Spawned, NoIO
<1>87. ASSUME RestartInterrupts PROVE AttemptInv'
  BY <1>0, <1>i, <1>87 DEF RestartInterrupts, InterruptActiveRuns
<1>88. ASSUME RestartAgain PROVE AttemptInv'
  BY <1>0, <1>i, <1>88 DEF RestartAgain
<1>r. ASSUME AbortRefused PROVE AttemptInv'
  BY <1>0, <1>i, <1>r DEF AbortRefused, Goto
<1>s. ASSUME UNCHANGED vars PROVE AttemptInv'
  BY <1>i, <1>s DEF vars
<1> HIDE DEF EngineInv, AttemptInv, AtShell, AtManual, Kinds, Attempt, NoAttempt,
        InFlight, Phase, Database, Coordinator, Engine, Environment, Registries,
        InRange
<1> QED
  BY <1>r, <1>s, <1>1, <1>2, <1>3, <1>4, <1>5, <1>6, <1>7, <1>8, <1>9, <1>10, <1>11,
     <1>12, <1>13, <1>14, <1>15, <1>16, <1>17, <1>18, <1>19, <1>20, <1>21, <1>22, <1>23,
     <1>24, <1>25, <1>26, <1>27, <1>28, <1>29, <1>30, <1>31, <1>32, <1>33, <1>34, <1>35,
     <1>36, <1>37, <1>38, <1>39, <1>40, <1>41, <1>42, <1>43, <1>44, <1>45, <1>46, <1>47,
     <1>48, <1>49, <1>50, <1>51, <1>52, <1>53, <1>54, <1>55, <1>56, <1>57, <1>58, <1>59,
     <1>60, <1>61, <1>62, <1>63, <1>64, <1>65, <1>66, <1>67, <1>68, <1>69, <1>70, <1>71,
     <1>72, <1>73, <1>74, <1>75, <1>76, <1>77, <1>78, <1>79, <1>80, <1>81, <1>82, <1>83,
     <1>84, <1>85, <1>86, <1>87, <1>88 DEF OneStep

\* A typed apply is a started one, and a started one is known as a change to the
\* rows and, once restored, to the engine's copy, which is what it writes over them.
LEMMA ChangeStep == TypeInv /\ RunInv /\ OneStep => ChangeInv'
<1> SUFFICES ASSUME TypeInv, RunInv, OneStep PROVE ChangeInv'
  OBVIOUS
<1>0. /\ db \in Database /\ coord \in Coordinator /\ eng \in Engine /\ env \in Environment
      /\ io \in Registries /\ hist \in History /\ InRange
  BY DEF TypeInv, TypeOK
<1>i. RowInv /\ EngineInv /\ AttemptInv /\ ChangeInv
  BY DEF RunInv
<1> USE DEF RowInv, EngineInv, AttemptInv, ChangeInv, AtShell, AtManual, Kinds,
        Attempt, NoAttempt, InFlight, KeepApplyStarted, History, Database,
        Coordinator, Engine, Environment, Registries, InRange
<1>1. ASSUME RegisterNew PROVE ChangeInv'
  BY <1>0, <1>i, <1>1 DEF RegisterNew, Goto, CanTransitionRun, TransitionRun,
     RegisterRun, NoRun
<1>2. ASSUME RegisterResumed PROVE ChangeInv'
  BY <1>0, <1>i, <1>2 DEF RegisterResumed, Restored, RegisterRestoredRun, NoRun
<1>3. ASSUME Launch PROVE ChangeInv'
  BY <1>0, <1>i, <1>3 DEF Launch, Goto, CanTransitionRun, TransitionRun,
     CoordTransitionRun
<1>4. ASSUME ProbeCancelled PROVE ChangeInv'
  BY <1>0, <1>i, <1>4 DEF ProbeCancelled, Goto
<1>5. ASSUME ProbeLost PROVE ChangeInv'
  BY <1>0, <1>i, <1>5 DEF ProbeLost, Goto, CoordTargetDrift
<1>6. ASSUME ProbeAsks PROVE ChangeInv'
  BY <1>0, <1>i, <1>6 DEF ProbeAsks, CreateAttemptIntent
<1>7. ASSUME ChecklistDone PROVE ChangeInv'
  BY <1>0, <1>i, <1>7 DEF ChecklistDone, StatusFromChecklist
<1>8. ASSUME NextCancelled PROVE ChangeInv'
  BY <1>0, <1>i, <1>8 DEF NextCancelled, Goto
<1>9. ASSUME NextPassed PROVE ChangeInv'
  BY <1>0, <1>i, <1>9 DEF NextPassed
<1>10. ASSUME NextBegins PROVE ChangeInv'
  BY <1>0, <1>i, <1>10 DEF NextBegins
<1>11. ASSUME NextUncertain PROVE ChangeInv'
  BY <1>0, <1>i, <1>11 DEF NextUncertain, CoordRequireOperator
<1>12. ASSUME BeginAgain PROVE ChangeInv'
  BY <1>0, <1>i, <1>12 DEF BeginAgain, CanBeginPhase, CoordBeginPhase, SetRunCursor
<1>13. ASSUME BeginMoves PROVE ChangeInv'
  BY <1>0, <1>i, <1>13 DEF BeginMoves, CanBeginPhase, CoordBeginPhase, TransitionStep
<1>14. ASSUME DispatchCancelled PROVE ChangeInv'
  BY <1>0, <1>i, <1>14 DEF DispatchCancelled, Goto
<1>15. ASSUME DispatchAgent PROVE ChangeInv'
  BY <1>0, <1>i, <1>15 DEF DispatchAgent
<1>16. ASSUME DispatchShell PROVE ChangeInv'
  BY <1>0, <1>i, <1>16 DEF DispatchShell, CreateAttemptIntent
<1>17. ASSUME DispatchManual PROVE ChangeInv'
  BY <1>0, <1>i, <1>17 DEF DispatchManual, CreateAttemptIntent
<1>18. ASSUME DriftFrom("dispatch") PROVE ChangeInv'
  BY <1>0, <1>i, <1>18 DEF DriftFrom, CoordTargetDrift, CanTransitionStep,
     TransitionStep
<1>19. ASSUME DriftFrom("approved") PROVE ChangeInv'
  BY <1>0, <1>i, <1>19 DEF DriftFrom, CoordTargetDrift, CanTransitionStep,
     TransitionStep
<1>20. ASSUME DriftFrom("manualTarget") PROVE ChangeInv'
  BY <1>0, <1>i, <1>20 DEF DriftFrom, CoordTargetDrift, CanTransitionStep,
     TransitionStep
<1>21. ASSUME DriftRun PROVE ChangeInv'
  BY <1>0, <1>i, <1>21 DEF DriftRun, Goto, CanTransitionRun, TransitionRun
<1>22. ASSUME DriftAttempt PROVE ChangeInv'
  BY <1>0, <1>i, <1>22 DEF DriftAttempt, CanFinishAttempt, FinishAttempt
<1>23. ASSUME AskCoordinated PROVE ChangeInv'
  BY <1>0, <1>i, <1>23 DEF AskCoordinated, Goto, CanRequestApproval,
     RequestApprovalAwaiting, CoordCanRequestApproval, CoordRequestApproval
<1>24. ASSUME AskRefused PROVE ChangeInv'
  BY <1>0, <1>i, <1>24 DEF AskRefused, Goto, CanRequestApproval, RequestApprovalAwaiting
<1>25. ASSUME ApprovalCancelled PROVE ChangeInv'
  BY <1>0, <1>i, <1>25 DEF ApprovalCancelled, CancelPendingApprovals
<1>26. ASSUME Approved PROVE ChangeInv'
  BY <1>0, <1>i, <1>26 DEF Approved, Goto, CanResolveApproval, CanDecideApproval,
     CoordApprove, ApproveAndResume
<1>27. ASSUME Declined PROVE ChangeInv'
  BY <1>0, <1>i, <1>27 DEF Declined, CanResolveApproval, CanDecideApproval,
     CoordDecline, DeclineApproval
<1>28. ASSUME DeclineStep PROVE ChangeInv'
  BY <1>0, <1>i, <1>28 DEF DeclineStep, CanTransitionStep, TransitionStep
<1>29. ASSUME DeclineRun PROVE ChangeInv'
  BY <1>0, <1>i, <1>29 DEF DeclineRun, Goto, CanTransitionRun, TransitionRun
<1>30. ASSUME RecheckCancelled PROVE ChangeInv'
  BY <1>0, <1>i, <1>30 DEF RecheckCancelled, CanFinishAttempt, FinishAttempt
<1>31. ASSUME RecheckPassed PROVE ChangeInv'
  BY <1>0, <1>i, <1>31 DEF RecheckPassed, Goto
<1>32. ASSUME StartCommand PROVE ChangeInv'
  BY <1>0, <1>i, <1>32 DEF StartCommand, CanStartAttempt, StartAttempt
<1>33. ASSUME CommandCancelled PROVE ChangeInv'
  BY <1>0, <1>i, <1>33 DEF CommandCancelled, CanFinishAttempt, FinishAttempt
<1>34. ASSUME CommandObserved PROVE ChangeInv'
  BY <1>0, <1>i, <1>34 DEF CommandObserved, CanFinishAttempt, FinishAttempt,
     AttemptAfter, PhaseResult
<1>35. ASSUME StartManual PROVE ChangeInv'
  BY <1>0, <1>i, <1>35 DEF StartManual, Goto, CanStartAttempt, StartAttempt,
     CanRequireOperator, CoordRequireOperator
<1>36. ASSUME OpenApply PROVE ChangeInv'
  BY <1>0, <1>i, <1>36 DEF OpenApply, Goto, CanTransitionRun, TransitionRun, Mutated
<1>37. ASSUME OpenOther PROVE ChangeInv'
  BY <1>0, <1>i, <1>37 DEF OpenOther, Goto, CanTransitionRun, TransitionRun
<1>38. ASSUME ManualCancelled PROVE ChangeInv'
  BY <1>0, <1>i, <1>38 DEF ManualCancelled, CanFinishAttempt, FinishAttempt
<1>39. ASSUME ManualAnswered PROVE ChangeInv'
  BY <1>0, <1>i, <1>39 DEF ManualAnswered, CanTransitionRun, TransitionRun,
     CoordOperatorAnswered
<1>40. ASSUME ManualObserved PROVE ChangeInv'
  BY <1>0, <1>i, <1>40 DEF ManualObserved, CanFinishAttempt, FinishAttempt,
     AttemptAfter, PhaseResult
<1>41. ASSUME PhaseApplied PROVE ChangeInv'
  BY <1>0, <1>i, <1>41 DEF PhaseApplied, PhaseEnds, CanCompletePhase,
     CoordCompletePhase, CanTransitionStep, TransitionStep
<1>42. ASSUME PhaseNeedsApply PROVE ChangeInv'
  BY <1>0, <1>i, <1>42 DEF PhaseNeedsApply, PhaseEnds, CanCompletePhase,
     CoordCompletePhase, CanTransitionStep, TransitionStep
<1>43. ASSUME PhaseAssessed PROVE ChangeInv'
  BY <1>0, <1>i, <1>43 DEF PhaseAssessed, PhaseEnds, CanCompletePhase,
     CoordCompletePhase, CanTransitionStep, TransitionStep
<1>44. ASSUME PhaseSettles("compliant") PROVE ChangeInv'
  BY <1>0, <1>i, <1>44 DEF PhaseSettles, PhaseEnds, CanCompletePhase,
     CoordCompletePhase, CanTransitionStep, TransitionStep
<1>45. ASSUME PhaseSettles("verified") PROVE ChangeInv'
  BY <1>0, <1>i, <1>45 DEF PhaseSettles, PhaseEnds, CanCompletePhase,
     CoordCompletePhase, CanTransitionStep, TransitionStep
<1>46. ASSUME PhaseSettles("failed") PROVE ChangeInv'
  BY <1>0, <1>i, <1>46 DEF PhaseSettles, PhaseEnds, CanCompletePhase,
     CoordCompletePhase, CanTransitionStep, TransitionStep
<1>47. ASSUME PhaseSettles("unknown") PROVE ChangeInv'
  BY <1>0, <1>i, <1>47 DEF PhaseSettles, PhaseEnds, CanCompletePhase,
     CoordCompletePhase, CanTransitionStep, TransitionStep
<1>48. ASSUME SettleVerifies PROVE ChangeInv'
  BY <1>0, <1>i, <1>48 DEF SettleVerifies, SetRunCursor
<1>49. ASSUME SettleChecksOff PROVE ChangeInv'
  BY <1>0, <1>i, <1>49 DEF SettleChecksOff, SetRunCursor, Goto
<1>50. ASSUME SettlePauses("policy") PROVE ChangeInv'
  BY <1>0, <1>i, <1>50 DEF SettlePauses, Goto, CanTransitionRun, TransitionRun
<1>51. ASSUME SettlePauses("decide") PROVE ChangeInv'
  BY <1>0, <1>i, <1>51 DEF SettlePauses, Goto, CanTransitionRun, TransitionRun
<1>52. ASSUME Assess PROVE ChangeInv'
  BY <1>0, <1>i, <1>52 DEF Assess, Goto, CoordContinueAssessment, SetRunCursor
<1>53. ASSUME Settles("policy", "failed") PROVE ChangeInv'
  BY <1>0, <1>i, <1>53 DEF Settles, SettleAs, CoordSettleStep, CanResolveStep,
     CanSettleStep, SettleStep
<1>54. ASSUME Stops("policy") PROVE ChangeInv'
  BY <1>0, <1>i, <1>54 DEF Stops, SettleStopped, CoordStop, CanResolveStep,
     CanSettleStep, SettleStep
<1>55. ASSUME AwaitDecision PROVE ChangeInv'
  BY <1>0, <1>i, <1>55 DEF AwaitDecision, Goto
<1>56. ASSUME Retries PROVE ChangeInv'
  BY <1>0, <1>i, <1>56 DEF Retries, CoordSettleStep, ResetStepForRetry, CanResolveStep,
     CanSettleStep, SettleStep
<1>57. ASSUME Settles("deciding", "skipped") PROVE ChangeInv'
  BY <1>0, <1>i, <1>57 DEF Settles, SettleAs, CoordSettleStep, CanResolveStep,
     CanSettleStep, SettleStep
<1>58. ASSUME Settles("deciding", "waived") PROVE ChangeInv'
  BY <1>0, <1>i, <1>58 DEF Settles, SettleAs, CoordSettleStep, CanResolveStep,
     CanSettleStep, SettleStep
<1>59. ASSUME Stops("deciding") PROVE ChangeInv'
  BY <1>0, <1>i, <1>59 DEF Stops, SettleStopped, CoordStop, CanResolveStep,
     CanSettleStep, SettleStep
<1>60. ASSUME DecisionCancelled PROVE ChangeInv'
  BY <1>0, <1>i, <1>60 DEF DecisionCancelled, Goto
<1>61. ASSUME SummaryNext PROVE ChangeInv'
  BY <1>0, <1>i, <1>61 DEF SummaryNext, UpdateStepDetails
<1>62. ASSUME SummaryEnds PROVE ChangeInv'
  BY <1>0, <1>i, <1>62 DEF SummaryEnds, UpdateStepDetails
<1>63. ASSUME FinishCancelled PROVE ChangeInv'
  BY <1>0, <1>i, <1>63 DEF FinishCancelled, CancelPendingApprovals
<1>64. ASSUME MarkNothing PROVE ChangeInv'
  BY <1>0, <1>i, <1>64 DEF MarkNothing, Goto
<1>65. ASSUME NEW s \in Steps, MarkOne(s) PROVE ChangeInv'
  BY <1>0, <1>i, <1>65 DEF MarkOne, TransitionStep
<1>66. ASSUME WrapUp PROVE ChangeInv'
  BY <1>0, <1>i, <1>66 DEF WrapUp, Goto
<1>67. ASSUME Finalize PROVE ChangeInv'
  BY <1>0, <1>i, <1>67 DEF Finalize, Goto, CanFinalizeRun, FinalizeRun,
     CoordTransitionRun, Terminal
<1>68. ASSUME EngineError PROVE ChangeInv'
  BY <1>0, <1>i, <1>68 DEF EngineError, Goto, Refused
<1>69. ASSUME Abort PROVE ChangeInv'
  BY <1>0, <1>i, <1>69 DEF Abort, Goto, CancelPendingApprovals
<1>70. ASSUME AbortedSteps PROVE ChangeInv'
  BY <1>0, <1>i, <1>70 DEF AbortedSteps, Goto
<1>71. ASSUME NEW s \in Steps, AbortOne(s) PROVE ChangeInv'
  BY <1>0, <1>i, <1>71 DEF AbortOne, TransitionStep
<1>72. ASSUME AbortFinalize PROVE ChangeInv'
  BY <1>0, <1>i, <1>72 DEF AbortFinalize, Goto, CanFinalizeRun, FinalizeRun, NoRun
<1>73. ASSUME Exit PROVE ChangeInv'
  BY <1>0, <1>i, <1>73 DEF Exit, NoEngine, Spawned, NoIO
<1>74. ASSUME RespondApproval PROVE ChangeInv'
  BY <1>0, <1>i, <1>74 DEF RespondApproval
<1>75. ASSUME Decide PROVE ChangeInv'
  BY <1>0, <1>i, <1>75 DEF Decide
<1>76. ASSUME SubmitManual PROVE ChangeInv'
  BY <1>0, <1>i, <1>76 DEF SubmitManual, Observe
<1>77. ASSUME CancelRead PROVE ChangeInv'
  BY <1>0, <1>i, <1>77 DEF CancelRead
<1>78. ASSUME CancelSignal PROVE ChangeInv'
  BY <1>0, <1>i, <1>78 DEF CancelSignal
<1>79. ASSUME CancelEnds PROVE ChangeInv'
  BY <1>0, <1>i, <1>79 DEF CancelEnds, CancelPendingApprovals, FinalizeRun, NoIO
<1>80. ASSUME CancelSettles PROVE ChangeInv'
  BY <1>0, <1>i, <1>80 DEF CancelSettles, CancelPendingApprovals
<1>81. ASSUME Resume PROVE ChangeInv'
  BY <1>0, <1>i, <1>81 DEF Resume, CanRebind, RebindInterruptedRun, Spawned
<1>82. ASSUME Claim PROVE ChangeInv'
  BY <1>0, <1>i, <1>82 DEF Claim, Typed, Mutated
<1>83. ASSUME SubmitResult PROVE ChangeInv'
  BY <1>0, <1>i, <1>83 DEF SubmitResult, Observe
<1>84. ASSUME LeaseExpires PROVE ChangeInv'
  BY <1>0, <1>i, <1>84 DEF LeaseExpires
<1>85. ASSUME CloseTerminal PROVE ChangeInv'
  BY <1>0, <1>i, <1>85 DEF CloseTerminal
<1>86. ASSUME Crash PROVE ChangeInv'
  BY <1>0, <1>i, <1>86 DEF Crash, NoRun, NoEngine, Spawned, NoIO
<1>87. ASSUME RestartInterrupts PROVE ChangeInv'
  BY <1>0, <1>i, <1>87 DEF RestartInterrupts, InterruptActiveRuns
<1>88. ASSUME RestartAgain PROVE ChangeInv'
  BY <1>0, <1>i, <1>88 DEF RestartAgain
<1>r. ASSUME AbortRefused PROVE ChangeInv'
  BY <1>0, <1>i, <1>r DEF AbortRefused, Goto
<1>s. ASSUME UNCHANGED vars PROVE ChangeInv'
  BY <1>i, <1>s DEF vars
<1> HIDE DEF RowInv, EngineInv, AttemptInv, ChangeInv, AtShell, AtManual, Kinds,
        Attempt, NoAttempt, InFlight, KeepApplyStarted, History, Database,
        Coordinator, Engine, Environment, Registries, InRange
<1> QED
  BY <1>r, <1>s, <1>1, <1>2, <1>3, <1>4, <1>5, <1>6, <1>7, <1>8, <1>9, <1>10, <1>11,
     <1>12, <1>13, <1>14, <1>15, <1>16, <1>17, <1>18, <1>19, <1>20, <1>21, <1>22, <1>23,
     <1>24, <1>25, <1>26, <1>27, <1>28, <1>29, <1>30, <1>31, <1>32, <1>33, <1>34, <1>35,
     <1>36, <1>37, <1>38, <1>39, <1>40, <1>41, <1>42, <1>43, <1>44, <1>45, <1>46, <1>47,
     <1>48, <1>49, <1>50, <1>51, <1>52, <1>53, <1>54, <1>55, <1>56, <1>57, <1>58, <1>59,
     <1>60, <1>61, <1>62, <1>63, <1>64, <1>65, <1>66, <1>67, <1>68, <1>69, <1>70, <1>71,
     <1>72, <1>73, <1>74, <1>75, <1>76, <1>77, <1>78, <1>79, <1>80, <1>81, <1>82, <1>83,
     <1>84, <1>85, <1>86, <1>87, <1>88 DEF OneStep

-----------------------------------------------------------------------------
(* The order of the checklist *)

\* When one step moves, with everything before it settled and nothing after it
\* begun, the checklist stays in order.
LEMMA OneMoved ==
    ASSUME TypeInv, OrderInv, NEW s \in Steps, def' = def,
           \A t \in Steps : t # s => db'.step[t] = db.step[t],
           db'.step[s] # "blocked",
           \A t \in Steps : t < s => Settled(t),
           \A t \in Steps : t > s => db.step[t] = "pending"
    PROVE  /\ ChecklistInOrder'
           /\ \A t \in Steps : db'.step[t] # "blocked"
           /\ \A t \in Steps : t < s => Settled(t)'
           /\ \A t \in Steps : t > s => db'.step[t] = "pending"
<1>1. \A t \in Steps : t < s => Settled(t)'
  BY DEF Settled, Kinds, Steps
<1>2. \A t \in Steps : t > s => db'.step[t] = "pending"
  BY DEF Steps
<1>3. ASSUME NEW t \in Steps, db'.step[t] # "pending", NEW u \in 1 .. t - 1
      PROVE  Settled(u)'
  <2>1. u \in Steps /\ u < t /\ ~(t > s)
    BY <1>2, <1>3, NumStepsAssumption DEF Steps
  <2>2. u < s
    BY <2>1 DEF Steps
  <2> QED
    BY <1>1, <2>1, <2>2
<1>4. ChecklistInOrder'
  BY <1>3 DEF ChecklistInOrder
<1>5. \A t \in Steps : db'.step[t] # "blocked"
  BY DEF OrderInv
<1> QED
  BY <1>1, <1>2, <1>4, <1>5

\* Losing the conclusion of a phase that was under way disturbs no order.
LEMMA SomeLost ==
    ASSUME TypeInv, OrderInv, def' = def,
           \A t \in Steps : \/ db'.step[t] = db.step[t]
                            \/ (db.step[t] \in InPhase /\ db'.step[t] = "unknown")
    PROVE  /\ ChecklistInOrder'
           /\ \A t \in Steps : db'.step[t] # "blocked"
           /\ \A t \in Steps : Settled(t) => Settled(t)'
<1>1. \A t \in Steps : Settled(t) => Settled(t)'
  BY DEF Settled, Kinds, InPhase, Checked
<1>2. \A t \in Steps : db'.step[t] # "pending" => db.step[t] # "pending"
  BY DEF InPhase
<1>3. ASSUME NEW t \in Steps, db'.step[t] # "pending", NEW u \in 1 .. t - 1
      PROVE  Settled(u)'
  <2>1. u \in Steps
    BY NumStepsAssumption DEF Steps
  <2>2. Settled(u)
    BY <1>2, <1>3 DEF OrderInv, ChecklistInOrder
  <2> QED
    BY <1>1, <2>1, <2>2
<1>4. ChecklistInOrder'
  BY <1>3 DEF ChecklistInOrder
<1>5. \A t \in Steps : db'.step[t] # "blocked"
  BY DEF OrderInv
<1> QED
  BY <1>1, <1>4, <1>5


\* The checklist stays in order.  A step moves at the engine's position (OneMoved),
\* or is lost with its process or its run (SomeLost).
LEMMA OrderStep == TypeInv /\ RunInv /\ OneStep => OrderInv'
<1> SUFFICES ASSUME TypeInv, RunInv, OneStep PROVE OrderInv'
  OBVIOUS
<1>0. /\ db \in Database /\ coord \in Coordinator /\ eng \in Engine /\ env \in Environment
      /\ io \in Registries /\ hist \in History /\ InRange
  BY DEF TypeInv, TypeOK
<1>i. RowInv /\ EngineInv /\ CoordInv /\ StepInv /\ CopyInv /\ OrderInv
  BY DEF RunInv
<1>t. TypeInv
  OBVIOUS
<1>1. ASSUME RegisterNew PROVE OrderInv'
  BY <1>0, <1>i, <1>1 DEF RegisterNew, Goto, CanTransitionRun, TransitionRun,
     RegisterRun, NoRun, RowInv, EngineInv, CoordInv, StepInv, CopyInv, OrderInv,
     InOrder, Loaded, Followed, ChecklistInOrder, Settled, Kinds, AtShell, AtManual,
     Ending, Aborting, OnStep, Deciding, Paused, Database, Coordinator, Engine,
     Environment, Registries, InRange
<1>2. ASSUME RegisterResumed PROVE OrderInv'
  BY <1>0, <1>i, <1>2 DEF RegisterResumed, Restored, RegisterRestoredRun, NoRun, RowInv,
     EngineInv, CoordInv, StepInv, CopyInv, OrderInv, InOrder, Loaded, Followed,
     ChecklistInOrder, Settled, Kinds, AtShell, AtManual, Ending, Aborting, OnStep,
     Deciding, Paused, Database, Coordinator, Engine, Environment, Registries, InRange
<1>3. ASSUME Launch PROVE OrderInv'
  BY <1>0, <1>i, <1>3 DEF Launch, Goto, CanTransitionRun, TransitionRun,
     CoordTransitionRun, RowInv, EngineInv, CoordInv, StepInv, CopyInv, OrderInv,
     InOrder, Loaded, Followed, ChecklistInOrder, Settled, Kinds, AtShell, AtManual,
     Ending, Aborting, OnStep, Deciding, Paused, Database, Coordinator, Engine,
     Environment, Registries, InRange
<1>4. ASSUME ProbeCancelled PROVE OrderInv'
  BY <1>0, <1>i, <1>4 DEF ProbeCancelled, Goto, RowInv, EngineInv, CoordInv, StepInv,
     CopyInv, OrderInv, InOrder, Loaded, Followed, ChecklistInOrder, Settled, Kinds,
     AtShell, AtManual, Ending, Aborting, OnStep, Deciding, Paused, Database,
     Coordinator, Engine, Environment, Registries, InRange
<1>5. ASSUME ProbeLost PROVE OrderInv'
  BY <1>0, <1>i, <1>5 DEF ProbeLost, Goto, CoordTargetDrift, RowInv, EngineInv,
     CoordInv, StepInv, CopyInv, OrderInv, InOrder, Loaded, Followed, ChecklistInOrder,
     Settled, Kinds, AtShell, AtManual, Ending, Aborting, OnStep, Deciding, Paused,
     Database, Coordinator, Engine, Environment, Registries, InRange
<1>6. ASSUME ProbeAsks PROVE OrderInv'
  BY <1>0, <1>i, <1>6 DEF ProbeAsks, CreateAttemptIntent, RowInv, EngineInv, CoordInv,
     StepInv, CopyInv, OrderInv, InOrder, Loaded, Followed, ChecklistInOrder, Settled,
     Kinds, AtShell, AtManual, Ending, Aborting, OnStep, Deciding, Paused, Database,
     Coordinator, Engine, Environment, Registries, InRange
<1>7. ASSUME ChecklistDone PROVE OrderInv'
  BY <1>0, <1>i, <1>7 DEF ChecklistDone, StatusFromChecklist, RowInv, EngineInv,
     CoordInv, StepInv, CopyInv, OrderInv, InOrder, Loaded, Followed, ChecklistInOrder,
     Settled, Kinds, AtShell, AtManual, Ending, Aborting, OnStep, Deciding, Paused,
     Database, Coordinator, Engine, Environment, Registries, InRange
<1>8. ASSUME NextCancelled PROVE OrderInv'
  BY <1>0, <1>i, <1>8 DEF NextCancelled, Goto, RowInv, EngineInv, CoordInv, StepInv,
     CopyInv, OrderInv, InOrder, Loaded, Followed, ChecklistInOrder, Settled, Kinds,
     AtShell, AtManual, Ending, Aborting, OnStep, Deciding, Paused, Database,
     Coordinator, Engine, Environment, Registries, InRange
<1>9. ASSUME NextPassed PROVE OrderInv'
  BY <1>0, <1>i, <1>9 DEF NextPassed, Steps, PassesOver, FixedOutcome, RowInv,
     EngineInv, CoordInv, StepInv, CopyInv, OrderInv, InOrder, Loaded, Followed,
     ChecklistInOrder, Settled, Kinds, AtShell, AtManual, Ending, Aborting, OnStep,
     Deciding, Paused, Database, Coordinator, Engine, Environment, Registries, InRange
<1>10. ASSUME NextBegins PROVE OrderInv'
  BY <1>0, <1>i, <1>10 DEF NextBegins, Steps, PassesOver, FixedOutcome, RowInv,
     EngineInv, CoordInv, StepInv, CopyInv, OrderInv, InOrder, Loaded, Followed,
     ChecklistInOrder, Settled, Kinds, AtShell, AtManual, Ending, Aborting, OnStep,
     Deciding, Paused, Database, Coordinator, Engine, Environment, Registries, InRange
<1>11. ASSUME NextUncertain PROVE OrderInv'
  BY <1>0, <1>i, <1>11 DEF NextUncertain, CoordRequireOperator, RowInv, EngineInv,
     CoordInv, StepInv, CopyInv, OrderInv, InOrder, Loaded, Followed, ChecklistInOrder,
     Settled, Kinds, AtShell, AtManual, Ending, Aborting, OnStep, Deciding, Paused,
     Database, Coordinator, Engine, Environment, Registries, InRange
<1>12. ASSUME BeginAgain PROVE OrderInv'
  BY <1>0, <1>i, <1>12 DEF BeginAgain, CanBeginPhase, CoordBeginPhase, SetRunCursor,
     RowInv, EngineInv, CoordInv, StepInv, CopyInv, OrderInv, InOrder, Loaded, Followed,
     ChecklistInOrder, Settled, Kinds, AtShell, AtManual, Ending, Aborting, OnStep,
     Deciding, Paused, Database, Coordinator, Engine, Environment, Registries, InRange
<1>13. ASSUME BeginMoves PROVE OrderInv'
  <2>1. /\ eng.i \in Steps /\ def' = def /\ eng'.i = eng.i
        /\ eng'.pc \notin {"launch", "probe", "next"}
    BY <1>0, <1>13 DEF BeginMoves, CanBeginPhase, CoordBeginPhase, TransitionStep,
       Database, Coordinator, Engine, Environment, Registries, InRange
  <2>2. \A t \in Steps : t # eng.i => db'.step[t] = db.step[t]
    BY <1>0, <1>13 DEF BeginMoves, CanBeginPhase, CoordBeginPhase, TransitionStep,
       Database, Coordinator, Engine, Environment, Registries, InRange
  <2>3. db'.step[eng.i] # "blocked"
    BY <1>0, <1>i, <1>13 DEF BeginMoves, CanBeginPhase, CoordBeginPhase, TransitionStep,
       Database, Coordinator, Engine, Environment, Registries, InRange, StatusOfPhase,
       StatusAfter, Phase, OrderInv
  <2>4. InOrder /\ eng.pc \notin {"off", "exit"}
    BY <1>i, <1>13 DEF BeginMoves, CanBeginPhase, CoordBeginPhase, TransitionStep,
       InOrder, EngineInv, AtShell, AtManual, Ending, Aborting, OnStep, Deciding, Paused
  <2>5. /\ \A t \in Steps : t < eng.i => Settled(t)
        /\ \A t \in Steps : t > eng.i => db.step[t] = "pending"
    BY <1>i, <2>4 DEF OrderInv
  <2> QED
    BY <1>i, <2>1, <2>2, <2>3, <2>5, OneMoved DEF OrderInv
<1>14. ASSUME DispatchCancelled PROVE OrderInv'
  BY <1>0, <1>i, <1>14 DEF DispatchCancelled, Goto, RowInv, EngineInv, CoordInv,
     StepInv, CopyInv, OrderInv, InOrder, Loaded, Followed, ChecklistInOrder, Settled,
     Kinds, AtShell, AtManual, Ending, Aborting, OnStep, Deciding, Paused, Database,
     Coordinator, Engine, Environment, Registries, InRange
<1>15. ASSUME DispatchAgent PROVE OrderInv'
  BY <1>0, <1>i, <1>15 DEF DispatchAgent, RowInv, EngineInv, CoordInv, StepInv, CopyInv,
     OrderInv, InOrder, Loaded, Followed, ChecklistInOrder, Settled, Kinds, AtShell,
     AtManual, Ending, Aborting, OnStep, Deciding, Paused, Database, Coordinator,
     Engine, Environment, Registries, InRange
<1>16. ASSUME DispatchShell PROVE OrderInv'
  BY <1>0, <1>i, <1>16 DEF DispatchShell, CreateAttemptIntent, RowInv, EngineInv,
     CoordInv, StepInv, CopyInv, OrderInv, InOrder, Loaded, Followed, ChecklistInOrder,
     Settled, Kinds, AtShell, AtManual, Ending, Aborting, OnStep, Deciding, Paused,
     Database, Coordinator, Engine, Environment, Registries, InRange
<1>17. ASSUME DispatchManual PROVE OrderInv'
  BY <1>0, <1>i, <1>17 DEF DispatchManual, CreateAttemptIntent, RowInv, EngineInv,
     CoordInv, StepInv, CopyInv, OrderInv, InOrder, Loaded, Followed, ChecklistInOrder,
     Settled, Kinds, AtShell, AtManual, Ending, Aborting, OnStep, Deciding, Paused,
     Database, Coordinator, Engine, Environment, Registries, InRange
<1>18. ASSUME DriftFrom("dispatch") PROVE OrderInv'
  <2>1. /\ eng.i \in Steps /\ def' = def /\ eng'.i = eng.i
        /\ eng'.pc \notin {"launch", "probe", "next"}
    BY <1>0, <1>18 DEF DriftFrom, CoordTargetDrift, CanTransitionStep, TransitionStep,
       Database, Coordinator, Engine, Environment, Registries, InRange
  <2>2. \A t \in Steps : t # eng.i => db'.step[t] = db.step[t]
    BY <1>0, <1>18 DEF DriftFrom, CoordTargetDrift, CanTransitionStep, TransitionStep,
       Database, Coordinator, Engine, Environment, Registries, InRange
  <2>3. db'.step[eng.i] # "blocked"
    BY <1>0, <1>i, <1>18 DEF DriftFrom, CoordTargetDrift, CanTransitionStep,
       TransitionStep, Database, Coordinator, Engine, Environment, Registries, InRange,
       StatusOfPhase, StatusAfter, Phase, OrderInv
  <2>4. InOrder /\ eng.pc \notin {"off", "exit"}
    BY <1>i, <1>18 DEF DriftFrom, CoordTargetDrift, CanTransitionStep, TransitionStep,
       InOrder, EngineInv, AtShell, AtManual, Ending, Aborting, OnStep, Deciding, Paused
  <2>5. /\ \A t \in Steps : t < eng.i => Settled(t)
        /\ \A t \in Steps : t > eng.i => db.step[t] = "pending"
    BY <1>i, <2>4 DEF OrderInv
  <2> QED
    BY <1>i, <2>1, <2>2, <2>3, <2>5, OneMoved DEF OrderInv
<1>19. ASSUME DriftFrom("approved") PROVE OrderInv'
  <2>1. /\ eng.i \in Steps /\ def' = def /\ eng'.i = eng.i
        /\ eng'.pc \notin {"launch", "probe", "next"}
    BY <1>0, <1>19 DEF DriftFrom, CoordTargetDrift, CanTransitionStep, TransitionStep,
       Database, Coordinator, Engine, Environment, Registries, InRange
  <2>2. \A t \in Steps : t # eng.i => db'.step[t] = db.step[t]
    BY <1>0, <1>19 DEF DriftFrom, CoordTargetDrift, CanTransitionStep, TransitionStep,
       Database, Coordinator, Engine, Environment, Registries, InRange
  <2>3. db'.step[eng.i] # "blocked"
    BY <1>0, <1>i, <1>19 DEF DriftFrom, CoordTargetDrift, CanTransitionStep,
       TransitionStep, Database, Coordinator, Engine, Environment, Registries, InRange,
       StatusOfPhase, StatusAfter, Phase, OrderInv
  <2>4. InOrder /\ eng.pc \notin {"off", "exit"}
    BY <1>i, <1>19 DEF DriftFrom, CoordTargetDrift, CanTransitionStep, TransitionStep,
       InOrder, EngineInv, AtShell, AtManual, Ending, Aborting, OnStep, Deciding, Paused
  <2>5. /\ \A t \in Steps : t < eng.i => Settled(t)
        /\ \A t \in Steps : t > eng.i => db.step[t] = "pending"
    BY <1>i, <2>4 DEF OrderInv
  <2> QED
    BY <1>i, <2>1, <2>2, <2>3, <2>5, OneMoved DEF OrderInv
<1>20. ASSUME DriftFrom("manualTarget") PROVE OrderInv'
  <2>1. /\ eng.i \in Steps /\ def' = def /\ eng'.i = eng.i
        /\ eng'.pc \notin {"launch", "probe", "next"}
    BY <1>0, <1>20 DEF DriftFrom, CoordTargetDrift, CanTransitionStep, TransitionStep,
       Database, Coordinator, Engine, Environment, Registries, InRange
  <2>2. \A t \in Steps : t # eng.i => db'.step[t] = db.step[t]
    BY <1>0, <1>20 DEF DriftFrom, CoordTargetDrift, CanTransitionStep, TransitionStep,
       Database, Coordinator, Engine, Environment, Registries, InRange
  <2>3. db'.step[eng.i] # "blocked"
    BY <1>0, <1>i, <1>20 DEF DriftFrom, CoordTargetDrift, CanTransitionStep,
       TransitionStep, Database, Coordinator, Engine, Environment, Registries, InRange,
       StatusOfPhase, StatusAfter, Phase, OrderInv
  <2>4. InOrder /\ eng.pc \notin {"off", "exit"}
    BY <1>i, <1>20 DEF DriftFrom, CoordTargetDrift, CanTransitionStep, TransitionStep,
       InOrder, EngineInv, AtShell, AtManual, Ending, Aborting, OnStep, Deciding, Paused
  <2>5. /\ \A t \in Steps : t < eng.i => Settled(t)
        /\ \A t \in Steps : t > eng.i => db.step[t] = "pending"
    BY <1>i, <2>4 DEF OrderInv
  <2> QED
    BY <1>i, <2>1, <2>2, <2>3, <2>5, OneMoved DEF OrderInv
<1>21. ASSUME DriftRun PROVE OrderInv'
  BY <1>0, <1>i, <1>21 DEF DriftRun, Goto, CanTransitionRun, TransitionRun, RowInv,
     EngineInv, CoordInv, StepInv, CopyInv, OrderInv, InOrder, Loaded, Followed,
     ChecklistInOrder, Settled, Kinds, AtShell, AtManual, Ending, Aborting, OnStep,
     Deciding, Paused, Database, Coordinator, Engine, Environment, Registries, InRange
<1>22. ASSUME DriftAttempt PROVE OrderInv'
  BY <1>0, <1>i, <1>22 DEF DriftAttempt, CanFinishAttempt, FinishAttempt, RowInv,
     EngineInv, CoordInv, StepInv, CopyInv, OrderInv, InOrder, Loaded, Followed,
     ChecklistInOrder, Settled, Kinds, AtShell, AtManual, Ending, Aborting, OnStep,
     Deciding, Paused, Database, Coordinator, Engine, Environment, Registries, InRange
<1>23. ASSUME AskCoordinated PROVE OrderInv'
  BY <1>0, <1>i, <1>23 DEF AskCoordinated, Goto, CanRequestApproval,
     RequestApprovalAwaiting, CoordCanRequestApproval, CoordRequestApproval, RowInv,
     EngineInv, CoordInv, StepInv, CopyInv, OrderInv, InOrder, Loaded, Followed,
     ChecklistInOrder, Settled, Kinds, AtShell, AtManual, Ending, Aborting, OnStep,
     Deciding, Paused, Database, Coordinator, Engine, Environment, Registries, InRange
<1>24. ASSUME AskRefused PROVE OrderInv'
  BY <1>0, <1>i, <1>24 DEF AskRefused, Goto, CanRequestApproval,
     RequestApprovalAwaiting, RowInv, EngineInv, CoordInv, StepInv, CopyInv, OrderInv,
     InOrder, Loaded, Followed, ChecklistInOrder, Settled, Kinds, AtShell, AtManual,
     Ending, Aborting, OnStep, Deciding, Paused, Database, Coordinator, Engine,
     Environment, Registries, InRange
<1>25. ASSUME ApprovalCancelled PROVE OrderInv'
  BY <1>0, <1>i, <1>25 DEF ApprovalCancelled, CancelPendingApprovals, RowInv, EngineInv,
     CoordInv, StepInv, CopyInv, OrderInv, InOrder, Loaded, Followed, ChecklistInOrder,
     Settled, Kinds, AtShell, AtManual, Ending, Aborting, OnStep, Deciding, Paused,
     Database, Coordinator, Engine, Environment, Registries, InRange
<1>26. ASSUME Approved PROVE OrderInv'
  BY <1>0, <1>i, <1>26 DEF Approved, Goto, CanResolveApproval, CanDecideApproval,
     CoordApprove, ApproveAndResume, RowInv, EngineInv, CoordInv, StepInv, CopyInv,
     OrderInv, InOrder, Loaded, Followed, ChecklistInOrder, Settled, Kinds, AtShell,
     AtManual, Ending, Aborting, OnStep, Deciding, Paused, Database, Coordinator,
     Engine, Environment, Registries, InRange
<1>27. ASSUME Declined PROVE OrderInv'
  BY <1>0, <1>i, <1>27 DEF Declined, CanResolveApproval, CanDecideApproval,
     CoordDecline, DeclineApproval, RowInv, EngineInv, CoordInv, StepInv, CopyInv,
     OrderInv, InOrder, Loaded, Followed, ChecklistInOrder, Settled, Kinds, AtShell,
     AtManual, Ending, Aborting, OnStep, Deciding, Paused, Database, Coordinator,
     Engine, Environment, Registries, InRange
<1>28. ASSUME DeclineStep PROVE OrderInv'
  <2>1. /\ eng.i \in Steps /\ def' = def /\ eng'.i = eng.i
        /\ eng'.pc \notin {"launch", "probe", "next"}
    BY <1>0, <1>28 DEF DeclineStep, CanTransitionStep, TransitionStep, Database,
       Coordinator, Engine, Environment, Registries, InRange
  <2>2. \A t \in Steps : t # eng.i => db'.step[t] = db.step[t]
    BY <1>0, <1>28 DEF DeclineStep, CanTransitionStep, TransitionStep, Database,
       Coordinator, Engine, Environment, Registries, InRange
  <2>3. db'.step[eng.i] # "blocked"
    BY <1>0, <1>i, <1>28 DEF DeclineStep, CanTransitionStep, TransitionStep, Database,
       Coordinator, Engine, Environment, Registries, InRange, StatusOfPhase,
       StatusAfter, Phase, OrderInv
  <2>4. InOrder /\ eng.pc \notin {"off", "exit"}
    BY <1>i, <1>28 DEF DeclineStep, CanTransitionStep, TransitionStep, InOrder,
       EngineInv, AtShell, AtManual, Ending, Aborting, OnStep, Deciding, Paused
  <2>5. /\ \A t \in Steps : t < eng.i => Settled(t)
        /\ \A t \in Steps : t > eng.i => db.step[t] = "pending"
    BY <1>i, <2>4 DEF OrderInv
  <2> QED
    BY <1>i, <2>1, <2>2, <2>3, <2>5, OneMoved DEF OrderInv
<1>29. ASSUME DeclineRun PROVE OrderInv'
  BY <1>0, <1>i, <1>29 DEF DeclineRun, Goto, CanTransitionRun, TransitionRun, RowInv,
     EngineInv, CoordInv, StepInv, CopyInv, OrderInv, InOrder, Loaded, Followed,
     ChecklistInOrder, Settled, Kinds, AtShell, AtManual, Ending, Aborting, OnStep,
     Deciding, Paused, Database, Coordinator, Engine, Environment, Registries, InRange
<1>30. ASSUME RecheckCancelled PROVE OrderInv'
  BY <1>0, <1>i, <1>30 DEF RecheckCancelled, CanFinishAttempt, FinishAttempt, RowInv,
     EngineInv, CoordInv, StepInv, CopyInv, OrderInv, InOrder, Loaded, Followed,
     ChecklistInOrder, Settled, Kinds, AtShell, AtManual, Ending, Aborting, OnStep,
     Deciding, Paused, Database, Coordinator, Engine, Environment, Registries, InRange
<1>31. ASSUME RecheckPassed PROVE OrderInv'
  BY <1>0, <1>i, <1>31 DEF RecheckPassed, Goto, RowInv, EngineInv, CoordInv, StepInv,
     CopyInv, OrderInv, InOrder, Loaded, Followed, ChecklistInOrder, Settled, Kinds,
     AtShell, AtManual, Ending, Aborting, OnStep, Deciding, Paused, Database,
     Coordinator, Engine, Environment, Registries, InRange
<1>32. ASSUME StartCommand PROVE OrderInv'
  BY <1>0, <1>i, <1>32 DEF StartCommand, CanStartAttempt, StartAttempt, RowInv,
     EngineInv, CoordInv, StepInv, CopyInv, OrderInv, InOrder, Loaded, Followed,
     ChecklistInOrder, Settled, Kinds, AtShell, AtManual, Ending, Aborting, OnStep,
     Deciding, Paused, Database, Coordinator, Engine, Environment, Registries, InRange
<1>33. ASSUME CommandCancelled PROVE OrderInv'
  BY <1>0, <1>i, <1>33 DEF CommandCancelled, CanFinishAttempt, FinishAttempt, RowInv,
     EngineInv, CoordInv, StepInv, CopyInv, OrderInv, InOrder, Loaded, Followed,
     ChecklistInOrder, Settled, Kinds, AtShell, AtManual, Ending, Aborting, OnStep,
     Deciding, Paused, Database, Coordinator, Engine, Environment, Registries, InRange
<1>34. ASSUME CommandObserved PROVE OrderInv'
  BY <1>0, <1>i, <1>34 DEF CommandObserved, CanFinishAttempt, FinishAttempt, RowInv,
     EngineInv, CoordInv, StepInv, CopyInv, OrderInv, InOrder, Loaded, Followed,
     ChecklistInOrder, Settled, Kinds, AtShell, AtManual, Ending, Aborting, OnStep,
     Deciding, Paused, Database, Coordinator, Engine, Environment, Registries, InRange
<1>35. ASSUME StartManual PROVE OrderInv'
  BY <1>0, <1>i, <1>35 DEF StartManual, Goto, CanStartAttempt, StartAttempt,
     CanRequireOperator, CoordRequireOperator, RowInv, EngineInv, CoordInv, StepInv,
     CopyInv, OrderInv, InOrder, Loaded, Followed, ChecklistInOrder, Settled, Kinds,
     AtShell, AtManual, Ending, Aborting, OnStep, Deciding, Paused, Database,
     Coordinator, Engine, Environment, Registries, InRange
<1>36. ASSUME OpenApply PROVE OrderInv'
  BY <1>0, <1>i, <1>36 DEF OpenApply, Goto, CanTransitionRun, TransitionRun, Mutated,
     RowInv, EngineInv, CoordInv, StepInv, CopyInv, OrderInv, InOrder, Loaded, Followed,
     ChecklistInOrder, Settled, Kinds, AtShell, AtManual, Ending, Aborting, OnStep,
     Deciding, Paused, Database, Coordinator, Engine, Environment, Registries, InRange
<1>37. ASSUME OpenOther PROVE OrderInv'
  BY <1>0, <1>i, <1>37 DEF OpenOther, Goto, CanTransitionRun, TransitionRun, RowInv,
     EngineInv, CoordInv, StepInv, CopyInv, OrderInv, InOrder, Loaded, Followed,
     ChecklistInOrder, Settled, Kinds, AtShell, AtManual, Ending, Aborting, OnStep,
     Deciding, Paused, Database, Coordinator, Engine, Environment, Registries, InRange
<1>38. ASSUME ManualCancelled PROVE OrderInv'
  BY <1>0, <1>i, <1>38 DEF ManualCancelled, CanFinishAttempt, FinishAttempt, RowInv,
     EngineInv, CoordInv, StepInv, CopyInv, OrderInv, InOrder, Loaded, Followed,
     ChecklistInOrder, Settled, Kinds, AtShell, AtManual, Ending, Aborting, OnStep,
     Deciding, Paused, Database, Coordinator, Engine, Environment, Registries, InRange
<1>39. ASSUME ManualAnswered PROVE OrderInv'
  BY <1>0, <1>i, <1>39 DEF ManualAnswered, CanTransitionRun, TransitionRun,
     CoordOperatorAnswered, RowInv, EngineInv, CoordInv, StepInv, CopyInv, OrderInv,
     InOrder, Loaded, Followed, ChecklistInOrder, Settled, Kinds, AtShell, AtManual,
     Ending, Aborting, OnStep, Deciding, Paused, Database, Coordinator, Engine,
     Environment, Registries, InRange
<1>40. ASSUME ManualObserved PROVE OrderInv'
  BY <1>0, <1>i, <1>40 DEF ManualObserved, CanFinishAttempt, FinishAttempt, RowInv,
     EngineInv, CoordInv, StepInv, CopyInv, OrderInv, InOrder, Loaded, Followed,
     ChecklistInOrder, Settled, Kinds, AtShell, AtManual, Ending, Aborting, OnStep,
     Deciding, Paused, Database, Coordinator, Engine, Environment, Registries, InRange
<1>41. ASSUME PhaseApplied PROVE OrderInv'
  <2>1. /\ eng.i \in Steps /\ def' = def /\ eng'.i = eng.i
        /\ eng'.pc \notin {"launch", "probe", "next"}
    BY <1>0, <1>41 DEF PhaseApplied, PhaseEnds, CanCompletePhase, CoordCompletePhase,
       CanTransitionStep, TransitionStep, Database, Coordinator, Engine, Environment,
       Registries, InRange
  <2>2. \A t \in Steps : t # eng.i => db'.step[t] = db.step[t]
    BY <1>0, <1>41 DEF PhaseApplied, PhaseEnds, CanCompletePhase, CoordCompletePhase,
       CanTransitionStep, TransitionStep, Database, Coordinator, Engine, Environment,
       Registries, InRange
  <2>3. db'.step[eng.i] # "blocked"
    BY <1>0, <1>i, <1>41 DEF PhaseApplied, PhaseEnds, CanCompletePhase,
       CoordCompletePhase, CanTransitionStep, TransitionStep, Database, Coordinator,
       Engine, Environment, Registries, InRange, StatusOfPhase, StatusAfter, Phase,
       OrderInv
  <2>4. InOrder /\ eng.pc \notin {"off", "exit"}
    BY <1>i, <1>41 DEF PhaseApplied, PhaseEnds, CanCompletePhase, CoordCompletePhase,
       CanTransitionStep, TransitionStep, InOrder, EngineInv, AtShell, AtManual, Ending,
       Aborting, OnStep, Deciding, Paused
  <2>5. /\ \A t \in Steps : t < eng.i => Settled(t)
        /\ \A t \in Steps : t > eng.i => db.step[t] = "pending"
    BY <1>i, <2>4 DEF OrderInv
  <2> QED
    BY <1>i, <2>1, <2>2, <2>3, <2>5, OneMoved DEF OrderInv
<1>42. ASSUME PhaseNeedsApply PROVE OrderInv'
  <2>1. /\ eng.i \in Steps /\ def' = def /\ eng'.i = eng.i
        /\ eng'.pc \notin {"launch", "probe", "next"}
    BY <1>0, <1>42 DEF PhaseNeedsApply, PhaseEnds, CanCompletePhase, CoordCompletePhase,
       CanTransitionStep, TransitionStep, Database, Coordinator, Engine, Environment,
       Registries, InRange
  <2>2. \A t \in Steps : t # eng.i => db'.step[t] = db.step[t]
    BY <1>0, <1>42 DEF PhaseNeedsApply, PhaseEnds, CanCompletePhase, CoordCompletePhase,
       CanTransitionStep, TransitionStep, Database, Coordinator, Engine, Environment,
       Registries, InRange
  <2>3. db'.step[eng.i] # "blocked"
    BY <1>0, <1>i, <1>42 DEF PhaseNeedsApply, PhaseEnds, CanCompletePhase,
       CoordCompletePhase, CanTransitionStep, TransitionStep, Database, Coordinator,
       Engine, Environment, Registries, InRange, StatusOfPhase, StatusAfter, Phase,
       OrderInv
  <2>4. InOrder /\ eng.pc \notin {"off", "exit"}
    BY <1>i, <1>42 DEF PhaseNeedsApply, PhaseEnds, CanCompletePhase, CoordCompletePhase,
       CanTransitionStep, TransitionStep, InOrder, EngineInv, AtShell, AtManual, Ending,
       Aborting, OnStep, Deciding, Paused
  <2>5. /\ \A t \in Steps : t < eng.i => Settled(t)
        /\ \A t \in Steps : t > eng.i => db.step[t] = "pending"
    BY <1>i, <2>4 DEF OrderInv
  <2> QED
    BY <1>i, <2>1, <2>2, <2>3, <2>5, OneMoved DEF OrderInv
<1>43. ASSUME PhaseAssessed PROVE OrderInv'
  <2>1. /\ eng.i \in Steps /\ def' = def /\ eng'.i = eng.i
        /\ eng'.pc \notin {"launch", "probe", "next"}
    BY <1>0, <1>43 DEF PhaseAssessed, PhaseEnds, CanCompletePhase, CoordCompletePhase,
       CanTransitionStep, TransitionStep, Database, Coordinator, Engine, Environment,
       Registries, InRange
  <2>2. \A t \in Steps : t # eng.i => db'.step[t] = db.step[t]
    BY <1>0, <1>43 DEF PhaseAssessed, PhaseEnds, CanCompletePhase, CoordCompletePhase,
       CanTransitionStep, TransitionStep, Database, Coordinator, Engine, Environment,
       Registries, InRange
  <2>3. db'.step[eng.i] # "blocked"
    BY <1>0, <1>i, <1>43 DEF PhaseAssessed, PhaseEnds, CanCompletePhase,
       CoordCompletePhase, CanTransitionStep, TransitionStep, Database, Coordinator,
       Engine, Environment, Registries, InRange, StatusOfPhase, StatusAfter, Phase,
       OrderInv
  <2>4. InOrder /\ eng.pc \notin {"off", "exit"}
    BY <1>i, <1>43 DEF PhaseAssessed, PhaseEnds, CanCompletePhase, CoordCompletePhase,
       CanTransitionStep, TransitionStep, InOrder, EngineInv, AtShell, AtManual, Ending,
       Aborting, OnStep, Deciding, Paused
  <2>5. /\ \A t \in Steps : t < eng.i => Settled(t)
        /\ \A t \in Steps : t > eng.i => db.step[t] = "pending"
    BY <1>i, <2>4 DEF OrderInv
  <2> QED
    BY <1>i, <2>1, <2>2, <2>3, <2>5, OneMoved DEF OrderInv
<1>44. ASSUME PhaseSettles("compliant") PROVE OrderInv'
  <2>1. /\ eng.i \in Steps /\ def' = def /\ eng'.i = eng.i
        /\ eng'.pc \notin {"launch", "probe", "next"}
    BY <1>0, <1>44 DEF PhaseSettles, PhaseEnds, CanCompletePhase, CoordCompletePhase,
       CanTransitionStep, TransitionStep, Database, Coordinator, Engine, Environment,
       Registries, InRange
  <2>2. \A t \in Steps : t # eng.i => db'.step[t] = db.step[t]
    BY <1>0, <1>44 DEF PhaseSettles, PhaseEnds, CanCompletePhase, CoordCompletePhase,
       CanTransitionStep, TransitionStep, Database, Coordinator, Engine, Environment,
       Registries, InRange
  <2>3. db'.step[eng.i] # "blocked"
    BY <1>0, <1>i, <1>44 DEF PhaseSettles, PhaseEnds, CanCompletePhase,
       CoordCompletePhase, CanTransitionStep, TransitionStep, Database, Coordinator,
       Engine, Environment, Registries, InRange, StatusOfPhase, StatusAfter, Phase,
       OrderInv
  <2>4. InOrder /\ eng.pc \notin {"off", "exit"}
    BY <1>i, <1>44 DEF PhaseSettles, PhaseEnds, CanCompletePhase, CoordCompletePhase,
       CanTransitionStep, TransitionStep, InOrder, EngineInv, AtShell, AtManual, Ending,
       Aborting, OnStep, Deciding, Paused
  <2>5. /\ \A t \in Steps : t < eng.i => Settled(t)
        /\ \A t \in Steps : t > eng.i => db.step[t] = "pending"
    BY <1>i, <2>4 DEF OrderInv
  <2> QED
    BY <1>i, <2>1, <2>2, <2>3, <2>5, OneMoved DEF OrderInv
<1>45. ASSUME PhaseSettles("verified") PROVE OrderInv'
  <2>1. /\ eng.i \in Steps /\ def' = def /\ eng'.i = eng.i
        /\ eng'.pc \notin {"launch", "probe", "next"}
    BY <1>0, <1>45 DEF PhaseSettles, PhaseEnds, CanCompletePhase, CoordCompletePhase,
       CanTransitionStep, TransitionStep, Database, Coordinator, Engine, Environment,
       Registries, InRange
  <2>2. \A t \in Steps : t # eng.i => db'.step[t] = db.step[t]
    BY <1>0, <1>45 DEF PhaseSettles, PhaseEnds, CanCompletePhase, CoordCompletePhase,
       CanTransitionStep, TransitionStep, Database, Coordinator, Engine, Environment,
       Registries, InRange
  <2>3. db'.step[eng.i] # "blocked"
    BY <1>0, <1>i, <1>45 DEF PhaseSettles, PhaseEnds, CanCompletePhase,
       CoordCompletePhase, CanTransitionStep, TransitionStep, Database, Coordinator,
       Engine, Environment, Registries, InRange, StatusOfPhase, StatusAfter, Phase,
       OrderInv
  <2>4. InOrder /\ eng.pc \notin {"off", "exit"}
    BY <1>i, <1>45 DEF PhaseSettles, PhaseEnds, CanCompletePhase, CoordCompletePhase,
       CanTransitionStep, TransitionStep, InOrder, EngineInv, AtShell, AtManual, Ending,
       Aborting, OnStep, Deciding, Paused
  <2>5. /\ \A t \in Steps : t < eng.i => Settled(t)
        /\ \A t \in Steps : t > eng.i => db.step[t] = "pending"
    BY <1>i, <2>4 DEF OrderInv
  <2> QED
    BY <1>i, <2>1, <2>2, <2>3, <2>5, OneMoved DEF OrderInv
<1>46. ASSUME PhaseSettles("failed") PROVE OrderInv'
  <2>1. /\ eng.i \in Steps /\ def' = def /\ eng'.i = eng.i
        /\ eng'.pc \notin {"launch", "probe", "next"}
    BY <1>0, <1>46 DEF PhaseSettles, PhaseEnds, CanCompletePhase, CoordCompletePhase,
       CanTransitionStep, TransitionStep, Database, Coordinator, Engine, Environment,
       Registries, InRange
  <2>2. \A t \in Steps : t # eng.i => db'.step[t] = db.step[t]
    BY <1>0, <1>46 DEF PhaseSettles, PhaseEnds, CanCompletePhase, CoordCompletePhase,
       CanTransitionStep, TransitionStep, Database, Coordinator, Engine, Environment,
       Registries, InRange
  <2>3. db'.step[eng.i] # "blocked"
    BY <1>0, <1>i, <1>46 DEF PhaseSettles, PhaseEnds, CanCompletePhase,
       CoordCompletePhase, CanTransitionStep, TransitionStep, Database, Coordinator,
       Engine, Environment, Registries, InRange, StatusOfPhase, StatusAfter, Phase,
       OrderInv
  <2>4. InOrder /\ eng.pc \notin {"off", "exit"}
    BY <1>i, <1>46 DEF PhaseSettles, PhaseEnds, CanCompletePhase, CoordCompletePhase,
       CanTransitionStep, TransitionStep, InOrder, EngineInv, AtShell, AtManual, Ending,
       Aborting, OnStep, Deciding, Paused
  <2>5. /\ \A t \in Steps : t < eng.i => Settled(t)
        /\ \A t \in Steps : t > eng.i => db.step[t] = "pending"
    BY <1>i, <2>4 DEF OrderInv
  <2> QED
    BY <1>i, <2>1, <2>2, <2>3, <2>5, OneMoved DEF OrderInv
<1>47. ASSUME PhaseSettles("unknown") PROVE OrderInv'
  <2>1. /\ eng.i \in Steps /\ def' = def /\ eng'.i = eng.i
        /\ eng'.pc \notin {"launch", "probe", "next"}
    BY <1>0, <1>47 DEF PhaseSettles, PhaseEnds, CanCompletePhase, CoordCompletePhase,
       CanTransitionStep, TransitionStep, Database, Coordinator, Engine, Environment,
       Registries, InRange
  <2>2. \A t \in Steps : t # eng.i => db'.step[t] = db.step[t]
    BY <1>0, <1>47 DEF PhaseSettles, PhaseEnds, CanCompletePhase, CoordCompletePhase,
       CanTransitionStep, TransitionStep, Database, Coordinator, Engine, Environment,
       Registries, InRange
  <2>3. db'.step[eng.i] # "blocked"
    BY <1>0, <1>i, <1>47 DEF PhaseSettles, PhaseEnds, CanCompletePhase,
       CoordCompletePhase, CanTransitionStep, TransitionStep, Database, Coordinator,
       Engine, Environment, Registries, InRange, StatusOfPhase, StatusAfter, Phase,
       OrderInv
  <2>4. InOrder /\ eng.pc \notin {"off", "exit"}
    BY <1>i, <1>47 DEF PhaseSettles, PhaseEnds, CanCompletePhase, CoordCompletePhase,
       CanTransitionStep, TransitionStep, InOrder, EngineInv, AtShell, AtManual, Ending,
       Aborting, OnStep, Deciding, Paused
  <2>5. /\ \A t \in Steps : t < eng.i => Settled(t)
        /\ \A t \in Steps : t > eng.i => db.step[t] = "pending"
    BY <1>i, <2>4 DEF OrderInv
  <2> QED
    BY <1>i, <2>1, <2>2, <2>3, <2>5, OneMoved DEF OrderInv
<1>48. ASSUME SettleVerifies PROVE OrderInv'
  BY <1>0, <1>i, <1>48 DEF SettleVerifies, SetRunCursor, RowInv, EngineInv, CoordInv,
     StepInv, CopyInv, OrderInv, InOrder, Loaded, Followed, ChecklistInOrder, Settled,
     Kinds, AtShell, AtManual, Ending, Aborting, OnStep, Deciding, Paused, Database,
     Coordinator, Engine, Environment, Registries, InRange
<1>49. ASSUME SettleChecksOff PROVE OrderInv'
  BY <1>0, <1>i, <1>49 DEF SettleChecksOff, SetRunCursor, Goto, RowInv, EngineInv,
     CoordInv, StepInv, CopyInv, OrderInv, InOrder, Loaded, Followed, ChecklistInOrder,
     Settled, Kinds, AtShell, AtManual, Ending, Aborting, OnStep, Deciding, Paused,
     Database, Coordinator, Engine, Environment, Registries, InRange
<1>50. ASSUME SettlePauses("policy") PROVE OrderInv'
  BY <1>0, <1>i, <1>50 DEF SettlePauses, Goto, CanTransitionRun, TransitionRun, RowInv,
     EngineInv, CoordInv, StepInv, CopyInv, OrderInv, InOrder, Loaded, Followed,
     ChecklistInOrder, Settled, Kinds, AtShell, AtManual, Ending, Aborting, OnStep,
     Deciding, Paused, Database, Coordinator, Engine, Environment, Registries, InRange
<1>51. ASSUME SettlePauses("decide") PROVE OrderInv'
  BY <1>0, <1>i, <1>51 DEF SettlePauses, Goto, CanTransitionRun, TransitionRun, RowInv,
     EngineInv, CoordInv, StepInv, CopyInv, OrderInv, InOrder, Loaded, Followed,
     ChecklistInOrder, Settled, Kinds, AtShell, AtManual, Ending, Aborting, OnStep,
     Deciding, Paused, Database, Coordinator, Engine, Environment, Registries, InRange
<1>52. ASSUME Assess PROVE OrderInv'
  BY <1>0, <1>i, <1>52 DEF Assess, Goto, CoordContinueAssessment, SetRunCursor, RowInv,
     EngineInv, CoordInv, StepInv, CopyInv, OrderInv, InOrder, Loaded, Followed,
     ChecklistInOrder, Settled, Kinds, AtShell, AtManual, Ending, Aborting, OnStep,
     Deciding, Paused, Database, Coordinator, Engine, Environment, Registries, InRange
<1>53. ASSUME Settles("policy", "failed") PROVE OrderInv'
  <2>1. /\ eng.i \in Steps /\ def' = def /\ eng'.i = eng.i
        /\ eng'.pc \notin {"launch", "probe", "next"}
    BY <1>0, <1>53 DEF Settles, SettleAs, CoordSettleStep, CanResolveStep,
       CanSettleStep, SettleStep, Database, Coordinator, Engine, Environment,
       Registries, InRange
  <2>2. \A t \in Steps : t # eng.i => db'.step[t] = db.step[t]
    BY <1>0, <1>53 DEF Settles, SettleAs, CoordSettleStep, CanResolveStep,
       CanSettleStep, SettleStep, Database, Coordinator, Engine, Environment,
       Registries, InRange
  <2>3. db'.step[eng.i] # "blocked"
    BY <1>0, <1>i, <1>53 DEF Settles, SettleAs, CoordSettleStep, CanResolveStep,
       CanSettleStep, SettleStep, Database, Coordinator, Engine, Environment,
       Registries, InRange, StatusOfPhase, StatusAfter, Phase, OrderInv
  <2>4. InOrder /\ eng.pc \notin {"off", "exit"}
    BY <1>i, <1>53 DEF Settles, SettleAs, CoordSettleStep, CanResolveStep,
       CanSettleStep, SettleStep, InOrder, EngineInv, AtShell, AtManual, Ending,
       Aborting, OnStep, Deciding, Paused
  <2>5. /\ \A t \in Steps : t < eng.i => Settled(t)
        /\ \A t \in Steps : t > eng.i => db.step[t] = "pending"
    BY <1>i, <2>4 DEF OrderInv
  <2> QED
    BY <1>i, <2>1, <2>2, <2>3, <2>5, OneMoved DEF OrderInv
<1>54. ASSUME Stops("policy") PROVE OrderInv'
  <2>1. /\ eng.i \in Steps /\ def' = def /\ eng'.i = eng.i
        /\ eng'.pc \notin {"launch", "probe", "next"}
    BY <1>0, <1>54 DEF Stops, SettleStopped, CoordStop, CanResolveStep, CanSettleStep,
       SettleStep, Database, Coordinator, Engine, Environment, Registries, InRange
  <2>2. \A t \in Steps : t # eng.i => db'.step[t] = db.step[t]
    BY <1>0, <1>54 DEF Stops, SettleStopped, CoordStop, CanResolveStep, CanSettleStep,
       SettleStep, Database, Coordinator, Engine, Environment, Registries, InRange
  <2>3. db'.step[eng.i] # "blocked"
    BY <1>0, <1>i, <1>54 DEF Stops, SettleStopped, CoordStop, CanResolveStep,
       CanSettleStep, SettleStep, Database, Coordinator, Engine, Environment,
       Registries, InRange, StatusOfPhase, StatusAfter, Phase, OrderInv
  <2>4. InOrder /\ eng.pc \notin {"off", "exit"}
    BY <1>i, <1>54 DEF Stops, SettleStopped, CoordStop, CanResolveStep, CanSettleStep,
       SettleStep, InOrder, EngineInv, AtShell, AtManual, Ending, Aborting, OnStep,
       Deciding, Paused
  <2>5. /\ \A t \in Steps : t < eng.i => Settled(t)
        /\ \A t \in Steps : t > eng.i => db.step[t] = "pending"
    BY <1>i, <2>4 DEF OrderInv
  <2> QED
    BY <1>i, <2>1, <2>2, <2>3, <2>5, OneMoved DEF OrderInv
<1>55. ASSUME AwaitDecision PROVE OrderInv'
  BY <1>0, <1>i, <1>55 DEF AwaitDecision, Goto, RowInv, EngineInv, CoordInv, StepInv,
     CopyInv, OrderInv, InOrder, Loaded, Followed, ChecklistInOrder, Settled, Kinds,
     AtShell, AtManual, Ending, Aborting, OnStep, Deciding, Paused, Database,
     Coordinator, Engine, Environment, Registries, InRange
<1>56. ASSUME Retries PROVE OrderInv'
  <2>1. /\ eng.i \in Steps /\ def' = def /\ eng'.i = eng.i
        /\ eng'.pc \notin {"launch", "probe", "next"}
    BY <1>0, <1>56 DEF Retries, CoordSettleStep, ResetStepForRetry, CanResolveStep,
       CanSettleStep, SettleStep, Database, Coordinator, Engine, Environment,
       Registries, InRange
  <2>2. \A t \in Steps : t # eng.i => db'.step[t] = db.step[t]
    BY <1>0, <1>56 DEF Retries, CoordSettleStep, ResetStepForRetry, CanResolveStep,
       CanSettleStep, SettleStep, Database, Coordinator, Engine, Environment,
       Registries, InRange
  <2>3. db'.step[eng.i] # "blocked"
    BY <1>0, <1>i, <1>56 DEF Retries, CoordSettleStep, ResetStepForRetry,
       CanResolveStep, CanSettleStep, SettleStep, Database, Coordinator, Engine,
       Environment, Registries, InRange, StatusOfPhase, StatusAfter, Phase, OrderInv
  <2>4. InOrder /\ eng.pc \notin {"off", "exit"}
    BY <1>i, <1>56 DEF Retries, CoordSettleStep, ResetStepForRetry, CanResolveStep,
       CanSettleStep, SettleStep, InOrder, EngineInv, AtShell, AtManual, Ending,
       Aborting, OnStep, Deciding, Paused
  <2>5. /\ \A t \in Steps : t < eng.i => Settled(t)
        /\ \A t \in Steps : t > eng.i => db.step[t] = "pending"
    BY <1>i, <2>4 DEF OrderInv
  <2> QED
    BY <1>i, <2>1, <2>2, <2>3, <2>5, OneMoved DEF OrderInv
<1>57. ASSUME Settles("deciding", "skipped") PROVE OrderInv'
  <2>1. /\ eng.i \in Steps /\ def' = def /\ eng'.i = eng.i
        /\ eng'.pc \notin {"launch", "probe", "next"}
    BY <1>0, <1>57 DEF Settles, SettleAs, CoordSettleStep, CanResolveStep,
       CanSettleStep, SettleStep, Database, Coordinator, Engine, Environment,
       Registries, InRange
  <2>2. \A t \in Steps : t # eng.i => db'.step[t] = db.step[t]
    BY <1>0, <1>57 DEF Settles, SettleAs, CoordSettleStep, CanResolveStep,
       CanSettleStep, SettleStep, Database, Coordinator, Engine, Environment,
       Registries, InRange
  <2>3. db'.step[eng.i] # "blocked"
    BY <1>0, <1>i, <1>57 DEF Settles, SettleAs, CoordSettleStep, CanResolveStep,
       CanSettleStep, SettleStep, Database, Coordinator, Engine, Environment,
       Registries, InRange, StatusOfPhase, StatusAfter, Phase, OrderInv
  <2>4. InOrder /\ eng.pc \notin {"off", "exit"}
    BY <1>i, <1>57 DEF Settles, SettleAs, CoordSettleStep, CanResolveStep,
       CanSettleStep, SettleStep, InOrder, EngineInv, AtShell, AtManual, Ending,
       Aborting, OnStep, Deciding, Paused
  <2>5. /\ \A t \in Steps : t < eng.i => Settled(t)
        /\ \A t \in Steps : t > eng.i => db.step[t] = "pending"
    BY <1>i, <2>4 DEF OrderInv
  <2> QED
    BY <1>i, <2>1, <2>2, <2>3, <2>5, OneMoved DEF OrderInv
<1>58. ASSUME Settles("deciding", "waived") PROVE OrderInv'
  <2>1. /\ eng.i \in Steps /\ def' = def /\ eng'.i = eng.i
        /\ eng'.pc \notin {"launch", "probe", "next"}
    BY <1>0, <1>58 DEF Settles, SettleAs, CoordSettleStep, CanResolveStep,
       CanSettleStep, SettleStep, Database, Coordinator, Engine, Environment,
       Registries, InRange
  <2>2. \A t \in Steps : t # eng.i => db'.step[t] = db.step[t]
    BY <1>0, <1>58 DEF Settles, SettleAs, CoordSettleStep, CanResolveStep,
       CanSettleStep, SettleStep, Database, Coordinator, Engine, Environment,
       Registries, InRange
  <2>3. db'.step[eng.i] # "blocked"
    BY <1>0, <1>i, <1>58 DEF Settles, SettleAs, CoordSettleStep, CanResolveStep,
       CanSettleStep, SettleStep, Database, Coordinator, Engine, Environment,
       Registries, InRange, StatusOfPhase, StatusAfter, Phase, OrderInv
  <2>4. InOrder /\ eng.pc \notin {"off", "exit"}
    BY <1>i, <1>58 DEF Settles, SettleAs, CoordSettleStep, CanResolveStep,
       CanSettleStep, SettleStep, InOrder, EngineInv, AtShell, AtManual, Ending,
       Aborting, OnStep, Deciding, Paused
  <2>5. /\ \A t \in Steps : t < eng.i => Settled(t)
        /\ \A t \in Steps : t > eng.i => db.step[t] = "pending"
    BY <1>i, <2>4 DEF OrderInv
  <2> QED
    BY <1>i, <2>1, <2>2, <2>3, <2>5, OneMoved DEF OrderInv
<1>59. ASSUME Stops("deciding") PROVE OrderInv'
  <2>1. /\ eng.i \in Steps /\ def' = def /\ eng'.i = eng.i
        /\ eng'.pc \notin {"launch", "probe", "next"}
    BY <1>0, <1>59 DEF Stops, SettleStopped, CoordStop, CanResolveStep, CanSettleStep,
       SettleStep, Database, Coordinator, Engine, Environment, Registries, InRange
  <2>2. \A t \in Steps : t # eng.i => db'.step[t] = db.step[t]
    BY <1>0, <1>59 DEF Stops, SettleStopped, CoordStop, CanResolveStep, CanSettleStep,
       SettleStep, Database, Coordinator, Engine, Environment, Registries, InRange
  <2>3. db'.step[eng.i] # "blocked"
    BY <1>0, <1>i, <1>59 DEF Stops, SettleStopped, CoordStop, CanResolveStep,
       CanSettleStep, SettleStep, Database, Coordinator, Engine, Environment,
       Registries, InRange, StatusOfPhase, StatusAfter, Phase, OrderInv
  <2>4. InOrder /\ eng.pc \notin {"off", "exit"}
    BY <1>i, <1>59 DEF Stops, SettleStopped, CoordStop, CanResolveStep, CanSettleStep,
       SettleStep, InOrder, EngineInv, AtShell, AtManual, Ending, Aborting, OnStep,
       Deciding, Paused
  <2>5. /\ \A t \in Steps : t < eng.i => Settled(t)
        /\ \A t \in Steps : t > eng.i => db.step[t] = "pending"
    BY <1>i, <2>4 DEF OrderInv
  <2> QED
    BY <1>i, <2>1, <2>2, <2>3, <2>5, OneMoved DEF OrderInv
<1>60. ASSUME DecisionCancelled PROVE OrderInv'
  BY <1>0, <1>i, <1>60 DEF DecisionCancelled, Goto, RowInv, EngineInv, CoordInv,
     StepInv, CopyInv, OrderInv, InOrder, Loaded, Followed, ChecklistInOrder, Settled,
     Kinds, AtShell, AtManual, Ending, Aborting, OnStep, Deciding, Paused, Database,
     Coordinator, Engine, Environment, Registries, InRange
<1>61. ASSUME SummaryNext PROVE OrderInv'
  BY <1>0, <1>i, <1>61 DEF SummaryNext, UpdateStepDetails, Steps, PassesOver,
     FixedOutcome, RowInv, EngineInv, CoordInv, StepInv, CopyInv, OrderInv, InOrder,
     Loaded, Followed, ChecklistInOrder, Settled, Kinds, AtShell, AtManual, Ending,
     Aborting, OnStep, Deciding, Paused, Database, Coordinator, Engine, Environment,
     Registries, InRange
<1>62. ASSUME SummaryEnds PROVE OrderInv'
  BY <1>0, <1>i, <1>62 DEF SummaryEnds, UpdateStepDetails, RowInv, EngineInv, CoordInv,
     StepInv, CopyInv, OrderInv, InOrder, Loaded, Followed, ChecklistInOrder, Settled,
     Kinds, AtShell, AtManual, Ending, Aborting, OnStep, Deciding, Paused, Database,
     Coordinator, Engine, Environment, Registries, InRange
<1>63. ASSUME FinishCancelled PROVE OrderInv'
  BY <1>0, <1>i, <1>63 DEF FinishCancelled, CancelPendingApprovals, RowInv, EngineInv,
     CoordInv, StepInv, CopyInv, OrderInv, InOrder, Loaded, Followed, ChecklistInOrder,
     Settled, Kinds, AtShell, AtManual, Ending, Aborting, OnStep, Deciding, Paused,
     Database, Coordinator, Engine, Environment, Registries, InRange
<1>64. ASSUME MarkNothing PROVE OrderInv'
  BY <1>0, <1>i, <1>64 DEF MarkNothing, Goto, RowInv, EngineInv, CoordInv, StepInv,
     CopyInv, OrderInv, InOrder, Loaded, Followed, ChecklistInOrder, Settled, Kinds,
     AtShell, AtManual, Ending, Aborting, OnStep, Deciding, Paused, Database,
     Coordinator, Engine, Environment, Registries, InRange
<1>65. ASSUME NEW s \in Steps, MarkOne(s) PROVE OrderInv'
  <2>1. /\ def' = def /\ (eng'.i = eng.i \/ eng'.pc = "off")
        /\ eng'.pc \notin {"launch", "probe", "next"}
    BY <1>0, <1>i, <1>65 DEF MarkOne, TransitionStep, Database, Coordinator, Engine,
       Environment, Registries, InRange, CopyInv, Loaded, EngineInv
  <2>2. \A t \in Steps : \/ db'.step[t] = db.step[t]
                       \/ (db.step[t] \in InPhase /\ db'.step[t] = "unknown")
    BY <1>0, <1>i, <1>65 DEF MarkOne, TransitionStep, Database, Coordinator, Engine,
       Environment, Registries, InRange, CopyInv, Loaded, EngineInv
  <2>3. ~InOrder'
    BY <1>0, <1>i, <1>65 DEF MarkOne, TransitionStep, Database, Coordinator, Engine,
       Environment, Registries, InRange, CopyInv, Loaded, EngineInv, InOrder, AtShell,
       AtManual, Ending, Aborting, OnStep, Deciding, Paused
  <2>4. eng'.pc \notin {"off", "exit"} => eng.pc \notin {"off", "exit"}
    BY <1>0, <1>i, <1>65 DEF MarkOne, TransitionStep, Database, Coordinator, Engine,
       Environment, Registries, InRange, CopyInv, Loaded, EngineInv
  <2> QED
    BY <1>i, <2>1, <2>2, <2>3, <2>4, SomeLost DEF OrderInv
<1>66. ASSUME WrapUp PROVE OrderInv'
  BY <1>0, <1>i, <1>66 DEF WrapUp, Goto, RowInv, EngineInv, CoordInv, StepInv, CopyInv,
     OrderInv, InOrder, Loaded, Followed, ChecklistInOrder, Settled, Kinds, AtShell,
     AtManual, Ending, Aborting, OnStep, Deciding, Paused, Database, Coordinator,
     Engine, Environment, Registries, InRange
<1>67. ASSUME Finalize PROVE OrderInv'
  BY <1>0, <1>i, <1>67 DEF Finalize, Goto, CanFinalizeRun, FinalizeRun,
     CoordTransitionRun, RowInv, EngineInv, CoordInv, StepInv, CopyInv, OrderInv,
     InOrder, Loaded, Followed, ChecklistInOrder, Settled, Kinds, AtShell, AtManual,
     Ending, Aborting, OnStep, Deciding, Paused, Database, Coordinator, Engine,
     Environment, Registries, InRange
<1>68. ASSUME EngineError PROVE OrderInv'
  BY <1>0, <1>i, <1>68 DEF EngineError, Goto, Refused, RowInv, EngineInv, CoordInv,
     StepInv, CopyInv, OrderInv, InOrder, Loaded, Followed, ChecklistInOrder, Settled,
     Kinds, AtShell, AtManual, Ending, Aborting, OnStep, Deciding, Paused, Database,
     Coordinator, Engine, Environment, Registries, InRange
<1>69. ASSUME Abort PROVE OrderInv'
  BY <1>0, <1>i, <1>69 DEF Abort, Goto, CancelPendingApprovals, RowInv, EngineInv,
     CoordInv, StepInv, CopyInv, OrderInv, InOrder, Loaded, Followed, ChecklistInOrder,
     Settled, Kinds, AtShell, AtManual, Ending, Aborting, OnStep, Deciding, Paused,
     Database, Coordinator, Engine, Environment, Registries, InRange
<1>70. ASSUME AbortedSteps PROVE OrderInv'
  BY <1>0, <1>i, <1>70 DEF AbortedSteps, Goto, RowInv, EngineInv, CoordInv, StepInv,
     CopyInv, OrderInv, InOrder, Loaded, Followed, ChecklistInOrder, Settled, Kinds,
     AtShell, AtManual, Ending, Aborting, OnStep, Deciding, Paused, Database,
     Coordinator, Engine, Environment, Registries, InRange
<1>71. ASSUME NEW s \in Steps, AbortOne(s) PROVE OrderInv'
  <2>1. /\ def' = def /\ (eng'.i = eng.i \/ eng'.pc = "off")
        /\ eng'.pc \notin {"launch", "probe", "next"}
    BY <1>0, <1>i, <1>71 DEF AbortOne, TransitionStep, Database, Coordinator, Engine,
       Environment, Registries, InRange, EngineInv
  <2>2. \A t \in Steps : \/ db'.step[t] = db.step[t]
                       \/ (db.step[t] \in InPhase /\ db'.step[t] = "unknown")
    BY <1>0, <1>i, <1>71 DEF AbortOne, TransitionStep, Database, Coordinator, Engine,
       Environment, Registries, InRange, EngineInv
  <2>3. ~InOrder'
    BY <1>0, <1>i, <1>71 DEF AbortOne, TransitionStep, Database, Coordinator, Engine,
       Environment, Registries, InRange, EngineInv, InOrder, AtShell, AtManual, Ending,
       Aborting, OnStep, Deciding, Paused
  <2>4. eng'.pc \notin {"off", "exit"} => eng.pc \notin {"off", "exit"}
    BY <1>0, <1>i, <1>71 DEF AbortOne, TransitionStep, Database, Coordinator, Engine,
       Environment, Registries, InRange, EngineInv
  <2> QED
    BY <1>i, <2>1, <2>2, <2>3, <2>4, SomeLost DEF OrderInv
<1>72. ASSUME AbortFinalize PROVE OrderInv'
  BY <1>0, <1>i, <1>72 DEF AbortFinalize, Goto, CanFinalizeRun, FinalizeRun, NoRun,
     RowInv, EngineInv, CoordInv, StepInv, CopyInv, OrderInv, InOrder, Loaded, Followed,
     ChecklistInOrder, Settled, Kinds, AtShell, AtManual, Ending, Aborting, OnStep,
     Deciding, Paused, Database, Coordinator, Engine, Environment, Registries, InRange
<1>73. ASSUME Exit PROVE OrderInv'
  BY <1>0, <1>i, <1>73 DEF Exit, NoEngine, Spawned, NoIO, RowInv, EngineInv, CoordInv,
     StepInv, CopyInv, OrderInv, InOrder, Loaded, Followed, ChecklistInOrder, Settled,
     Kinds, AtShell, AtManual, Ending, Aborting, OnStep, Deciding, Paused, Database,
     Coordinator, Engine, Environment, Registries, InRange
<1>74. ASSUME RespondApproval PROVE OrderInv'
  BY <1>0, <1>i, <1>74 DEF RespondApproval, RowInv, EngineInv, CoordInv, StepInv,
     CopyInv, OrderInv, InOrder, Loaded, Followed, ChecklistInOrder, Settled, Kinds,
     AtShell, AtManual, Ending, Aborting, OnStep, Deciding, Paused, Database,
     Coordinator, Engine, Environment, Registries, InRange
<1>75. ASSUME Decide PROVE OrderInv'
  BY <1>0, <1>i, <1>75 DEF Decide, RowInv, EngineInv, CoordInv, StepInv, CopyInv,
     OrderInv, InOrder, Loaded, Followed, ChecklistInOrder, Settled, Kinds, AtShell,
     AtManual, Ending, Aborting, OnStep, Deciding, Paused, Database, Coordinator,
     Engine, Environment, Registries, InRange
<1>76. ASSUME SubmitManual PROVE OrderInv'
  BY <1>0, <1>i, <1>76 DEF SubmitManual, RowInv, EngineInv, CoordInv, StepInv, CopyInv,
     OrderInv, InOrder, Loaded, Followed, ChecklistInOrder, Settled, Kinds, AtShell,
     AtManual, Ending, Aborting, OnStep, Deciding, Paused, Database, Coordinator,
     Engine, Environment, Registries, InRange
<1>77. ASSUME CancelRead PROVE OrderInv'
  BY <1>0, <1>i, <1>77 DEF CancelRead, RowInv, EngineInv, CoordInv, StepInv, CopyInv,
     OrderInv, InOrder, Loaded, Followed, ChecklistInOrder, Settled, Kinds, AtShell,
     AtManual, Ending, Aborting, OnStep, Deciding, Paused, Database, Coordinator,
     Engine, Environment, Registries, InRange
<1>78. ASSUME CancelSignal PROVE OrderInv'
  BY <1>0, <1>i, <1>78 DEF CancelSignal, RowInv, EngineInv, CoordInv, StepInv, CopyInv,
     OrderInv, InOrder, Loaded, Followed, ChecklistInOrder, Settled, Kinds, AtShell,
     AtManual, Ending, Aborting, OnStep, Deciding, Paused, Database, Coordinator,
     Engine, Environment, Registries, InRange
<1>79. ASSUME CancelEnds PROVE OrderInv'
  BY <1>0, <1>i, <1>79 DEF CancelEnds, CancelPendingApprovals, FinalizeRun, NoIO,
     RowInv, EngineInv, CoordInv, StepInv, CopyInv, OrderInv, InOrder, Loaded, Followed,
     ChecklistInOrder, Settled, Kinds, AtShell, AtManual, Ending, Aborting, OnStep,
     Deciding, Paused, Database, Coordinator, Engine, Environment, Registries, InRange
<1>80. ASSUME CancelSettles PROVE OrderInv'
  BY <1>0, <1>i, <1>80 DEF CancelSettles, CancelPendingApprovals, RowInv,
     EngineInv, CoordInv, StepInv, CopyInv, OrderInv, InOrder, Loaded, Followed,
     ChecklistInOrder, Settled, Kinds, AtShell, AtManual, Ending, Aborting, OnStep,
     Deciding, Paused, Database, Coordinator, Engine, Environment, Registries, InRange
<1>81. ASSUME Resume PROVE OrderInv'
  BY <1>0, <1>i, <1>81 DEF Resume, CanRebind, RebindInterruptedRun, Spawned, Steps,
     RowInv, EngineInv, CoordInv, StepInv, CopyInv, OrderInv, InOrder, Loaded, Followed,
     ChecklistInOrder, Settled, Kinds, AtShell, AtManual, Ending, Aborting, OnStep,
     Deciding, Paused, Database, Coordinator, Engine, Environment, Registries, InRange
<1>82. ASSUME Claim PROVE OrderInv'
  BY <1>0, <1>i, <1>82 DEF Claim, RowInv, EngineInv, CoordInv, StepInv, CopyInv,
     OrderInv, InOrder, Loaded, Followed, ChecklistInOrder, Settled, Kinds, AtShell,
     AtManual, Ending, Aborting, OnStep, Deciding, Paused, Database, Coordinator,
     Engine, Environment, Registries, InRange
<1>83. ASSUME SubmitResult PROVE OrderInv'
  BY <1>0, <1>i, <1>83 DEF SubmitResult, RowInv, EngineInv, CoordInv, StepInv, CopyInv,
     OrderInv, InOrder, Loaded, Followed, ChecklistInOrder, Settled, Kinds, AtShell,
     AtManual, Ending, Aborting, OnStep, Deciding, Paused, Database, Coordinator,
     Engine, Environment, Registries, InRange
<1>84. ASSUME LeaseExpires PROVE OrderInv'
  BY <1>0, <1>i, <1>84 DEF LeaseExpires, RowInv, EngineInv, CoordInv, StepInv, CopyInv,
     OrderInv, InOrder, Loaded, Followed, ChecklistInOrder, Settled, Kinds, AtShell,
     AtManual, Ending, Aborting, OnStep, Deciding, Paused, Database, Coordinator,
     Engine, Environment, Registries, InRange
<1>85. ASSUME CloseTerminal PROVE OrderInv'
  BY <1>0, <1>i, <1>85 DEF CloseTerminal, RowInv, EngineInv, CoordInv, StepInv, CopyInv,
     OrderInv, InOrder, Loaded, Followed, ChecklistInOrder, Settled, Kinds, AtShell,
     AtManual, Ending, Aborting, OnStep, Deciding, Paused, Database, Coordinator,
     Engine, Environment, Registries, InRange
<1>86. ASSUME Crash PROVE OrderInv'
  BY <1>0, <1>i, <1>86 DEF Crash, NoRun, NoEngine, Spawned, NoIO, RowInv, EngineInv,
     CoordInv, StepInv, CopyInv, OrderInv, InOrder, Loaded, Followed, ChecklistInOrder,
     Settled, Kinds, AtShell, AtManual, Ending, Aborting, OnStep, Deciding, Paused,
     Database, Coordinator, Engine, Environment, Registries, InRange
<1>87. ASSUME RestartInterrupts PROVE OrderInv'
  <2>1. /\ def' = def /\ (eng'.i = eng.i \/ eng'.pc = "off")
        /\ eng'.pc \notin {"launch", "probe", "next"}
    BY <1>0, <1>i, <1>87 DEF RestartInterrupts, InterruptActiveRuns, Database,
       Coordinator, Engine, Environment, Registries, InRange, EngineInv
  <2>2. \A t \in Steps : \/ db'.step[t] = db.step[t]
                       \/ (db.step[t] \in InPhase /\ db'.step[t] = "unknown")
    BY <1>0, <1>i, <1>87 DEF RestartInterrupts, InterruptActiveRuns, Database,
       Coordinator, Engine, Environment, Registries, InRange, EngineInv
  <2>3. ~InOrder'
    BY <1>0, <1>i, <1>87 DEF RestartInterrupts, InterruptActiveRuns, Database,
       Coordinator, Engine, Environment, Registries, InRange, EngineInv, InOrder,
       AtShell, AtManual, Ending, Aborting, OnStep, Deciding, Paused
  <2>4. eng'.pc \notin {"off", "exit"} => eng.pc \notin {"off", "exit"}
    BY <1>0, <1>i, <1>87 DEF RestartInterrupts, InterruptActiveRuns, Database,
       Coordinator, Engine, Environment, Registries, InRange, EngineInv
  <2> QED
    BY <1>i, <2>1, <2>2, <2>3, <2>4, SomeLost DEF OrderInv
<1>88. ASSUME RestartAgain PROVE OrderInv'
  BY <1>0, <1>i, <1>88 DEF RestartAgain, RowInv, EngineInv, CoordInv, StepInv, CopyInv,
     OrderInv, InOrder, Loaded, Followed, ChecklistInOrder, Settled, Kinds, AtShell,
     AtManual, Ending, Aborting, OnStep, Deciding, Paused, Database, Coordinator,
     Engine, Environment, Registries, InRange
<1>r. ASSUME AbortRefused PROVE OrderInv'
  BY <1>0, <1>i, <1>r DEF AbortRefused, Goto, RowInv, EngineInv, CoordInv, StepInv,
     CopyInv, OrderInv, InOrder, Loaded, Followed, ChecklistInOrder, Settled, Kinds,
     AtShell, AtManual, Ending, Aborting, OnStep, Deciding, Paused, Database,
     Coordinator, Engine, Environment, Registries, InRange
<1>s. ASSUME UNCHANGED vars PROVE OrderInv'
  BY <1>i, <1>s DEF vars, RowInv, EngineInv, CoordInv, StepInv, CopyInv, OrderInv,
     InOrder, Loaded, Followed, ChecklistInOrder, Settled, Kinds, AtShell, AtManual,
     Ending, Aborting, OnStep, Deciding, Paused, Database, Coordinator, Engine,
     Environment, Registries, InRange
<1> QED
  BY <1>r, <1>s, <1>1, <1>2, <1>3, <1>4, <1>5, <1>6, <1>7, <1>8, <1>9, <1>10, <1>11,
     <1>12, <1>13, <1>14, <1>15, <1>16, <1>17, <1>18, <1>19, <1>20, <1>21, <1>22, <1>23,
     <1>24, <1>25, <1>26, <1>27, <1>28, <1>29, <1>30, <1>31, <1>32, <1>33, <1>34, <1>35,
     <1>36, <1>37, <1>38, <1>39, <1>40, <1>41, <1>42, <1>43, <1>44, <1>45, <1>46, <1>47,
     <1>48, <1>49, <1>50, <1>51, <1>52, <1>53, <1>54, <1>55, <1>56, <1>57, <1>58, <1>59,
     <1>60, <1>61, <1>62, <1>63, <1>64, <1>65, <1>66, <1>67, <1>68, <1>69, <1>70, <1>71,
     <1>72, <1>73, <1>74, <1>75, <1>76, <1>77, <1>78, <1>79, <1>80, <1>81, <1>82, <1>83,
     <1>84, <1>85, <1>86, <1>87, <1>88 DEF OneStep

-----------------------------------------------------------------------------
(* Leases, evidence, outcomes, approvals and the report *)

\* A lease or an attestation is waited for where the engine says.
LEMMA LeaseStep == TypeInv /\ RunInv /\ OneStep => LeaseInv'
<1> SUFFICES ASSUME TypeInv, RunInv, OneStep PROVE LeaseInv'
  OBVIOUS
<1>0. /\ db \in Database /\ coord \in Coordinator /\ eng \in Engine /\ env \in Environment
      /\ io \in Registries /\ hist \in History /\ InRange
  BY DEF TypeInv, TypeOK
<1>i. RowInv /\ EngineInv /\ CoordInv /\ StepInv /\ AttemptInv /\ LeaseInv
  BY DEF RunInv
<1> USE DEF RowInv, EngineInv, CoordInv, StepInv, StatusOfPhase, Phase, Checked,
        InPhase, AttemptInv, LeaseInv, Aborting, InFlight, OnStep, AtShell,
        AtManual, Attempt, NoAttempt, Database, Coordinator, Engine, Environment,
        Registries, InRange
<1>1. ASSUME RegisterNew PROVE LeaseInv'
  BY <1>0, <1>i, <1>1 DEF RegisterNew, Goto, CanTransitionRun, TransitionRun,
     RegisterRun, NoRun
<1>2. ASSUME RegisterResumed PROVE LeaseInv'
  BY <1>0, <1>i, <1>2 DEF RegisterResumed, Restored, RegisterRestoredRun, NoRun
<1>3. ASSUME Launch PROVE LeaseInv'
  BY <1>0, <1>i, <1>3 DEF Launch, Goto, CanTransitionRun, TransitionRun,
     CoordTransitionRun
<1>4. ASSUME ProbeCancelled PROVE LeaseInv'
  BY <1>0, <1>i, <1>4 DEF ProbeCancelled, Goto
<1>5. ASSUME ProbeLost PROVE LeaseInv'
  BY <1>0, <1>i, <1>5 DEF ProbeLost, Goto, CoordTargetDrift
<1>6. ASSUME ProbeAsks PROVE LeaseInv'
  BY <1>0, <1>i, <1>6 DEF ProbeAsks, CreateAttemptIntent
<1>7. ASSUME ChecklistDone PROVE LeaseInv'
  BY <1>0, <1>i, <1>7 DEF ChecklistDone, StatusFromChecklist
<1>8. ASSUME NextCancelled PROVE LeaseInv'
  BY <1>0, <1>i, <1>8 DEF NextCancelled, Goto
<1>9. ASSUME NextPassed PROVE LeaseInv'
  BY <1>0, <1>i, <1>9 DEF NextPassed
<1>10. ASSUME NextBegins PROVE LeaseInv'
  BY <1>0, <1>i, <1>10 DEF NextBegins
<1>11. ASSUME NextUncertain PROVE LeaseInv'
  BY <1>0, <1>i, <1>11 DEF NextUncertain, CoordRequireOperator
<1>12. ASSUME BeginAgain PROVE LeaseInv'
  BY <1>0, <1>i, <1>12 DEF BeginAgain, CanBeginPhase, CoordBeginPhase, SetRunCursor
<1>13. ASSUME BeginMoves PROVE LeaseInv'
  BY <1>0, <1>i, <1>13 DEF BeginMoves, CanBeginPhase, CoordBeginPhase, TransitionStep
<1>14. ASSUME DispatchCancelled PROVE LeaseInv'
  BY <1>0, <1>i, <1>14 DEF DispatchCancelled, Goto
<1>15. ASSUME DispatchAgent PROVE LeaseInv'
  BY <1>0, <1>i, <1>15 DEF DispatchAgent
<1>16. ASSUME DispatchShell PROVE LeaseInv'
  BY <1>0, <1>i, <1>16 DEF DispatchShell, CreateAttemptIntent
<1>17. ASSUME DispatchManual PROVE LeaseInv'
  BY <1>0, <1>i, <1>17 DEF DispatchManual, CreateAttemptIntent
<1>18. ASSUME DriftFrom("dispatch") PROVE LeaseInv'
  BY <1>0, <1>i, <1>18 DEF DriftFrom, CoordTargetDrift, CanTransitionStep,
     TransitionStep
<1>19. ASSUME DriftFrom("approved") PROVE LeaseInv'
  BY <1>0, <1>i, <1>19 DEF DriftFrom, CoordTargetDrift, CanTransitionStep,
     TransitionStep
<1>20. ASSUME DriftFrom("manualTarget") PROVE LeaseInv'
  BY <1>0, <1>i, <1>20 DEF DriftFrom, CoordTargetDrift, CanTransitionStep,
     TransitionStep
<1>21. ASSUME DriftRun PROVE LeaseInv'
  BY <1>0, <1>i, <1>21 DEF DriftRun, Goto, CanTransitionRun, TransitionRun
<1>22. ASSUME DriftAttempt PROVE LeaseInv'
  BY <1>0, <1>i, <1>22 DEF DriftAttempt, CanFinishAttempt, FinishAttempt
<1>23. ASSUME AskCoordinated PROVE LeaseInv'
  BY <1>0, <1>i, <1>23 DEF AskCoordinated, Goto, CanRequestApproval,
     RequestApprovalAwaiting, CoordCanRequestApproval, CoordRequestApproval
<1>24. ASSUME AskRefused PROVE LeaseInv'
  BY <1>0, <1>i, <1>24 DEF AskRefused, Goto, CanRequestApproval, RequestApprovalAwaiting
<1>25. ASSUME ApprovalCancelled PROVE LeaseInv'
  BY <1>0, <1>i, <1>25 DEF ApprovalCancelled, CancelPendingApprovals
<1>26. ASSUME Approved PROVE LeaseInv'
  BY <1>0, <1>i, <1>26 DEF Approved, Goto, CanResolveApproval, CanDecideApproval,
     CoordApprove, ApproveAndResume
<1>27. ASSUME Declined PROVE LeaseInv'
  BY <1>0, <1>i, <1>27 DEF Declined, CanResolveApproval, CanDecideApproval,
     CoordDecline, DeclineApproval
<1>28. ASSUME DeclineStep PROVE LeaseInv'
  BY <1>0, <1>i, <1>28 DEF DeclineStep, CanTransitionStep, TransitionStep
<1>29. ASSUME DeclineRun PROVE LeaseInv'
  BY <1>0, <1>i, <1>29 DEF DeclineRun, Goto, CanTransitionRun, TransitionRun
<1>30. ASSUME RecheckCancelled PROVE LeaseInv'
  BY <1>0, <1>i, <1>30 DEF RecheckCancelled, CanFinishAttempt, FinishAttempt
<1>31. ASSUME RecheckPassed PROVE LeaseInv'
  BY <1>0, <1>i, <1>31 DEF RecheckPassed, Goto
<1>32. ASSUME StartCommand PROVE LeaseInv'
  BY <1>0, <1>i, <1>32 DEF StartCommand, CanStartAttempt, StartAttempt
<1>33. ASSUME CommandCancelled PROVE LeaseInv'
  BY <1>0, <1>i, <1>33 DEF CommandCancelled, CanFinishAttempt, FinishAttempt
<1>34. ASSUME CommandObserved PROVE LeaseInv'
  BY <1>0, <1>i, <1>34 DEF CommandObserved, CanFinishAttempt, FinishAttempt
<1>35. ASSUME StartManual PROVE LeaseInv'
  BY <1>0, <1>i, <1>35 DEF StartManual, Goto, CanStartAttempt, StartAttempt,
     CanRequireOperator, CoordRequireOperator
<1>36. ASSUME OpenApply PROVE LeaseInv'
  BY <1>0, <1>i, <1>36 DEF OpenApply, Goto, CanTransitionRun, TransitionRun, Mutated
<1>37. ASSUME OpenOther PROVE LeaseInv'
  BY <1>0, <1>i, <1>37 DEF OpenOther, Goto, CanTransitionRun, TransitionRun
<1>38. ASSUME ManualCancelled PROVE LeaseInv'
  BY <1>0, <1>i, <1>38 DEF ManualCancelled, CanFinishAttempt, FinishAttempt
<1>39. ASSUME ManualAnswered PROVE LeaseInv'
  BY <1>0, <1>i, <1>39 DEF ManualAnswered, CanTransitionRun, TransitionRun,
     CoordOperatorAnswered
<1>40. ASSUME ManualObserved PROVE LeaseInv'
  BY <1>0, <1>i, <1>40 DEF ManualObserved, CanFinishAttempt, FinishAttempt
<1>41. ASSUME PhaseApplied PROVE LeaseInv'
  BY <1>0, <1>i, <1>41 DEF PhaseApplied, PhaseEnds, CanCompletePhase,
     CoordCompletePhase, CanTransitionStep, TransitionStep
<1>42. ASSUME PhaseNeedsApply PROVE LeaseInv'
  BY <1>0, <1>i, <1>42 DEF PhaseNeedsApply, PhaseEnds, CanCompletePhase,
     CoordCompletePhase, CanTransitionStep, TransitionStep
<1>43. ASSUME PhaseAssessed PROVE LeaseInv'
  BY <1>0, <1>i, <1>43 DEF PhaseAssessed, PhaseEnds, CanCompletePhase,
     CoordCompletePhase, CanTransitionStep, TransitionStep
<1>44. ASSUME PhaseSettles("compliant") PROVE LeaseInv'
  BY <1>0, <1>i, <1>44 DEF PhaseSettles, PhaseEnds, CanCompletePhase,
     CoordCompletePhase, CanTransitionStep, TransitionStep
<1>45. ASSUME PhaseSettles("verified") PROVE LeaseInv'
  BY <1>0, <1>i, <1>45 DEF PhaseSettles, PhaseEnds, CanCompletePhase,
     CoordCompletePhase, CanTransitionStep, TransitionStep
<1>46. ASSUME PhaseSettles("failed") PROVE LeaseInv'
  BY <1>0, <1>i, <1>46 DEF PhaseSettles, PhaseEnds, CanCompletePhase,
     CoordCompletePhase, CanTransitionStep, TransitionStep
<1>47. ASSUME PhaseSettles("unknown") PROVE LeaseInv'
  BY <1>0, <1>i, <1>47 DEF PhaseSettles, PhaseEnds, CanCompletePhase,
     CoordCompletePhase, CanTransitionStep, TransitionStep
<1>48. ASSUME SettleVerifies PROVE LeaseInv'
  BY <1>0, <1>i, <1>48 DEF SettleVerifies, SetRunCursor
<1>49. ASSUME SettleChecksOff PROVE LeaseInv'
  BY <1>0, <1>i, <1>49 DEF SettleChecksOff, SetRunCursor, Goto
<1>50. ASSUME SettlePauses("policy") PROVE LeaseInv'
  BY <1>0, <1>i, <1>50 DEF SettlePauses, Goto, CanTransitionRun, TransitionRun
<1>51. ASSUME SettlePauses("decide") PROVE LeaseInv'
  BY <1>0, <1>i, <1>51 DEF SettlePauses, Goto, CanTransitionRun, TransitionRun
<1>52. ASSUME Assess PROVE LeaseInv'
  BY <1>0, <1>i, <1>52 DEF Assess, Goto, CoordContinueAssessment, SetRunCursor
<1>53. ASSUME Settles("policy", "failed") PROVE LeaseInv'
  BY <1>0, <1>i, <1>53 DEF Settles, SettleAs, CoordSettleStep, CanResolveStep,
     CanSettleStep, SettleStep
<1>54. ASSUME Stops("policy") PROVE LeaseInv'
  BY <1>0, <1>i, <1>54 DEF Stops, SettleStopped, CoordStop, CanResolveStep,
     CanSettleStep, SettleStep
<1>55. ASSUME AwaitDecision PROVE LeaseInv'
  BY <1>0, <1>i, <1>55 DEF AwaitDecision, Goto
<1>56. ASSUME Retries PROVE LeaseInv'
  BY <1>0, <1>i, <1>56 DEF Retries, CoordSettleStep, ResetStepForRetry, CanResolveStep,
     CanSettleStep, SettleStep
<1>57. ASSUME Settles("deciding", "skipped") PROVE LeaseInv'
  BY <1>0, <1>i, <1>57 DEF Settles, SettleAs, CoordSettleStep, CanResolveStep,
     CanSettleStep, SettleStep
<1>58. ASSUME Settles("deciding", "waived") PROVE LeaseInv'
  BY <1>0, <1>i, <1>58 DEF Settles, SettleAs, CoordSettleStep, CanResolveStep,
     CanSettleStep, SettleStep
<1>59. ASSUME Stops("deciding") PROVE LeaseInv'
  BY <1>0, <1>i, <1>59 DEF Stops, SettleStopped, CoordStop, CanResolveStep,
     CanSettleStep, SettleStep
<1>60. ASSUME DecisionCancelled PROVE LeaseInv'
  BY <1>0, <1>i, <1>60 DEF DecisionCancelled, Goto
<1>61. ASSUME SummaryNext PROVE LeaseInv'
  BY <1>0, <1>i, <1>61 DEF SummaryNext, UpdateStepDetails
<1>62. ASSUME SummaryEnds PROVE LeaseInv'
  BY <1>0, <1>i, <1>62 DEF SummaryEnds, UpdateStepDetails
<1>63. ASSUME FinishCancelled PROVE LeaseInv'
  BY <1>0, <1>i, <1>63 DEF FinishCancelled, CancelPendingApprovals
<1>64. ASSUME MarkNothing PROVE LeaseInv'
  BY <1>0, <1>i, <1>64 DEF MarkNothing, Goto
<1>65. ASSUME NEW s \in Steps, MarkOne(s) PROVE LeaseInv'
  BY <1>0, <1>i, <1>65 DEF MarkOne, TransitionStep
<1>66. ASSUME WrapUp PROVE LeaseInv'
  BY <1>0, <1>i, <1>66 DEF WrapUp, Goto
<1>67. ASSUME Finalize PROVE LeaseInv'
  BY <1>0, <1>i, <1>67 DEF Finalize, Goto, CanFinalizeRun, FinalizeRun,
     CoordTransitionRun
<1>68. ASSUME EngineError PROVE LeaseInv'
  BY <1>0, <1>i, <1>68 DEF EngineError, Goto, Refused, CanFinishAttempt
<1>69. ASSUME Abort PROVE LeaseInv'
  BY <1>0, <1>i, <1>69 DEF Abort, Goto, CancelPendingApprovals
<1>70. ASSUME AbortedSteps PROVE LeaseInv'
  BY <1>0, <1>i, <1>70 DEF AbortedSteps, Goto
<1>71. ASSUME NEW s \in Steps, AbortOne(s) PROVE LeaseInv'
  BY <1>0, <1>i, <1>71 DEF AbortOne, TransitionStep
<1>72. ASSUME AbortFinalize PROVE LeaseInv'
  BY <1>0, <1>i, <1>72 DEF AbortFinalize, Goto, CanFinalizeRun, FinalizeRun, NoRun
<1>73. ASSUME Exit PROVE LeaseInv'
  BY <1>0, <1>i, <1>73 DEF Exit, NoEngine, Spawned, NoIO
<1>74. ASSUME RespondApproval PROVE LeaseInv'
  BY <1>0, <1>i, <1>74 DEF RespondApproval
<1>75. ASSUME Decide PROVE LeaseInv'
  BY <1>0, <1>i, <1>75 DEF Decide
<1>76. ASSUME SubmitManual PROVE LeaseInv'
  BY <1>0, <1>i, <1>76 DEF SubmitManual
<1>77. ASSUME CancelRead PROVE LeaseInv'
  BY <1>0, <1>i, <1>77 DEF CancelRead
<1>78. ASSUME CancelSignal PROVE LeaseInv'
  BY <1>0, <1>i, <1>78 DEF CancelSignal
<1>79. ASSUME CancelEnds PROVE LeaseInv'
  BY <1>0, <1>i, <1>79 DEF CancelEnds, CancelPendingApprovals, FinalizeRun, NoIO
<1>80. ASSUME CancelSettles PROVE LeaseInv'
  BY <1>0, <1>i, <1>80 DEF CancelSettles, CancelPendingApprovals
<1>81. ASSUME Resume PROVE LeaseInv'
  BY <1>0, <1>i, <1>81 DEF Resume, CanRebind, RebindInterruptedRun, Spawned
<1>82. ASSUME Claim PROVE LeaseInv'
  BY <1>0, <1>i, <1>82 DEF Claim
<1>83. ASSUME SubmitResult PROVE LeaseInv'
  BY <1>0, <1>i, <1>83 DEF SubmitResult
<1>84. ASSUME LeaseExpires PROVE LeaseInv'
  BY <1>0, <1>i, <1>84 DEF LeaseExpires
<1>85. ASSUME CloseTerminal PROVE LeaseInv'
  BY <1>0, <1>i, <1>85 DEF CloseTerminal
<1>86. ASSUME Crash PROVE LeaseInv'
  BY <1>0, <1>i, <1>86 DEF Crash, NoRun, NoEngine, Spawned, NoIO
<1>87. ASSUME RestartInterrupts PROVE LeaseInv'
  BY <1>0, <1>i, <1>87 DEF RestartInterrupts, InterruptActiveRuns
<1>88. ASSUME RestartAgain PROVE LeaseInv'
  BY <1>0, <1>i, <1>88 DEF RestartAgain
<1>r. ASSUME AbortRefused PROVE LeaseInv'
  BY <1>0, <1>i, <1>r DEF AbortRefused, Goto
<1>s. ASSUME UNCHANGED vars PROVE LeaseInv'
  BY <1>i, <1>s DEF vars
<1> HIDE DEF RowInv, EngineInv, CoordInv, StepInv, StatusOfPhase, Phase, Checked,
        InPhase, AttemptInv, LeaseInv, Aborting, InFlight, OnStep, AtShell,
        AtManual, Attempt, NoAttempt, Database, Coordinator, Engine, Environment,
        Registries, InRange
<1> QED
  BY <1>r, <1>s, <1>1, <1>2, <1>3, <1>4, <1>5, <1>6, <1>7, <1>8, <1>9, <1>10, <1>11,
     <1>12, <1>13, <1>14, <1>15, <1>16, <1>17, <1>18, <1>19, <1>20, <1>21, <1>22, <1>23,
     <1>24, <1>25, <1>26, <1>27, <1>28, <1>29, <1>30, <1>31, <1>32, <1>33, <1>34, <1>35,
     <1>36, <1>37, <1>38, <1>39, <1>40, <1>41, <1>42, <1>43, <1>44, <1>45, <1>46, <1>47,
     <1>48, <1>49, <1>50, <1>51, <1>52, <1>53, <1>54, <1>55, <1>56, <1>57, <1>58, <1>59,
     <1>60, <1>61, <1>62, <1>63, <1>64, <1>65, <1>66, <1>67, <1>68, <1>69, <1>70, <1>71,
     <1>72, <1>73, <1>74, <1>75, <1>76, <1>77, <1>78, <1>79, <1>80, <1>81, <1>82, <1>83,
     <1>84, <1>85, <1>86, <1>87, <1>88 DEF OneStep

\* What the engine was told is what was last seen of the target.
LEMMA EvidenceStep == TypeInv /\ RunInv /\ OneStep => EvidenceInv'
<1> SUFFICES ASSUME TypeInv, RunInv, OneStep PROVE EvidenceInv'
  OBVIOUS
<1>0. /\ db \in Database /\ coord \in Coordinator /\ eng \in Engine /\ env \in Environment
      /\ io \in Registries /\ hist \in History /\ InRange
  BY DEF TypeInv, TypeOK
<1>i. RowInv /\ EngineInv /\ CoordInv /\ AttemptInv /\ LeaseInv /\ EvidenceInv
  BY DEF RunInv
<1> USE DEF RowInv, EngineInv, CoordInv, AttemptInv, LeaseInv, EvidenceInv,
        NotHanded, Telling, OnStep, AtShell, AtManual, Aborting, InFlight, History,
        PhaseResult, Database, Coordinator, Engine, Environment, Registries, InRange
<1>1. ASSUME RegisterNew PROVE EvidenceInv'
  BY <1>0, <1>i, <1>1 DEF RegisterNew, Goto, CanTransitionRun, TransitionRun,
     RegisterRun, NoRun
<1>2. ASSUME RegisterResumed PROVE EvidenceInv'
  BY <1>0, <1>i, <1>2 DEF RegisterResumed, Restored, RegisterRestoredRun, NoRun
<1>3. ASSUME Launch PROVE EvidenceInv'
  BY <1>0, <1>i, <1>3 DEF Launch, Goto, CanTransitionRun, TransitionRun,
     CoordTransitionRun
<1>4. ASSUME ProbeCancelled PROVE EvidenceInv'
  BY <1>0, <1>i, <1>4 DEF ProbeCancelled, Goto
<1>5. ASSUME ProbeLost PROVE EvidenceInv'
  BY <1>0, <1>i, <1>5 DEF ProbeLost, Goto, CoordTargetDrift
<1>6. ASSUME ProbeAsks PROVE EvidenceInv'
  BY <1>0, <1>i, <1>6 DEF ProbeAsks, CreateAttemptIntent
<1>7. ASSUME ChecklistDone PROVE EvidenceInv'
  BY <1>0, <1>i, <1>7 DEF ChecklistDone, StatusFromChecklist
<1>8. ASSUME NextCancelled PROVE EvidenceInv'
  BY <1>0, <1>i, <1>8 DEF NextCancelled, Goto
<1>9. ASSUME NextPassed PROVE EvidenceInv'
  BY <1>0, <1>i, <1>9 DEF NextPassed
<1>10. ASSUME NextBegins PROVE EvidenceInv'
  BY <1>0, <1>i, <1>10 DEF NextBegins
<1>11. ASSUME NextUncertain PROVE EvidenceInv'
  BY <1>0, <1>i, <1>11 DEF NextUncertain, CoordRequireOperator
<1>12. ASSUME BeginAgain PROVE EvidenceInv'
  BY <1>0, <1>i, <1>12 DEF BeginAgain, CanBeginPhase, CoordBeginPhase, SetRunCursor
<1>13. ASSUME BeginMoves PROVE EvidenceInv'
  BY <1>0, <1>i, <1>13 DEF BeginMoves, CanBeginPhase, CoordBeginPhase, TransitionStep
<1>14. ASSUME DispatchCancelled PROVE EvidenceInv'
  BY <1>0, <1>i, <1>14 DEF DispatchCancelled, Goto
<1>15. ASSUME DispatchAgent PROVE EvidenceInv'
  BY <1>0, <1>i, <1>15 DEF DispatchAgent
<1>16. ASSUME DispatchShell PROVE EvidenceInv'
  BY <1>0, <1>i, <1>16 DEF DispatchShell, CreateAttemptIntent
<1>17. ASSUME DispatchManual PROVE EvidenceInv'
  BY <1>0, <1>i, <1>17 DEF DispatchManual, CreateAttemptIntent
<1>18. ASSUME DriftFrom("dispatch") PROVE EvidenceInv'
  BY <1>0, <1>i, <1>18 DEF DriftFrom, CoordTargetDrift, CanTransitionStep,
     TransitionStep
<1>19. ASSUME DriftFrom("approved") PROVE EvidenceInv'
  BY <1>0, <1>i, <1>19 DEF DriftFrom, CoordTargetDrift, CanTransitionStep,
     TransitionStep
<1>20. ASSUME DriftFrom("manualTarget") PROVE EvidenceInv'
  BY <1>0, <1>i, <1>20 DEF DriftFrom, CoordTargetDrift, CanTransitionStep,
     TransitionStep
<1>21. ASSUME DriftRun PROVE EvidenceInv'
  BY <1>0, <1>i, <1>21 DEF DriftRun, Goto, CanTransitionRun, TransitionRun
<1>22. ASSUME DriftAttempt PROVE EvidenceInv'
  BY <1>0, <1>i, <1>22 DEF DriftAttempt, CanFinishAttempt, FinishAttempt
<1>23. ASSUME AskCoordinated PROVE EvidenceInv'
  BY <1>0, <1>i, <1>23 DEF AskCoordinated, Goto, CanRequestApproval,
     RequestApprovalAwaiting, CoordCanRequestApproval, CoordRequestApproval
<1>24. ASSUME AskRefused PROVE EvidenceInv'
  BY <1>0, <1>i, <1>24 DEF AskRefused, Goto, CanRequestApproval, RequestApprovalAwaiting
<1>25. ASSUME ApprovalCancelled PROVE EvidenceInv'
  BY <1>0, <1>i, <1>25 DEF ApprovalCancelled, CancelPendingApprovals
<1>26. ASSUME Approved PROVE EvidenceInv'
  BY <1>0, <1>i, <1>26 DEF Approved, Goto, CanResolveApproval, CanDecideApproval,
     CoordApprove, ApproveAndResume
<1>27. ASSUME Declined PROVE EvidenceInv'
  BY <1>0, <1>i, <1>27 DEF Declined, CanResolveApproval, CanDecideApproval,
     CoordDecline, DeclineApproval
<1>28. ASSUME DeclineStep PROVE EvidenceInv'
  BY <1>0, <1>i, <1>28 DEF DeclineStep, CanTransitionStep, TransitionStep
<1>29. ASSUME DeclineRun PROVE EvidenceInv'
  BY <1>0, <1>i, <1>29 DEF DeclineRun, Goto, CanTransitionRun, TransitionRun
<1>30. ASSUME RecheckCancelled PROVE EvidenceInv'
  BY <1>0, <1>i, <1>30 DEF RecheckCancelled, CanFinishAttempt, FinishAttempt
<1>31. ASSUME RecheckPassed PROVE EvidenceInv'
  BY <1>0, <1>i, <1>31 DEF RecheckPassed, Goto
<1>32. ASSUME StartCommand PROVE EvidenceInv'
  BY <1>0, <1>i, <1>32 DEF StartCommand, CanStartAttempt, StartAttempt
<1>33. ASSUME CommandCancelled PROVE EvidenceInv'
  BY <1>0, <1>i, <1>33 DEF CommandCancelled, CanFinishAttempt, FinishAttempt
<1>34. ASSUME CommandObserved PROVE EvidenceInv'
  BY <1>0, <1>i, <1>34 DEF CommandObserved, CanFinishAttempt, FinishAttempt
<1>35. ASSUME StartManual PROVE EvidenceInv'
  BY <1>0, <1>i, <1>35 DEF StartManual, Goto, CanStartAttempt, StartAttempt,
     CanRequireOperator, CoordRequireOperator
<1>36. ASSUME OpenApply PROVE EvidenceInv'
  BY <1>0, <1>i, <1>36 DEF OpenApply, Goto, CanTransitionRun, TransitionRun, Mutated
<1>37. ASSUME OpenOther PROVE EvidenceInv'
  BY <1>0, <1>i, <1>37 DEF OpenOther, Goto, CanTransitionRun, TransitionRun
<1>38. ASSUME ManualCancelled PROVE EvidenceInv'
  BY <1>0, <1>i, <1>38 DEF ManualCancelled, CanFinishAttempt, FinishAttempt
<1>39. ASSUME ManualAnswered PROVE EvidenceInv'
  BY <1>0, <1>i, <1>39 DEF ManualAnswered, CanTransitionRun, TransitionRun,
     CoordOperatorAnswered
<1>40. ASSUME ManualObserved PROVE EvidenceInv'
  BY <1>0, <1>i, <1>40 DEF ManualObserved, CanFinishAttempt, FinishAttempt
<1>41. ASSUME PhaseApplied PROVE EvidenceInv'
  BY <1>0, <1>i, <1>41 DEF PhaseApplied, PhaseEnds, CanCompletePhase,
     CoordCompletePhase, CanTransitionStep, TransitionStep
<1>42. ASSUME PhaseNeedsApply PROVE EvidenceInv'
  BY <1>0, <1>i, <1>42 DEF PhaseNeedsApply, PhaseEnds, CanCompletePhase,
     CoordCompletePhase, CanTransitionStep, TransitionStep
<1>43. ASSUME PhaseAssessed PROVE EvidenceInv'
  BY <1>0, <1>i, <1>43 DEF PhaseAssessed, PhaseEnds, CanCompletePhase,
     CoordCompletePhase, CanTransitionStep, TransitionStep
<1>44. ASSUME PhaseSettles("compliant") PROVE EvidenceInv'
  BY <1>0, <1>i, <1>44 DEF PhaseSettles, PhaseEnds, CanCompletePhase,
     CoordCompletePhase, CanTransitionStep, TransitionStep
<1>45. ASSUME PhaseSettles("verified") PROVE EvidenceInv'
  BY <1>0, <1>i, <1>45 DEF PhaseSettles, PhaseEnds, CanCompletePhase,
     CoordCompletePhase, CanTransitionStep, TransitionStep
<1>46. ASSUME PhaseSettles("failed") PROVE EvidenceInv'
  BY <1>0, <1>i, <1>46 DEF PhaseSettles, PhaseEnds, CanCompletePhase,
     CoordCompletePhase, CanTransitionStep, TransitionStep
<1>47. ASSUME PhaseSettles("unknown") PROVE EvidenceInv'
  BY <1>0, <1>i, <1>47 DEF PhaseSettles, PhaseEnds, CanCompletePhase,
     CoordCompletePhase, CanTransitionStep, TransitionStep
<1>48. ASSUME SettleVerifies PROVE EvidenceInv'
  BY <1>0, <1>i, <1>48 DEF SettleVerifies, SetRunCursor
<1>49. ASSUME SettleChecksOff PROVE EvidenceInv'
  BY <1>0, <1>i, <1>49 DEF SettleChecksOff, SetRunCursor, Goto
<1>50. ASSUME SettlePauses("policy") PROVE EvidenceInv'
  BY <1>0, <1>i, <1>50 DEF SettlePauses, Goto, CanTransitionRun, TransitionRun
<1>51. ASSUME SettlePauses("decide") PROVE EvidenceInv'
  BY <1>0, <1>i, <1>51 DEF SettlePauses, Goto, CanTransitionRun, TransitionRun
<1>52. ASSUME Assess PROVE EvidenceInv'
  BY <1>0, <1>i, <1>52 DEF Assess, Goto, CoordContinueAssessment, SetRunCursor
<1>53. ASSUME Settles("policy", "failed") PROVE EvidenceInv'
  BY <1>0, <1>i, <1>53 DEF Settles, SettleAs, CoordSettleStep, CanResolveStep,
     CanSettleStep, SettleStep
<1>54. ASSUME Stops("policy") PROVE EvidenceInv'
  BY <1>0, <1>i, <1>54 DEF Stops, SettleStopped, CoordStop, CanResolveStep,
     CanSettleStep, SettleStep
<1>55. ASSUME AwaitDecision PROVE EvidenceInv'
  BY <1>0, <1>i, <1>55 DEF AwaitDecision, Goto
<1>56. ASSUME Retries PROVE EvidenceInv'
  BY <1>0, <1>i, <1>56 DEF Retries, CoordSettleStep, ResetStepForRetry, CanResolveStep,
     CanSettleStep, SettleStep
<1>57. ASSUME Settles("deciding", "skipped") PROVE EvidenceInv'
  BY <1>0, <1>i, <1>57 DEF Settles, SettleAs, CoordSettleStep, CanResolveStep,
     CanSettleStep, SettleStep
<1>58. ASSUME Settles("deciding", "waived") PROVE EvidenceInv'
  BY <1>0, <1>i, <1>58 DEF Settles, SettleAs, CoordSettleStep, CanResolveStep,
     CanSettleStep, SettleStep
<1>59. ASSUME Stops("deciding") PROVE EvidenceInv'
  BY <1>0, <1>i, <1>59 DEF Stops, SettleStopped, CoordStop, CanResolveStep,
     CanSettleStep, SettleStep
<1>60. ASSUME DecisionCancelled PROVE EvidenceInv'
  BY <1>0, <1>i, <1>60 DEF DecisionCancelled, Goto
<1>61. ASSUME SummaryNext PROVE EvidenceInv'
  BY <1>0, <1>i, <1>61 DEF SummaryNext, UpdateStepDetails
<1>62. ASSUME SummaryEnds PROVE EvidenceInv'
  BY <1>0, <1>i, <1>62 DEF SummaryEnds, UpdateStepDetails
<1>63. ASSUME FinishCancelled PROVE EvidenceInv'
  BY <1>0, <1>i, <1>63 DEF FinishCancelled, CancelPendingApprovals
<1>64. ASSUME MarkNothing PROVE EvidenceInv'
  BY <1>0, <1>i, <1>64 DEF MarkNothing, Goto
<1>65. ASSUME NEW s \in Steps, MarkOne(s) PROVE EvidenceInv'
  BY <1>0, <1>i, <1>65 DEF MarkOne, TransitionStep
<1>66. ASSUME WrapUp PROVE EvidenceInv'
  BY <1>0, <1>i, <1>66 DEF WrapUp, Goto
<1>67. ASSUME Finalize PROVE EvidenceInv'
  BY <1>0, <1>i, <1>67 DEF Finalize, Goto, CanFinalizeRun, FinalizeRun,
     CoordTransitionRun
<1>68. ASSUME EngineError PROVE EvidenceInv'
  BY <1>0, <1>i, <1>68 DEF EngineError, Goto, Refused
<1>69. ASSUME Abort PROVE EvidenceInv'
  BY <1>0, <1>i, <1>69 DEF Abort, Goto, CancelPendingApprovals
<1>70. ASSUME AbortedSteps PROVE EvidenceInv'
  BY <1>0, <1>i, <1>70 DEF AbortedSteps, Goto
<1>71. ASSUME NEW s \in Steps, AbortOne(s) PROVE EvidenceInv'
  BY <1>0, <1>i, <1>71 DEF AbortOne, TransitionStep
<1>72. ASSUME AbortFinalize PROVE EvidenceInv'
  BY <1>0, <1>i, <1>72 DEF AbortFinalize, Goto, CanFinalizeRun, FinalizeRun, NoRun
<1>73. ASSUME Exit PROVE EvidenceInv'
  BY <1>0, <1>i, <1>73 DEF Exit, NoEngine, Spawned, NoIO
<1>74. ASSUME RespondApproval PROVE EvidenceInv'
  BY <1>0, <1>i, <1>74 DEF RespondApproval
<1>75. ASSUME Decide PROVE EvidenceInv'
  BY <1>0, <1>i, <1>75 DEF Decide
<1>76. ASSUME SubmitManual PROVE EvidenceInv'
  BY <1>0, <1>i, <1>76 DEF SubmitManual, Observe, Verdict
<1>77. ASSUME CancelRead PROVE EvidenceInv'
  BY <1>0, <1>i, <1>77 DEF CancelRead
<1>78. ASSUME CancelSignal PROVE EvidenceInv'
  BY <1>0, <1>i, <1>78 DEF CancelSignal
<1>79. ASSUME CancelEnds PROVE EvidenceInv'
  BY <1>0, <1>i, <1>79 DEF CancelEnds, CancelPendingApprovals, FinalizeRun, NoIO
<1>80. ASSUME CancelSettles PROVE EvidenceInv'
  BY <1>0, <1>i, <1>80 DEF CancelSettles, CancelPendingApprovals
<1>81. ASSUME Resume PROVE EvidenceInv'
  BY <1>0, <1>i, <1>81 DEF Resume, CanRebind, RebindInterruptedRun, Spawned
<1>82. ASSUME Claim PROVE EvidenceInv'
  BY <1>0, <1>i, <1>82 DEF Claim
<1>83. ASSUME SubmitResult PROVE EvidenceInv'
  BY <1>0, <1>i, <1>83 DEF SubmitResult, Observe, Verdict
<1>84. ASSUME LeaseExpires PROVE EvidenceInv'
  BY <1>0, <1>i, <1>84 DEF LeaseExpires
<1>85. ASSUME CloseTerminal PROVE EvidenceInv'
  BY <1>0, <1>i, <1>85 DEF CloseTerminal
<1>86. ASSUME Crash PROVE EvidenceInv'
  BY <1>0, <1>i, <1>86 DEF Crash, NoRun, NoEngine, Spawned, NoIO
<1>87. ASSUME RestartInterrupts PROVE EvidenceInv'
  BY <1>0, <1>i, <1>87 DEF RestartInterrupts, InterruptActiveRuns
<1>88. ASSUME RestartAgain PROVE EvidenceInv'
  BY <1>0, <1>i, <1>88 DEF RestartAgain
<1>r. ASSUME AbortRefused PROVE EvidenceInv'
  BY <1>0, <1>i, <1>r DEF AbortRefused, Goto
<1>s. ASSUME UNCHANGED vars PROVE EvidenceInv'
  BY <1>i, <1>s DEF vars
<1> HIDE DEF RowInv, EngineInv, CoordInv, AttemptInv, LeaseInv, EvidenceInv,
        NotHanded, Telling, OnStep, AtShell, AtManual, Aborting, InFlight, History,
        PhaseResult, Database, Coordinator, Engine, Environment, Registries, InRange
<1> QED
  BY <1>r, <1>s, <1>1, <1>2, <1>3, <1>4, <1>5, <1>6, <1>7, <1>8, <1>9, <1>10, <1>11,
     <1>12, <1>13, <1>14, <1>15, <1>16, <1>17, <1>18, <1>19, <1>20, <1>21, <1>22, <1>23,
     <1>24, <1>25, <1>26, <1>27, <1>28, <1>29, <1>30, <1>31, <1>32, <1>33, <1>34, <1>35,
     <1>36, <1>37, <1>38, <1>39, <1>40, <1>41, <1>42, <1>43, <1>44, <1>45, <1>46, <1>47,
     <1>48, <1>49, <1>50, <1>51, <1>52, <1>53, <1>54, <1>55, <1>56, <1>57, <1>58, <1>59,
     <1>60, <1>61, <1>62, <1>63, <1>64, <1>65, <1>66, <1>67, <1>68, <1>69, <1>70, <1>71,
     <1>72, <1>73, <1>74, <1>75, <1>76, <1>77, <1>78, <1>79, <1>80, <1>81, <1>82, <1>83,
     <1>84, <1>85, <1>86, <1>87, <1>88 DEF OneStep

\* A positive outcome rests on what was seen.
LEMMA EarnedStep == TypeInv /\ RunInv /\ OneStep => EarnedInv'
<1> SUFFICES ASSUME TypeInv, RunInv, OneStep PROVE EarnedInv'
  OBVIOUS
<1>0. /\ db \in Database /\ coord \in Coordinator /\ eng \in Engine /\ env \in Environment
      /\ io \in Registries /\ hist \in History /\ InRange
  BY DEF TypeInv, TypeOK
<1>i. /\ RowInv /\ EngineInv /\ CoordInv /\ StepInv /\ CopyInv /\ AttemptInv
      /\ OrderInv /\ LeaseInv /\ EvidenceInv /\ EarnedInv
  BY DEF RunInv
<1> USE DEF RowInv, EngineInv, CoordInv, StepInv, CopyInv, AttemptInv, OrderInv,
        LeaseInv, EvidenceInv, EarnedInv, SuccessIsEarned, Loaded, Followed,
        Telling, InFlight, Aborting, History, AtShell, AtManual, Ending, OnStep,
        Deciding, Paused, Database, Coordinator, Engine, Environment, Registries,
        InRange
<1>1. ASSUME RegisterNew PROVE EarnedInv'
  BY <1>0, <1>i, <1>1 DEF RegisterNew, Goto, CanTransitionRun, TransitionRun,
     RegisterRun, NoRun
<1>2. ASSUME RegisterResumed PROVE EarnedInv'
  BY <1>0, <1>i, <1>2 DEF RegisterResumed, Restored, RegisterRestoredRun, NoRun
<1>3. ASSUME Launch PROVE EarnedInv'
  BY <1>0, <1>i, <1>3 DEF Launch, Goto, CanTransitionRun, TransitionRun,
     CoordTransitionRun
<1>4. ASSUME ProbeCancelled PROVE EarnedInv'
  BY <1>0, <1>i, <1>4 DEF ProbeCancelled, Goto
<1>5. ASSUME ProbeLost PROVE EarnedInv'
  BY <1>0, <1>i, <1>5 DEF ProbeLost, Goto, CoordTargetDrift
<1>6. ASSUME ProbeAsks PROVE EarnedInv'
  BY <1>0, <1>i, <1>6 DEF ProbeAsks, CreateAttemptIntent
<1>7. ASSUME ChecklistDone PROVE EarnedInv'
  BY <1>0, <1>i, <1>7 DEF ChecklistDone, StatusFromChecklist
<1>8. ASSUME NextCancelled PROVE EarnedInv'
  BY <1>0, <1>i, <1>8 DEF NextCancelled, Goto
<1>9. ASSUME NextPassed PROVE EarnedInv'
  BY <1>0, <1>i, <1>9 DEF NextPassed
<1>10. ASSUME NextBegins PROVE EarnedInv'
  BY <1>0, <1>i, <1>10 DEF NextBegins
<1>11. ASSUME NextUncertain PROVE EarnedInv'
  BY <1>0, <1>i, <1>11 DEF NextUncertain, CoordRequireOperator
<1>12. ASSUME BeginAgain PROVE EarnedInv'
  BY <1>0, <1>i, <1>12 DEF BeginAgain, CanBeginPhase, CoordBeginPhase, SetRunCursor
<1>13. ASSUME BeginMoves PROVE EarnedInv'
  BY <1>0, <1>i, <1>13 DEF BeginMoves, CanBeginPhase, CoordBeginPhase, TransitionStep,
     StatusOfPhase, Phase
<1>14. ASSUME DispatchCancelled PROVE EarnedInv'
  BY <1>0, <1>i, <1>14 DEF DispatchCancelled, Goto
<1>15. ASSUME DispatchAgent PROVE EarnedInv'
  BY <1>0, <1>i, <1>15 DEF DispatchAgent
<1>16. ASSUME DispatchShell PROVE EarnedInv'
  BY <1>0, <1>i, <1>16 DEF DispatchShell, CreateAttemptIntent
<1>17. ASSUME DispatchManual PROVE EarnedInv'
  BY <1>0, <1>i, <1>17 DEF DispatchManual, CreateAttemptIntent
<1>18. ASSUME DriftFrom("dispatch") PROVE EarnedInv'
  BY <1>0, <1>i, <1>18 DEF DriftFrom, CoordTargetDrift, CanTransitionStep,
     TransitionStep, StatusOfPhase, Phase
<1>19. ASSUME DriftFrom("approved") PROVE EarnedInv'
  BY <1>0, <1>i, <1>19 DEF DriftFrom, CoordTargetDrift, CanTransitionStep,
     TransitionStep, StatusOfPhase, Phase
<1>20. ASSUME DriftFrom("manualTarget") PROVE EarnedInv'
  BY <1>0, <1>i, <1>20 DEF DriftFrom, CoordTargetDrift, CanTransitionStep,
     TransitionStep, StatusOfPhase, Phase
<1>21. ASSUME DriftRun PROVE EarnedInv'
  BY <1>0, <1>i, <1>21 DEF DriftRun, Goto, CanTransitionRun, TransitionRun
<1>22. ASSUME DriftAttempt PROVE EarnedInv'
  BY <1>0, <1>i, <1>22 DEF DriftAttempt, CanFinishAttempt, FinishAttempt
<1>23. ASSUME AskCoordinated PROVE EarnedInv'
  BY <1>0, <1>i, <1>23 DEF AskCoordinated, Goto, CanRequestApproval,
     RequestApprovalAwaiting, CoordCanRequestApproval, CoordRequestApproval
<1>24. ASSUME AskRefused PROVE EarnedInv'
  BY <1>0, <1>i, <1>24 DEF AskRefused, Goto, CanRequestApproval, RequestApprovalAwaiting
<1>25. ASSUME ApprovalCancelled PROVE EarnedInv'
  BY <1>0, <1>i, <1>25 DEF ApprovalCancelled, CancelPendingApprovals, KeepApplyStarted,
     Terminal, InPhase, Active
<1>26. ASSUME Approved PROVE EarnedInv'
  BY <1>0, <1>i, <1>26 DEF Approved, Goto, CanResolveApproval, CanDecideApproval,
     CoordApprove, ApproveAndResume
<1>27. ASSUME Declined PROVE EarnedInv'
  BY <1>0, <1>i, <1>27 DEF Declined, CanResolveApproval, CanDecideApproval,
     CoordDecline, DeclineApproval
<1>28. ASSUME DeclineStep PROVE EarnedInv'
  BY <1>0, <1>i, <1>28 DEF DeclineStep, CanTransitionStep, TransitionStep
<1>29. ASSUME DeclineRun PROVE EarnedInv'
  BY <1>0, <1>i, <1>29 DEF DeclineRun, Goto, CanTransitionRun, TransitionRun
<1>30. ASSUME RecheckCancelled PROVE EarnedInv'
  BY <1>0, <1>i, <1>30 DEF RecheckCancelled, CanFinishAttempt, FinishAttempt
<1>31. ASSUME RecheckPassed PROVE EarnedInv'
  BY <1>0, <1>i, <1>31 DEF RecheckPassed, Goto
<1>32. ASSUME StartCommand PROVE EarnedInv'
  BY <1>0, <1>i, <1>32 DEF StartCommand, CanStartAttempt, StartAttempt
<1>33. ASSUME CommandCancelled PROVE EarnedInv'
  BY <1>0, <1>i, <1>33 DEF CommandCancelled, CanFinishAttempt, FinishAttempt
<1>34. ASSUME CommandObserved PROVE EarnedInv'
  BY <1>0, <1>i, <1>34 DEF CommandObserved, CanFinishAttempt, FinishAttempt
<1>35. ASSUME StartManual PROVE EarnedInv'
  BY <1>0, <1>i, <1>35 DEF StartManual, Goto, CanStartAttempt, StartAttempt,
     CanRequireOperator, CoordRequireOperator
<1>36. ASSUME OpenApply PROVE EarnedInv'
  BY <1>0, <1>i, <1>36 DEF OpenApply, Goto, CanTransitionRun, TransitionRun, Mutated,
     StatusOfPhase, Phase, Checked
<1>37. ASSUME OpenOther PROVE EarnedInv'
  BY <1>0, <1>i, <1>37 DEF OpenOther, Goto, CanTransitionRun, TransitionRun
<1>38. ASSUME ManualCancelled PROVE EarnedInv'
  BY <1>0, <1>i, <1>38 DEF ManualCancelled, CanFinishAttempt, FinishAttempt
<1>39. ASSUME ManualAnswered PROVE EarnedInv'
  BY <1>0, <1>i, <1>39 DEF ManualAnswered, CanTransitionRun, TransitionRun,
     CoordOperatorAnswered
<1>40. ASSUME ManualObserved PROVE EarnedInv'
  BY <1>0, <1>i, <1>40 DEF ManualObserved, CanFinishAttempt, FinishAttempt
<1>41. ASSUME PhaseApplied PROVE EarnedInv'
  BY <1>0, <1>i, <1>41 DEF PhaseApplied, PhaseEnds, CanCompletePhase,
     CoordCompletePhase, CanTransitionStep, TransitionStep, StatusAfter, Checked,
     PhaseResult
<1>42. ASSUME PhaseNeedsApply PROVE EarnedInv'
  BY <1>0, <1>i, <1>42 DEF PhaseNeedsApply, PhaseEnds, CanCompletePhase,
     CoordCompletePhase, CanTransitionStep, TransitionStep, StatusAfter, Checked,
     PhaseResult
<1>43. ASSUME PhaseAssessed PROVE EarnedInv'
  BY <1>0, <1>i, <1>43 DEF PhaseAssessed, PhaseEnds, CanCompletePhase,
     CoordCompletePhase, CanTransitionStep, TransitionStep, StatusAfter, Checked,
     PhaseResult
<1>44. ASSUME PhaseSettles("compliant") PROVE EarnedInv'
  BY <1>0, <1>i, <1>44 DEF PhaseSettles, PhaseEnds, CanCompletePhase,
     CoordCompletePhase, CanTransitionStep, TransitionStep, StatusAfter, Checked,
     PhaseResult
<1>45. ASSUME PhaseSettles("verified") PROVE EarnedInv'
  BY <1>0, <1>i, <1>45 DEF PhaseSettles, PhaseEnds, CanCompletePhase,
     CoordCompletePhase, CanTransitionStep, TransitionStep, StatusAfter, Checked,
     PhaseResult
<1>46. ASSUME PhaseSettles("failed") PROVE EarnedInv'
  BY <1>0, <1>i, <1>46 DEF PhaseSettles, PhaseEnds, CanCompletePhase,
     CoordCompletePhase, CanTransitionStep, TransitionStep, StatusAfter, Checked,
     PhaseResult
<1>47. ASSUME PhaseSettles("unknown") PROVE EarnedInv'
  BY <1>0, <1>i, <1>47 DEF PhaseSettles, PhaseEnds, CanCompletePhase,
     CoordCompletePhase, CanTransitionStep, TransitionStep, StatusAfter, Checked,
     PhaseResult
<1>48. ASSUME SettleVerifies PROVE EarnedInv'
  BY <1>0, <1>i, <1>48 DEF SettleVerifies, SetRunCursor
<1>49. ASSUME SettleChecksOff PROVE EarnedInv'
  BY <1>0, <1>i, <1>49 DEF SettleChecksOff, SetRunCursor, Goto
<1>50. ASSUME SettlePauses("policy") PROVE EarnedInv'
  BY <1>0, <1>i, <1>50 DEF SettlePauses, Goto, CanTransitionRun, TransitionRun
<1>51. ASSUME SettlePauses("decide") PROVE EarnedInv'
  BY <1>0, <1>i, <1>51 DEF SettlePauses, Goto, CanTransitionRun, TransitionRun
<1>52. ASSUME Assess PROVE EarnedInv'
  BY <1>0, <1>i, <1>52 DEF Assess, Goto, CoordContinueAssessment, SetRunCursor
<1>53. ASSUME Settles("policy", "failed") PROVE EarnedInv'
  BY <1>0, <1>i, <1>53 DEF Settles, SettleAs, CoordSettleStep, CanResolveStep,
     CanSettleStep, SettleStep
<1>54. ASSUME Stops("policy") PROVE EarnedInv'
  BY <1>0, <1>i, <1>54 DEF Stops, SettleStopped, CoordStop, CanResolveStep,
     CanSettleStep, SettleStep
<1>55. ASSUME AwaitDecision PROVE EarnedInv'
  BY <1>0, <1>i, <1>55 DEF AwaitDecision, Goto
<1>56. ASSUME Retries PROVE EarnedInv'
  BY <1>0, <1>i, <1>56 DEF Retries, CoordSettleStep, ResetStepForRetry, CanResolveStep,
     CanSettleStep, SettleStep
<1>57. ASSUME Settles("deciding", "skipped") PROVE EarnedInv'
  BY <1>0, <1>i, <1>57 DEF Settles, SettleAs, CoordSettleStep, CanResolveStep,
     CanSettleStep, SettleStep
<1>58. ASSUME Settles("deciding", "waived") PROVE EarnedInv'
  BY <1>0, <1>i, <1>58 DEF Settles, SettleAs, CoordSettleStep, CanResolveStep,
     CanSettleStep, SettleStep
<1>59. ASSUME Stops("deciding") PROVE EarnedInv'
  BY <1>0, <1>i, <1>59 DEF Stops, SettleStopped, CoordStop, CanResolveStep,
     CanSettleStep, SettleStep
<1>60. ASSUME DecisionCancelled PROVE EarnedInv'
  BY <1>0, <1>i, <1>60 DEF DecisionCancelled, Goto
<1>61. ASSUME SummaryNext PROVE EarnedInv'
  BY <1>0, <1>i, <1>61 DEF SummaryNext, UpdateStepDetails
<1>62. ASSUME SummaryEnds PROVE EarnedInv'
  BY <1>0, <1>i, <1>62 DEF SummaryEnds, UpdateStepDetails
<1>63. ASSUME FinishCancelled PROVE EarnedInv'
  BY <1>0, <1>i, <1>63 DEF FinishCancelled, CancelPendingApprovals, KeepApplyStarted,
     Terminal, InPhase, Active
<1>64. ASSUME MarkNothing PROVE EarnedInv'
  BY <1>0, <1>i, <1>64 DEF MarkNothing, Goto
<1>65. ASSUME NEW s \in Steps, MarkOne(s) PROVE EarnedInv'
  BY <1>0, <1>i, <1>65 DEF MarkOne, TransitionStep, InPhase, Checked
<1>66. ASSUME WrapUp PROVE EarnedInv'
  BY <1>0, <1>i, <1>66 DEF WrapUp, Goto
<1>67. ASSUME Finalize PROVE EarnedInv'
  BY <1>0, <1>i, <1>67 DEF Finalize, Goto, CanFinalizeRun, FinalizeRun,
     CoordTransitionRun
<1>68. ASSUME EngineError PROVE EarnedInv'
  BY <1>0, <1>i, <1>68 DEF EngineError, Goto, Refused
<1>69. ASSUME Abort PROVE EarnedInv'
  BY <1>0, <1>i, <1>69 DEF Abort, Goto, CancelPendingApprovals, KeepApplyStarted,
     Terminal, InPhase, Active
<1>70. ASSUME AbortedSteps PROVE EarnedInv'
  BY <1>0, <1>i, <1>70 DEF AbortedSteps, Goto
<1>71. ASSUME NEW s \in Steps, AbortOne(s) PROVE EarnedInv'
  BY <1>0, <1>i, <1>71 DEF AbortOne, TransitionStep, InPhase, Checked
<1>72. ASSUME AbortFinalize PROVE EarnedInv'
  BY <1>0, <1>i, <1>72 DEF AbortFinalize, Goto, CanFinalizeRun, FinalizeRun, NoRun
<1>73. ASSUME Exit PROVE EarnedInv'
  BY <1>0, <1>i, <1>73 DEF Exit, NoEngine, Spawned, NoIO
<1>74. ASSUME RespondApproval PROVE EarnedInv'
  BY <1>0, <1>i, <1>74 DEF RespondApproval
<1>75. ASSUME Decide PROVE EarnedInv'
  BY <1>0, <1>i, <1>75 DEF Decide
<1>76. ASSUME SubmitManual PROVE EarnedInv'
  BY <1>0, <1>i, <1>76 DEF SubmitManual, Observe, StatusOfPhase, Phase, Verdict, Checked
<1>77. ASSUME CancelRead PROVE EarnedInv'
  BY <1>0, <1>i, <1>77 DEF CancelRead
<1>78. ASSUME CancelSignal PROVE EarnedInv'
  BY <1>0, <1>i, <1>78 DEF CancelSignal
<1>79. ASSUME CancelEnds PROVE EarnedInv'
  BY <1>0, <1>i, <1>79 DEF CancelEnds, CancelPendingApprovals, FinalizeRun, NoIO,
     KeepApplyStarted, Terminal, InPhase, Active
<1>80. ASSUME CancelSettles PROVE EarnedInv'
  BY <1>0, <1>i, <1>80 DEF CancelSettles, CancelPendingApprovals,
     KeepApplyStarted, Terminal, InPhase, Active
<1>81. ASSUME Resume PROVE EarnedInv'
  BY <1>0, <1>i, <1>81 DEF Resume, CanRebind, RebindInterruptedRun, Spawned
<1>82. ASSUME Claim PROVE EarnedInv'
  BY <1>0, <1>i, <1>82 DEF Claim, Typed, Mutated, StatusOfPhase, Phase
<1>83. ASSUME SubmitResult PROVE EarnedInv'
  BY <1>0, <1>i, <1>83 DEF SubmitResult, Observe, StatusOfPhase, Phase, Verdict, Checked
<1>84. ASSUME LeaseExpires PROVE EarnedInv'
  BY <1>0, <1>i, <1>84 DEF LeaseExpires
<1>85. ASSUME CloseTerminal PROVE EarnedInv'
  BY <1>0, <1>i, <1>85 DEF CloseTerminal
<1>86. ASSUME Crash PROVE EarnedInv'
  BY <1>0, <1>i, <1>86 DEF Crash, NoRun, NoEngine, Spawned, NoIO
<1>87. ASSUME RestartInterrupts PROVE EarnedInv'
  BY <1>0, <1>i, <1>87 DEF RestartInterrupts, InterruptActiveRuns, KeepApplyStarted,
     Terminal, InPhase, Active
<1>88. ASSUME RestartAgain PROVE EarnedInv'
  BY <1>0, <1>i, <1>88 DEF RestartAgain
<1>r. ASSUME AbortRefused PROVE EarnedInv'
  BY <1>0, <1>i, <1>r DEF AbortRefused, Goto
<1>s. ASSUME UNCHANGED vars PROVE EarnedInv'
  BY <1>i, <1>s DEF vars
<1> HIDE DEF RowInv, EngineInv, CoordInv, StepInv, CopyInv, AttemptInv, OrderInv,
        LeaseInv, EvidenceInv, EarnedInv, SuccessIsEarned, Loaded, Followed,
        Telling, InFlight, Aborting, History, AtShell, AtManual, Ending, OnStep,
        Deciding, Paused, Database, Coordinator, Engine, Environment, Registries,
        InRange
<1> QED
  BY <1>r, <1>s, <1>1, <1>2, <1>3, <1>4, <1>5, <1>6, <1>7, <1>8, <1>9, <1>10, <1>11,
     <1>12, <1>13, <1>14, <1>15, <1>16, <1>17, <1>18, <1>19, <1>20, <1>21, <1>22, <1>23,
     <1>24, <1>25, <1>26, <1>27, <1>28, <1>29, <1>30, <1>31, <1>32, <1>33, <1>34, <1>35,
     <1>36, <1>37, <1>38, <1>39, <1>40, <1>41, <1>42, <1>43, <1>44, <1>45, <1>46, <1>47,
     <1>48, <1>49, <1>50, <1>51, <1>52, <1>53, <1>54, <1>55, <1>56, <1>57, <1>58, <1>59,
     <1>60, <1>61, <1>62, <1>63, <1>64, <1>65, <1>66, <1>67, <1>68, <1>69, <1>70, <1>71,
     <1>72, <1>73, <1>74, <1>75, <1>76, <1>77, <1>78, <1>79, <1>80, <1>81, <1>82, <1>83,
     <1>84, <1>85, <1>86, <1>87, <1>88 DEF OneStep

\* An approval that was given is used at once or withdrawn.
LEMMA GrantStep == TypeInv /\ RunInv /\ OneStep => GrantInv'
<1> SUFFICES ASSUME TypeInv, RunInv, OneStep PROVE GrantInv'
  OBVIOUS
<1>0. /\ db \in Database /\ coord \in Coordinator /\ eng \in Engine /\ env \in Environment
      /\ io \in Registries /\ hist \in History /\ InRange
  BY DEF TypeInv, TypeOK
<1>i. RowInv /\ EngineInv /\ AttemptInv /\ GrantInv
  BY DEF RunInv
<1> USE DEF RowInv, EngineInv, AttemptInv, GrantInv, Granted, AtShell, AtManual,
        Active, InFlight, Attempt, NoAttempt, Database, Coordinator, Engine,
        Environment, Registries, InRange
<1>1. ASSUME RegisterNew PROVE GrantInv'
  BY <1>0, <1>i, <1>1 DEF RegisterNew, Goto, CanTransitionRun, TransitionRun,
     RegisterRun, NoRun
<1>2. ASSUME RegisterResumed PROVE GrantInv'
  BY <1>0, <1>i, <1>2 DEF RegisterResumed, Restored, RegisterRestoredRun, NoRun
<1>3. ASSUME Launch PROVE GrantInv'
  BY <1>0, <1>i, <1>3 DEF Launch, Goto, CanTransitionRun, TransitionRun,
     CoordTransitionRun
<1>4. ASSUME ProbeCancelled PROVE GrantInv'
  BY <1>0, <1>i, <1>4 DEF ProbeCancelled, Goto
<1>5. ASSUME ProbeLost PROVE GrantInv'
  BY <1>0, <1>i, <1>5 DEF ProbeLost, Goto, CoordTargetDrift
<1>6. ASSUME ProbeAsks PROVE GrantInv'
  BY <1>0, <1>i, <1>6 DEF ProbeAsks, CreateAttemptIntent
<1>7. ASSUME ChecklistDone PROVE GrantInv'
  BY <1>0, <1>i, <1>7 DEF ChecklistDone, StatusFromChecklist
<1>8. ASSUME NextCancelled PROVE GrantInv'
  BY <1>0, <1>i, <1>8 DEF NextCancelled, Goto
<1>9. ASSUME NextPassed PROVE GrantInv'
  BY <1>0, <1>i, <1>9 DEF NextPassed
<1>10. ASSUME NextBegins PROVE GrantInv'
  BY <1>0, <1>i, <1>10 DEF NextBegins
<1>11. ASSUME NextUncertain PROVE GrantInv'
  BY <1>0, <1>i, <1>11 DEF NextUncertain, CoordRequireOperator
<1>12. ASSUME BeginAgain PROVE GrantInv'
  BY <1>0, <1>i, <1>12 DEF BeginAgain, CanBeginPhase, CoordBeginPhase, SetRunCursor
<1>13. ASSUME BeginMoves PROVE GrantInv'
  BY <1>0, <1>i, <1>13 DEF BeginMoves, CanBeginPhase, CoordBeginPhase, TransitionStep
<1>14. ASSUME DispatchCancelled PROVE GrantInv'
  BY <1>0, <1>i, <1>14 DEF DispatchCancelled, Goto
<1>15. ASSUME DispatchAgent PROVE GrantInv'
  BY <1>0, <1>i, <1>15 DEF DispatchAgent
<1>16. ASSUME DispatchShell PROVE GrantInv'
  BY <1>0, <1>i, <1>16 DEF DispatchShell, CreateAttemptIntent
<1>17. ASSUME DispatchManual PROVE GrantInv'
  BY <1>0, <1>i, <1>17 DEF DispatchManual, CreateAttemptIntent
<1>18. ASSUME DriftFrom("dispatch") PROVE GrantInv'
  BY <1>0, <1>i, <1>18 DEF DriftFrom, CoordTargetDrift, CanTransitionStep,
     TransitionStep
<1>19. ASSUME DriftFrom("approved") PROVE GrantInv'
  BY <1>0, <1>i, <1>19 DEF DriftFrom, CoordTargetDrift, CanTransitionStep,
     TransitionStep
<1>20. ASSUME DriftFrom("manualTarget") PROVE GrantInv'
  BY <1>0, <1>i, <1>20 DEF DriftFrom, CoordTargetDrift, CanTransitionStep,
     TransitionStep
<1>21. ASSUME DriftRun PROVE GrantInv'
  BY <1>0, <1>i, <1>21 DEF DriftRun, Goto, CanTransitionRun, TransitionRun
<1>22. ASSUME DriftAttempt PROVE GrantInv'
  BY <1>0, <1>i, <1>22 DEF DriftAttempt, CanFinishAttempt, FinishAttempt
<1>23. ASSUME AskCoordinated PROVE GrantInv'
  BY <1>0, <1>i, <1>23 DEF AskCoordinated, Goto, CanRequestApproval,
     RequestApprovalAwaiting, CoordCanRequestApproval, CoordRequestApproval
<1>24. ASSUME AskRefused PROVE GrantInv'
  BY <1>0, <1>i, <1>24 DEF AskRefused, Goto, CanRequestApproval, RequestApprovalAwaiting
<1>25. ASSUME ApprovalCancelled PROVE GrantInv'
  BY <1>0, <1>i, <1>25 DEF ApprovalCancelled, CancelPendingApprovals
<1>26. ASSUME Approved PROVE GrantInv'
  BY <1>0, <1>i, <1>26 DEF Approved, Goto, CanResolveApproval, CanDecideApproval,
     CoordApprove, ApproveAndResume
<1>27. ASSUME Declined PROVE GrantInv'
  BY <1>0, <1>i, <1>27 DEF Declined, CanResolveApproval, CanDecideApproval,
     CoordDecline, DeclineApproval
<1>28. ASSUME DeclineStep PROVE GrantInv'
  BY <1>0, <1>i, <1>28 DEF DeclineStep, CanTransitionStep, TransitionStep
<1>29. ASSUME DeclineRun PROVE GrantInv'
  BY <1>0, <1>i, <1>29 DEF DeclineRun, Goto, CanTransitionRun, TransitionRun
<1>30. ASSUME RecheckCancelled PROVE GrantInv'
  BY <1>0, <1>i, <1>30 DEF RecheckCancelled, CanFinishAttempt, FinishAttempt
<1>31. ASSUME RecheckPassed PROVE GrantInv'
  BY <1>0, <1>i, <1>31 DEF RecheckPassed, Goto
<1>32. ASSUME StartCommand PROVE GrantInv'
  BY <1>0, <1>i, <1>32 DEF StartCommand, CanStartAttempt, StartAttempt
<1>33. ASSUME CommandCancelled PROVE GrantInv'
  BY <1>0, <1>i, <1>33 DEF CommandCancelled, CanFinishAttempt, FinishAttempt
<1>34. ASSUME CommandObserved PROVE GrantInv'
  BY <1>0, <1>i, <1>34 DEF CommandObserved, CanFinishAttempt, FinishAttempt,
     AttemptAfter
<1>35. ASSUME StartManual PROVE GrantInv'
  BY <1>0, <1>i, <1>35 DEF StartManual, Goto, CanStartAttempt, StartAttempt,
     CanRequireOperator, CoordRequireOperator
<1>36. ASSUME OpenApply PROVE GrantInv'
  BY <1>0, <1>i, <1>36 DEF OpenApply, Goto, CanTransitionRun, TransitionRun, Mutated
<1>37. ASSUME OpenOther PROVE GrantInv'
  BY <1>0, <1>i, <1>37 DEF OpenOther, Goto, CanTransitionRun, TransitionRun
<1>38. ASSUME ManualCancelled PROVE GrantInv'
  BY <1>0, <1>i, <1>38 DEF ManualCancelled, CanFinishAttempt, FinishAttempt
<1>39. ASSUME ManualAnswered PROVE GrantInv'
  BY <1>0, <1>i, <1>39 DEF ManualAnswered, CanTransitionRun, TransitionRun,
     CoordOperatorAnswered
<1>40. ASSUME ManualObserved PROVE GrantInv'
  BY <1>0, <1>i, <1>40 DEF ManualObserved, CanFinishAttempt, FinishAttempt, AttemptAfter
<1>41. ASSUME PhaseApplied PROVE GrantInv'
  BY <1>0, <1>i, <1>41 DEF PhaseApplied, PhaseEnds, CanCompletePhase,
     CoordCompletePhase, CanTransitionStep, TransitionStep
<1>42. ASSUME PhaseNeedsApply PROVE GrantInv'
  BY <1>0, <1>i, <1>42 DEF PhaseNeedsApply, PhaseEnds, CanCompletePhase,
     CoordCompletePhase, CanTransitionStep, TransitionStep
<1>43. ASSUME PhaseAssessed PROVE GrantInv'
  BY <1>0, <1>i, <1>43 DEF PhaseAssessed, PhaseEnds, CanCompletePhase,
     CoordCompletePhase, CanTransitionStep, TransitionStep
<1>44. ASSUME PhaseSettles("compliant") PROVE GrantInv'
  BY <1>0, <1>i, <1>44 DEF PhaseSettles, PhaseEnds, CanCompletePhase,
     CoordCompletePhase, CanTransitionStep, TransitionStep
<1>45. ASSUME PhaseSettles("verified") PROVE GrantInv'
  BY <1>0, <1>i, <1>45 DEF PhaseSettles, PhaseEnds, CanCompletePhase,
     CoordCompletePhase, CanTransitionStep, TransitionStep
<1>46. ASSUME PhaseSettles("failed") PROVE GrantInv'
  BY <1>0, <1>i, <1>46 DEF PhaseSettles, PhaseEnds, CanCompletePhase,
     CoordCompletePhase, CanTransitionStep, TransitionStep
<1>47. ASSUME PhaseSettles("unknown") PROVE GrantInv'
  BY <1>0, <1>i, <1>47 DEF PhaseSettles, PhaseEnds, CanCompletePhase,
     CoordCompletePhase, CanTransitionStep, TransitionStep
<1>48. ASSUME SettleVerifies PROVE GrantInv'
  BY <1>0, <1>i, <1>48 DEF SettleVerifies, SetRunCursor
<1>49. ASSUME SettleChecksOff PROVE GrantInv'
  BY <1>0, <1>i, <1>49 DEF SettleChecksOff, SetRunCursor, Goto
<1>50. ASSUME SettlePauses("policy") PROVE GrantInv'
  BY <1>0, <1>i, <1>50 DEF SettlePauses, Goto, CanTransitionRun, TransitionRun
<1>51. ASSUME SettlePauses("decide") PROVE GrantInv'
  BY <1>0, <1>i, <1>51 DEF SettlePauses, Goto, CanTransitionRun, TransitionRun
<1>52. ASSUME Assess PROVE GrantInv'
  BY <1>0, <1>i, <1>52 DEF Assess, Goto, CoordContinueAssessment, SetRunCursor
<1>53. ASSUME Settles("policy", "failed") PROVE GrantInv'
  BY <1>0, <1>i, <1>53 DEF Settles, SettleAs, CoordSettleStep, CanResolveStep,
     CanSettleStep, SettleStep
<1>54. ASSUME Stops("policy") PROVE GrantInv'
  BY <1>0, <1>i, <1>54 DEF Stops, SettleStopped, CoordStop, CanResolveStep,
     CanSettleStep, SettleStep
<1>55. ASSUME AwaitDecision PROVE GrantInv'
  BY <1>0, <1>i, <1>55 DEF AwaitDecision, Goto
<1>56. ASSUME Retries PROVE GrantInv'
  BY <1>0, <1>i, <1>56 DEF Retries, CoordSettleStep, ResetStepForRetry, CanResolveStep,
     CanSettleStep, SettleStep
<1>57. ASSUME Settles("deciding", "skipped") PROVE GrantInv'
  BY <1>0, <1>i, <1>57 DEF Settles, SettleAs, CoordSettleStep, CanResolveStep,
     CanSettleStep, SettleStep
<1>58. ASSUME Settles("deciding", "waived") PROVE GrantInv'
  BY <1>0, <1>i, <1>58 DEF Settles, SettleAs, CoordSettleStep, CanResolveStep,
     CanSettleStep, SettleStep
<1>59. ASSUME Stops("deciding") PROVE GrantInv'
  BY <1>0, <1>i, <1>59 DEF Stops, SettleStopped, CoordStop, CanResolveStep,
     CanSettleStep, SettleStep
<1>60. ASSUME DecisionCancelled PROVE GrantInv'
  BY <1>0, <1>i, <1>60 DEF DecisionCancelled, Goto
<1>61. ASSUME SummaryNext PROVE GrantInv'
  BY <1>0, <1>i, <1>61 DEF SummaryNext, UpdateStepDetails
<1>62. ASSUME SummaryEnds PROVE GrantInv'
  BY <1>0, <1>i, <1>62 DEF SummaryEnds, UpdateStepDetails
<1>63. ASSUME FinishCancelled PROVE GrantInv'
  BY <1>0, <1>i, <1>63 DEF FinishCancelled, CancelPendingApprovals
<1>64. ASSUME MarkNothing PROVE GrantInv'
  BY <1>0, <1>i, <1>64 DEF MarkNothing, Goto
<1>65. ASSUME NEW s \in Steps, MarkOne(s) PROVE GrantInv'
  BY <1>0, <1>i, <1>65 DEF MarkOne, TransitionStep
<1>66. ASSUME WrapUp PROVE GrantInv'
  BY <1>0, <1>i, <1>66 DEF WrapUp, Goto
<1>67. ASSUME Finalize PROVE GrantInv'
  BY <1>0, <1>i, <1>67 DEF Finalize, Goto, CanFinalizeRun, FinalizeRun,
     CoordTransitionRun
<1>68. ASSUME EngineError PROVE GrantInv'
  BY <1>0, <1>i, <1>68 DEF EngineError, Goto, Refused
<1>69. ASSUME Abort PROVE GrantInv'
  BY <1>0, <1>i, <1>69 DEF Abort, Goto, CancelPendingApprovals
<1>70. ASSUME AbortedSteps PROVE GrantInv'
  BY <1>0, <1>i, <1>70 DEF AbortedSteps, Goto
<1>71. ASSUME NEW s \in Steps, AbortOne(s) PROVE GrantInv'
  BY <1>0, <1>i, <1>71 DEF AbortOne, TransitionStep
<1>72. ASSUME AbortFinalize PROVE GrantInv'
  BY <1>0, <1>i, <1>72 DEF AbortFinalize, Goto, CanFinalizeRun, FinalizeRun, NoRun
<1>73. ASSUME Exit PROVE GrantInv'
  BY <1>0, <1>i, <1>73 DEF Exit, NoEngine, Spawned, NoIO
<1>74. ASSUME RespondApproval PROVE GrantInv'
  BY <1>0, <1>i, <1>74 DEF RespondApproval
<1>75. ASSUME Decide PROVE GrantInv'
  BY <1>0, <1>i, <1>75 DEF Decide
<1>76. ASSUME SubmitManual PROVE GrantInv'
  BY <1>0, <1>i, <1>76 DEF SubmitManual
<1>77. ASSUME CancelRead PROVE GrantInv'
  BY <1>0, <1>i, <1>77 DEF CancelRead
<1>78. ASSUME CancelSignal PROVE GrantInv'
  BY <1>0, <1>i, <1>78 DEF CancelSignal
<1>79. ASSUME CancelEnds PROVE GrantInv'
  BY <1>0, <1>i, <1>79 DEF CancelEnds, CancelPendingApprovals, FinalizeRun, NoIO
<1>80. ASSUME CancelSettles PROVE GrantInv'
  BY <1>0, <1>i, <1>80 DEF CancelSettles, CancelPendingApprovals
<1>81. ASSUME Resume PROVE GrantInv'
  BY <1>0, <1>i, <1>81 DEF Resume, CanRebind, RebindInterruptedRun, Spawned
<1>82. ASSUME Claim PROVE GrantInv'
  BY <1>0, <1>i, <1>82 DEF Claim
<1>83. ASSUME SubmitResult PROVE GrantInv'
  BY <1>0, <1>i, <1>83 DEF SubmitResult
<1>84. ASSUME LeaseExpires PROVE GrantInv'
  BY <1>0, <1>i, <1>84 DEF LeaseExpires
<1>85. ASSUME CloseTerminal PROVE GrantInv'
  BY <1>0, <1>i, <1>85 DEF CloseTerminal
<1>86. ASSUME Crash PROVE GrantInv'
  BY <1>0, <1>i, <1>86 DEF Crash, NoRun, NoEngine, Spawned, NoIO
<1>87. ASSUME RestartInterrupts PROVE GrantInv'
  BY <1>0, <1>i, <1>87 DEF RestartInterrupts, InterruptActiveRuns
<1>88. ASSUME RestartAgain PROVE GrantInv'
  BY <1>0, <1>i, <1>88 DEF RestartAgain
<1>r. ASSUME AbortRefused PROVE GrantInv'
  BY <1>0, <1>i, <1>r DEF AbortRefused, Goto
<1>s. ASSUME UNCHANGED vars PROVE GrantInv'
  BY <1>i, <1>s DEF vars
<1> HIDE DEF RowInv, EngineInv, AttemptInv, GrantInv, Granted, AtShell, AtManual,
        Active, InFlight, Attempt, NoAttempt, Database, Coordinator, Engine,
        Environment, Registries, InRange
<1> QED
  BY <1>r, <1>s, <1>1, <1>2, <1>3, <1>4, <1>5, <1>6, <1>7, <1>8, <1>9, <1>10, <1>11,
     <1>12, <1>13, <1>14, <1>15, <1>16, <1>17, <1>18, <1>19, <1>20, <1>21, <1>22, <1>23,
     <1>24, <1>25, <1>26, <1>27, <1>28, <1>29, <1>30, <1>31, <1>32, <1>33, <1>34, <1>35,
     <1>36, <1>37, <1>38, <1>39, <1>40, <1>41, <1>42, <1>43, <1>44, <1>45, <1>46, <1>47,
     <1>48, <1>49, <1>50, <1>51, <1>52, <1>53, <1>54, <1>55, <1>56, <1>57, <1>58, <1>59,
     <1>60, <1>61, <1>62, <1>63, <1>64, <1>65, <1>66, <1>67, <1>68, <1>69, <1>70, <1>71,
     <1>72, <1>73, <1>74, <1>75, <1>76, <1>77, <1>78, <1>79, <1>80, <1>81, <1>82, <1>83,
     <1>84, <1>85, <1>86, <1>87, <1>88 DEF OneStep

\* The rows stand still once their report is stored.
LEMMA ReportStep == TypeInv /\ RunInv /\ OneStep => ReportDescribesRun'
<1> SUFFICES ASSUME TypeInv, RunInv, OneStep PROVE ReportDescribesRun'
  OBVIOUS
<1>0. /\ db \in Database /\ coord \in Coordinator /\ eng \in Engine /\ env \in Environment
      /\ io \in Registries /\ hist \in History /\ InRange
  BY DEF TypeInv, TypeOK
<1>i. RowInv /\ EngineInv /\ ChangeInv /\ ReportDescribesRun
  BY DEF RunInv
<1> USE DEF RowInv, EngineInv, ChangeInv, ReportDescribesRun, Terminal, Active,
        Kinds, KeepApplyStarted, NoReport, CreatedRun, RunStatus, Database,
        Coordinator, Engine, Environment, Registries, InRange
<1>1. ASSUME RegisterNew PROVE ReportDescribesRun'
  BY <1>0, <1>i, <1>1 DEF RegisterNew, Goto, CanTransitionRun, TransitionRun,
     RegisterRun, NoRun
<1>2. ASSUME RegisterResumed PROVE ReportDescribesRun'
  BY <1>0, <1>i, <1>2 DEF RegisterResumed, Restored, RegisterRestoredRun, NoRun
<1>3. ASSUME Launch PROVE ReportDescribesRun'
  BY <1>0, <1>i, <1>3 DEF Launch, Goto, CanTransitionRun, TransitionRun,
     CoordTransitionRun
<1>4. ASSUME ProbeCancelled PROVE ReportDescribesRun'
  BY <1>0, <1>i, <1>4 DEF ProbeCancelled, Goto
<1>5. ASSUME ProbeLost PROVE ReportDescribesRun'
  BY <1>0, <1>i, <1>5 DEF ProbeLost, Goto, CoordTargetDrift
<1>6. ASSUME ProbeAsks PROVE ReportDescribesRun'
  BY <1>0, <1>i, <1>6 DEF ProbeAsks, CreateAttemptIntent
<1>7. ASSUME ChecklistDone PROVE ReportDescribesRun'
  BY <1>0, <1>i, <1>7 DEF ChecklistDone, StatusFromChecklist
<1>8. ASSUME NextCancelled PROVE ReportDescribesRun'
  BY <1>0, <1>i, <1>8 DEF NextCancelled, Goto
<1>9. ASSUME NextPassed PROVE ReportDescribesRun'
  BY <1>0, <1>i, <1>9 DEF NextPassed
<1>10. ASSUME NextBegins PROVE ReportDescribesRun'
  BY <1>0, <1>i, <1>10 DEF NextBegins
<1>11. ASSUME NextUncertain PROVE ReportDescribesRun'
  BY <1>0, <1>i, <1>11 DEF NextUncertain, CoordRequireOperator
<1>12. ASSUME BeginAgain PROVE ReportDescribesRun'
  BY <1>0, <1>i, <1>12 DEF BeginAgain, CanBeginPhase, CoordBeginPhase, SetRunCursor
<1>13. ASSUME BeginMoves PROVE ReportDescribesRun'
  BY <1>0, <1>i, <1>13 DEF BeginMoves, CanBeginPhase, CoordBeginPhase, TransitionStep
<1>14. ASSUME DispatchCancelled PROVE ReportDescribesRun'
  BY <1>0, <1>i, <1>14 DEF DispatchCancelled, Goto
<1>15. ASSUME DispatchAgent PROVE ReportDescribesRun'
  BY <1>0, <1>i, <1>15 DEF DispatchAgent
<1>16. ASSUME DispatchShell PROVE ReportDescribesRun'
  BY <1>0, <1>i, <1>16 DEF DispatchShell, CreateAttemptIntent
<1>17. ASSUME DispatchManual PROVE ReportDescribesRun'
  BY <1>0, <1>i, <1>17 DEF DispatchManual, CreateAttemptIntent
<1>18. ASSUME DriftFrom("dispatch") PROVE ReportDescribesRun'
  BY <1>0, <1>i, <1>18 DEF DriftFrom, CoordTargetDrift, CanTransitionStep,
     TransitionStep
<1>19. ASSUME DriftFrom("approved") PROVE ReportDescribesRun'
  BY <1>0, <1>i, <1>19 DEF DriftFrom, CoordTargetDrift, CanTransitionStep,
     TransitionStep
<1>20. ASSUME DriftFrom("manualTarget") PROVE ReportDescribesRun'
  BY <1>0, <1>i, <1>20 DEF DriftFrom, CoordTargetDrift, CanTransitionStep,
     TransitionStep
<1>21. ASSUME DriftRun PROVE ReportDescribesRun'
  BY <1>0, <1>i, <1>21 DEF DriftRun, Goto, CanTransitionRun, TransitionRun
<1>22. ASSUME DriftAttempt PROVE ReportDescribesRun'
  BY <1>0, <1>i, <1>22 DEF DriftAttempt, CanFinishAttempt, FinishAttempt
<1>23. ASSUME AskCoordinated PROVE ReportDescribesRun'
  BY <1>0, <1>i, <1>23 DEF AskCoordinated, Goto, CanRequestApproval,
     RequestApprovalAwaiting, CoordCanRequestApproval, CoordRequestApproval
<1>24. ASSUME AskRefused PROVE ReportDescribesRun'
  BY <1>0, <1>i, <1>24 DEF AskRefused, Goto, CanRequestApproval, RequestApprovalAwaiting
<1>25. ASSUME ApprovalCancelled PROVE ReportDescribesRun'
  BY <1>0, <1>i, <1>25 DEF ApprovalCancelled, CancelPendingApprovals
<1>26. ASSUME Approved PROVE ReportDescribesRun'
  BY <1>0, <1>i, <1>26 DEF Approved, Goto, CanResolveApproval, CanDecideApproval,
     CoordApprove, ApproveAndResume
<1>27. ASSUME Declined PROVE ReportDescribesRun'
  BY <1>0, <1>i, <1>27 DEF Declined, CanResolveApproval, CanDecideApproval,
     CoordDecline, DeclineApproval
<1>28. ASSUME DeclineStep PROVE ReportDescribesRun'
  BY <1>0, <1>i, <1>28 DEF DeclineStep, CanTransitionStep, TransitionStep
<1>29. ASSUME DeclineRun PROVE ReportDescribesRun'
  BY <1>0, <1>i, <1>29 DEF DeclineRun, Goto, CanTransitionRun, TransitionRun
<1>30. ASSUME RecheckCancelled PROVE ReportDescribesRun'
  BY <1>0, <1>i, <1>30 DEF RecheckCancelled, CanFinishAttempt, FinishAttempt
<1>31. ASSUME RecheckPassed PROVE ReportDescribesRun'
  BY <1>0, <1>i, <1>31 DEF RecheckPassed, Goto
<1>32. ASSUME StartCommand PROVE ReportDescribesRun'
  BY <1>0, <1>i, <1>32 DEF StartCommand, CanStartAttempt, StartAttempt
<1>33. ASSUME CommandCancelled PROVE ReportDescribesRun'
  BY <1>0, <1>i, <1>33 DEF CommandCancelled, CanFinishAttempt, FinishAttempt
<1>34. ASSUME CommandObserved PROVE ReportDescribesRun'
  BY <1>0, <1>i, <1>34 DEF CommandObserved, CanFinishAttempt, FinishAttempt
<1>35. ASSUME StartManual PROVE ReportDescribesRun'
  BY <1>0, <1>i, <1>35 DEF StartManual, Goto, CanStartAttempt, StartAttempt,
     CanRequireOperator, CoordRequireOperator
<1>36. ASSUME OpenApply PROVE ReportDescribesRun'
  BY <1>0, <1>i, <1>36 DEF OpenApply, Goto, CanTransitionRun, TransitionRun, Mutated
<1>37. ASSUME OpenOther PROVE ReportDescribesRun'
  BY <1>0, <1>i, <1>37 DEF OpenOther, Goto, CanTransitionRun, TransitionRun
<1>38. ASSUME ManualCancelled PROVE ReportDescribesRun'
  BY <1>0, <1>i, <1>38 DEF ManualCancelled, CanFinishAttempt, FinishAttempt
<1>39. ASSUME ManualAnswered PROVE ReportDescribesRun'
  BY <1>0, <1>i, <1>39 DEF ManualAnswered, CanTransitionRun, TransitionRun,
     CoordOperatorAnswered
<1>40. ASSUME ManualObserved PROVE ReportDescribesRun'
  BY <1>0, <1>i, <1>40 DEF ManualObserved, CanFinishAttempt, FinishAttempt
<1>41. ASSUME PhaseApplied PROVE ReportDescribesRun'
  BY <1>0, <1>i, <1>41 DEF PhaseApplied, PhaseEnds, CanCompletePhase,
     CoordCompletePhase, CanTransitionStep, TransitionStep
<1>42. ASSUME PhaseNeedsApply PROVE ReportDescribesRun'
  BY <1>0, <1>i, <1>42 DEF PhaseNeedsApply, PhaseEnds, CanCompletePhase,
     CoordCompletePhase, CanTransitionStep, TransitionStep
<1>43. ASSUME PhaseAssessed PROVE ReportDescribesRun'
  BY <1>0, <1>i, <1>43 DEF PhaseAssessed, PhaseEnds, CanCompletePhase,
     CoordCompletePhase, CanTransitionStep, TransitionStep
<1>44. ASSUME PhaseSettles("compliant") PROVE ReportDescribesRun'
  BY <1>0, <1>i, <1>44 DEF PhaseSettles, PhaseEnds, CanCompletePhase,
     CoordCompletePhase, CanTransitionStep, TransitionStep
<1>45. ASSUME PhaseSettles("verified") PROVE ReportDescribesRun'
  BY <1>0, <1>i, <1>45 DEF PhaseSettles, PhaseEnds, CanCompletePhase,
     CoordCompletePhase, CanTransitionStep, TransitionStep
<1>46. ASSUME PhaseSettles("failed") PROVE ReportDescribesRun'
  BY <1>0, <1>i, <1>46 DEF PhaseSettles, PhaseEnds, CanCompletePhase,
     CoordCompletePhase, CanTransitionStep, TransitionStep
<1>47. ASSUME PhaseSettles("unknown") PROVE ReportDescribesRun'
  BY <1>0, <1>i, <1>47 DEF PhaseSettles, PhaseEnds, CanCompletePhase,
     CoordCompletePhase, CanTransitionStep, TransitionStep
<1>48. ASSUME SettleVerifies PROVE ReportDescribesRun'
  BY <1>0, <1>i, <1>48 DEF SettleVerifies, SetRunCursor
<1>49. ASSUME SettleChecksOff PROVE ReportDescribesRun'
  BY <1>0, <1>i, <1>49 DEF SettleChecksOff, SetRunCursor, Goto
<1>50. ASSUME SettlePauses("policy") PROVE ReportDescribesRun'
  BY <1>0, <1>i, <1>50 DEF SettlePauses, Goto, CanTransitionRun, TransitionRun
<1>51. ASSUME SettlePauses("decide") PROVE ReportDescribesRun'
  BY <1>0, <1>i, <1>51 DEF SettlePauses, Goto, CanTransitionRun, TransitionRun
<1>52. ASSUME Assess PROVE ReportDescribesRun'
  BY <1>0, <1>i, <1>52 DEF Assess, Goto, CoordContinueAssessment, SetRunCursor
<1>53. ASSUME Settles("policy", "failed") PROVE ReportDescribesRun'
  BY <1>0, <1>i, <1>53 DEF Settles, SettleAs, CoordSettleStep, CanResolveStep,
     CanSettleStep, SettleStep
<1>54. ASSUME Stops("policy") PROVE ReportDescribesRun'
  BY <1>0, <1>i, <1>54 DEF Stops, SettleStopped, CoordStop, CanResolveStep,
     CanSettleStep, SettleStep
<1>55. ASSUME AwaitDecision PROVE ReportDescribesRun'
  BY <1>0, <1>i, <1>55 DEF AwaitDecision, Goto
<1>56. ASSUME Retries PROVE ReportDescribesRun'
  BY <1>0, <1>i, <1>56 DEF Retries, CoordSettleStep, ResetStepForRetry, CanResolveStep,
     CanSettleStep, SettleStep
<1>57. ASSUME Settles("deciding", "skipped") PROVE ReportDescribesRun'
  BY <1>0, <1>i, <1>57 DEF Settles, SettleAs, CoordSettleStep, CanResolveStep,
     CanSettleStep, SettleStep
<1>58. ASSUME Settles("deciding", "waived") PROVE ReportDescribesRun'
  BY <1>0, <1>i, <1>58 DEF Settles, SettleAs, CoordSettleStep, CanResolveStep,
     CanSettleStep, SettleStep
<1>59. ASSUME Stops("deciding") PROVE ReportDescribesRun'
  BY <1>0, <1>i, <1>59 DEF Stops, SettleStopped, CoordStop, CanResolveStep,
     CanSettleStep, SettleStep
<1>60. ASSUME DecisionCancelled PROVE ReportDescribesRun'
  BY <1>0, <1>i, <1>60 DEF DecisionCancelled, Goto
<1>61. ASSUME SummaryNext PROVE ReportDescribesRun'
  BY <1>0, <1>i, <1>61 DEF SummaryNext, UpdateStepDetails
<1>62. ASSUME SummaryEnds PROVE ReportDescribesRun'
  BY <1>0, <1>i, <1>62 DEF SummaryEnds, UpdateStepDetails
<1>63. ASSUME FinishCancelled PROVE ReportDescribesRun'
  BY <1>0, <1>i, <1>63 DEF FinishCancelled, CancelPendingApprovals
<1>64. ASSUME MarkNothing PROVE ReportDescribesRun'
  BY <1>0, <1>i, <1>64 DEF MarkNothing, Goto
<1>65. ASSUME NEW s \in Steps, MarkOne(s) PROVE ReportDescribesRun'
  BY <1>0, <1>i, <1>65 DEF MarkOne, TransitionStep
<1>66. ASSUME WrapUp PROVE ReportDescribesRun'
  BY <1>0, <1>i, <1>66 DEF WrapUp, Goto
<1>67. ASSUME Finalize PROVE ReportDescribesRun'
  BY <1>0, <1>i, <1>67 DEF Finalize, Goto, CanFinalizeRun, FinalizeRun,
     CoordTransitionRun
<1>68. ASSUME EngineError PROVE ReportDescribesRun'
  BY <1>0, <1>i, <1>68 DEF EngineError, Goto, Refused
<1>69. ASSUME Abort PROVE ReportDescribesRun'
  BY <1>0, <1>i, <1>69 DEF Abort, Goto, CancelPendingApprovals
<1>70. ASSUME AbortedSteps PROVE ReportDescribesRun'
  BY <1>0, <1>i, <1>70 DEF AbortedSteps, Goto
<1>71. ASSUME NEW s \in Steps, AbortOne(s) PROVE ReportDescribesRun'
  BY <1>0, <1>i, <1>71 DEF AbortOne, TransitionStep
<1>72. ASSUME AbortFinalize PROVE ReportDescribesRun'
  BY <1>0, <1>i, <1>72 DEF AbortFinalize, Goto, CanFinalizeRun, FinalizeRun, NoRun
<1>73. ASSUME Exit PROVE ReportDescribesRun'
  BY <1>0, <1>i, <1>73 DEF Exit, NoEngine, Spawned, NoIO
<1>74. ASSUME RespondApproval PROVE ReportDescribesRun'
  BY <1>0, <1>i, <1>74 DEF RespondApproval
<1>75. ASSUME Decide PROVE ReportDescribesRun'
  BY <1>0, <1>i, <1>75 DEF Decide
<1>76. ASSUME SubmitManual PROVE ReportDescribesRun'
  BY <1>0, <1>i, <1>76 DEF SubmitManual
<1>77. ASSUME CancelRead PROVE ReportDescribesRun'
  BY <1>0, <1>i, <1>77 DEF CancelRead
<1>78. ASSUME CancelSignal PROVE ReportDescribesRun'
  BY <1>0, <1>i, <1>78 DEF CancelSignal
<1>79. ASSUME CancelEnds PROVE ReportDescribesRun'
  BY <1>0, <1>i, <1>79 DEF CancelEnds, CancelPendingApprovals, FinalizeRun, NoIO
<1>80. ASSUME CancelSettles PROVE ReportDescribesRun'
  BY <1>0, <1>i, <1>80 DEF CancelSettles, CancelPendingApprovals
<1>81. ASSUME Resume PROVE ReportDescribesRun'
  BY <1>0, <1>i, <1>81 DEF Resume, CanRebind, RebindInterruptedRun, Spawned
<1>82. ASSUME Claim PROVE ReportDescribesRun'
  BY <1>0, <1>i, <1>82 DEF Claim
<1>83. ASSUME SubmitResult PROVE ReportDescribesRun'
  BY <1>0, <1>i, <1>83 DEF SubmitResult
<1>84. ASSUME LeaseExpires PROVE ReportDescribesRun'
  BY <1>0, <1>i, <1>84 DEF LeaseExpires
<1>85. ASSUME CloseTerminal PROVE ReportDescribesRun'
  BY <1>0, <1>i, <1>85 DEF CloseTerminal
<1>86. ASSUME Crash PROVE ReportDescribesRun'
  BY <1>0, <1>i, <1>86 DEF Crash, NoRun, NoEngine, Spawned, NoIO
<1>87. ASSUME RestartInterrupts PROVE ReportDescribesRun'
  BY <1>0, <1>i, <1>87 DEF RestartInterrupts, InterruptActiveRuns
<1>88. ASSUME RestartAgain PROVE ReportDescribesRun'
  BY <1>0, <1>i, <1>88 DEF RestartAgain
<1>r. ASSUME AbortRefused PROVE ReportDescribesRun'
  BY <1>0, <1>i, <1>r DEF AbortRefused, Goto
<1>s. ASSUME UNCHANGED vars PROVE ReportDescribesRun'
  BY <1>i, <1>s DEF vars
<1> HIDE DEF RowInv, EngineInv, ChangeInv, ReportDescribesRun, Terminal, Active,
        Kinds, KeepApplyStarted, NoReport, CreatedRun, RunStatus, Database,
        Coordinator, Engine, Environment, Registries, InRange
<1> QED
  BY <1>r, <1>s, <1>1, <1>2, <1>3, <1>4, <1>5, <1>6, <1>7, <1>8, <1>9, <1>10, <1>11,
     <1>12, <1>13, <1>14, <1>15, <1>16, <1>17, <1>18, <1>19, <1>20, <1>21, <1>22, <1>23,
     <1>24, <1>25, <1>26, <1>27, <1>28, <1>29, <1>30, <1>31, <1>32, <1>33, <1>34, <1>35,
     <1>36, <1>37, <1>38, <1>39, <1>40, <1>41, <1>42, <1>43, <1>44, <1>45, <1>46, <1>47,
     <1>48, <1>49, <1>50, <1>51, <1>52, <1>53, <1>54, <1>55, <1>56, <1>57, <1>58, <1>59,
     <1>60, <1>61, <1>62, <1>63, <1>64, <1>65, <1>66, <1>67, <1>68, <1>69, <1>70, <1>71,
     <1>72, <1>73, <1>74, <1>75, <1>76, <1>77, <1>78, <1>79, <1>80, <1>81, <1>82, <1>83,
     <1>84, <1>85, <1>86, <1>87, <1>88 DEF OneStep

-----------------------------------------------------------------------------
(* The whole invariant *)

\* A run begins with everything as the rows say.
LEMMA RunInit == Init => RunInv
<1> SUFFICES ASSUME Init PROVE RunInv
  OBVIOUS
<1> USE DEF Init, CreatedRun, NoRun, Spawned, NoIO, NoReport
<1>1. RowInv /\ EngineInv
  BY DEF RowInv, EngineInv, Deciding, Terminal, Ending
<1>2. CoordInv /\ StepInv
  BY DEF CoordInv, StepInv, OnStep, Paused, Deciding, AtShell, AtManual
<1>3. CopyInv /\ AttemptInv
  BY DEF CopyInv, AttemptInv, Loaded, Followed, AtShell, AtManual, NoAttempt
<1>4. ChangeInv
  BY DEF ChangeInv, NoAttempt
<1>5. OrderInv
  BY DEF OrderInv, ChecklistInOrder, InOrder, OnStep, Paused, Deciding, AtShell, AtManual,
         Steps
<1>6. LeaseInv /\ EvidenceInv
  BY DEF LeaseInv, EvidenceInv, NotHanded, Telling
<1>7. EarnedInv /\ GrantInv /\ ReportDescribesRun
  BY DEF EarnedInv, SuccessIsEarned, GrantInv, Granted, ReportDescribesRun, Terminal
<1> QED
  BY <1>1, <1>2, <1>3, <1>4, <1>5, <1>6, <1>7 DEF RunInv

\* Every step of the system keeps every part.
LEMMA RunStep == TypeInv /\ RunInv /\ [Next]_vars => RunInv'
<1> SUFFICES ASSUME TypeInv, RunInv, [Next]_vars PROVE RunInv'
  OBVIOUS
<1>1. TypeInv /\ RunInv /\ OneStep
  BY EveryStep
<1>2. RowInv' /\ EngineInv' /\ CoordInv' /\ StepInv' /\ CopyInv' /\ AttemptInv'
  BY <1>1, RowStep, EngineStepInv, CoordStep, StepStep, CopyStep, AttemptStep
<1>3. /\ ChangeInv' /\ OrderInv' /\ LeaseInv' /\ EvidenceInv' /\ EarnedInv' /\ GrantInv'
      /\ ReportDescribesRun'
  BY <1>1, ChangeStep, OrderStep, LeaseStep, EvidenceStep, EarnedStep, GrantStep, ReportStep
<1> QED
  BY <1>2, <1>3 DEF RunInv

(* What every position of the engine says of the rows, the coordinator's entry,
   the checklist in memory and the registries holds of every run. *)
THEOREM RunInvariant == Spec => [](TypeInv /\ RunInv)
<1>1. TypeInv /\ RunInv /\ [Next]_vars => TypeInv' /\ RunInv'
  BY TypeStep, RunStep
<1> QED
  BY TypeInit, RunInit, <1>1, PTL DEF Spec

-----------------------------------------------------------------------------
(* What follows of every run *)

(* A shell apply that was typed is recorded as a change, whatever later writes
   over that column. *)
THEOREM TypedIsRecorded == Spec => []TypedApplyIsRecorded
<1>1. TypeInv /\ RunInv => TypedApplyIsRecorded
  BY DEF RunInv, ChangeInv, TypedApplyIsRecorded
<1> QED
  BY RunInvariant, <1>1, PTL

(* A run has its report exactly when it is finished, and nothing moves the rows
   the report describes. *)
THEOREM ReportStands == Spec => []ReportDescribesRun
<1>1. TypeInv /\ RunInv => ReportDescribesRun
  BY DEF RunInv
<1> QED
  BY RunInvariant, <1>1, PTL

(* No step is checked off, and no run succeeds, without the observation of the
   target that the outcome claims. *)
THEOREM SuccessEarned == Spec => []SuccessIsEarned
<1>1. TypeInv /\ RunInv => SuccessIsEarned
  BY DEF RunInv, EarnedInv
<1> QED
  BY RunInvariant, <1>1, PTL

(* Whenever the engine waits for somebody, the rows, the coordinator's entry and
   the checklist in memory agree. *)
THEOREM CopiesStayTogether == Spec => []CopiesAgree
<1>1. TypeInv /\ RunInv => CopiesAgree
  <2> SUFFICES ASSUME TypeInv, RunInv, eng.pc \in Waiting
               PROVE  /\ coord.step = db.step
                      /\ eng.list = db.step
                      /\ ~eng.tail => coord.run = db.run /\ coord.active = db.active
    BY DEF CopiesAgree
  <2>1. coord.step = db.step /\ eng.list = db.step
    BY DEF RunInv, CopyInv, Waiting, Loaded, Followed, Ending
  <2>2. ASSUME ~eng.tail PROVE coord.run = db.run
    BY <2>2 DEF RunInv, Waiting, RowInv, CoordInv, Deciding
  <2>3. ASSUME ~eng.tail PROVE coord.active = db.active
    BY <2>3 DEF RunInv, Waiting, CoordInv, OnStep, Paused, Deciding, AtShell, AtManual
  <2> QED
    BY <2>1, <2>2, <2>3
<1> QED
  BY RunInvariant, <1>1, PTL

(* Whatever the operator decides of a step the engine stopped at, the command
   accepts it, and the coordinator and the rows carry it out. *)
THEOREM DecisionCommits == Spec => []DecisionWillCommit
<1>1. TypeInv /\ RunInv => DecisionWillCommit
  <2> SUFFICES ASSUME TypeInv, RunInv, eng.pc = "deciding", ~eng.tail
               PROVE  /\ DecisionAccepted
                      /\ CanResolveStep(coord, eng.i) /\ CanSettleStep(db, eng.i)
    BY DEF DecisionWillCommit
  <2>1. Deciding /\ Paused /\ Followed
    BY DEF Deciding, Paused, Followed, Loaded, Ending
  <2>2. /\ db.run \in {"paused", "waiting_operator"} /\ coord.run = db.run
        /\ coord.active = eng.i /\ db.active = eng.i
        /\ db.step[eng.i] \in {"paused", "unknown"} /\ coord.step = db.step
    BY <2>1 DEF RunInv, RowInv, CoordInv, StepInv, CopyInv
  <2> QED
    BY <2>2 DEF DecisionAccepted, CanResolveStep, CanSettleStep, Unsettled
<1> QED
  BY RunInvariant, <1>1, PTL

(* No step is begun while one before it has no settled outcome. *)
THEOREM WorkedInOrder == Spec => []ChecklistInOrder
<1>1. TypeInv /\ RunInv => ChecklistInOrder
  BY DEF RunInv, OrderInv
<1> QED
  BY RunInvariant, <1>1, PTL

\* Nobody but the webview's claim takes a lease.
LEMMA OnlyClaims ==
    ASSUME io \in Registries, [Next]_vars, io.pty = "leased", io'.pty = "claimed"
    PROVE  Claim
<1>1. io' # io
  OBVIOUS
<1>2. ASSUME EngineStep PROVE FALSE
  <2>1. \/ Register \/ RequestApproval \/ ApprovalCancelled \/ Approved \/ Declined
        \/ StartCommand \/ CommandCancelled \/ CommandObserved \/ StartManual
        \/ ManualCancelled \/ ManualAnswered \/ AwaitDecision \/ Decided
        \/ DecisionCancelled \/ FinishCancelled \/ Exit
    <3>1. ~(Launch \/ Probe \/ ChecklistDone \/ NextStep \/ BeginPhase \/ Dispatch)
      BY <1>1 DEF Launch, Probe, ChecklistDone, NextStep, BeginPhase, Dispatch
    <3>2. ~(TargetDrift \/ DriftRun \/ DriftAttempt \/ DeclineStep \/ DeclineRun \/ Recheck)
      BY <1>1 DEF TargetDrift, DriftRun, DriftAttempt, DeclineStep, DeclineRun, Recheck
    <3>3. ~(OpenManual \/ ManualObserved \/ CompletePhase \/ SettleRun \/ Assess)
      BY <1>1 DEF OpenManual, ManualObserved, CompletePhase, SettleRun, Assess
    <3>4. ~(FailurePolicyApplies \/ Summarize \/ MarkUnknown \/ WrapUp \/ Finalize)
      BY <1>1 DEF FailurePolicyApplies, Summarize, MarkUnknown, WrapUp, Finalize
    <3>5. ~(EngineError \/ Abort \/ AbortSteps \/ AbortFinalize \/ AbortRefused)
      BY <1>1 DEF EngineError, Abort, AbortSteps, AbortFinalize, AbortRefused
    <3> QED
      BY <1>2, <3>1, <3>2, <3>3, <3>4, <3>5 DEF EngineStep
  <2>2. ASSUME Register \/ RequestApproval \/ ApprovalCancelled \/ Approved \/ Declined
        PROVE  io'.pty = io.pty
    BY <2>2 DEF Register, RequestApproval, ApprovalCancelled, Approved, Declined, Registries
  <2>3. ~(StartCommand \/ CommandCancelled \/ CommandObserved \/ Exit)
    <3>1. ASSUME StartCommand PROVE io'.pty = "leased"
      BY <3>1 DEF StartCommand, Registries
    <3>2. ASSUME CommandCancelled \/ CommandObserved PROVE io'.pty = "none"
      BY <3>2 DEF CommandCancelled, CommandObserved, Registries
    <3>3. ASSUME Exit PROVE io'.pty = "none"
      BY <3>3 DEF Exit, NoIO
    <3> QED
      BY <3>1, <3>2, <3>3
  <2>4. ASSUME \/ StartManual \/ ManualCancelled \/ ManualAnswered \/ AwaitDecision
               \/ DecisionCancelled \/ FinishCancelled
        PROVE  io'.pty = io.pty
    BY <2>4 DEF StartManual, ManualCancelled, ManualAnswered, AwaitDecision,
       DecisionCancelled, FinishCancelled, Registries
  <2>5. ASSUME Decided PROVE io'.pty = io.pty
    BY <2>5 DEF Decided, Registries
  <2> QED
    BY <2>1, <2>2, <2>3, <2>4, <2>5
<1>3. ~(RespondApproval \/ Decide \/ SubmitManual \/ CancelRead \/ CancelSignal)
  BY <1>1 DEF RespondApproval, Decide, SubmitManual, CancelRead, CancelSignal, Registries
<1>4. ~(CancelInterrupted \/ Resume \/ SubmitResult \/ LeaseExpires \/ CloseTerminal)
  BY <1>1 DEF CancelInterrupted, NoIO, Resume, SubmitResult, PhaseResult, LeaseExpires,
     CloseTerminal, Registries
<1>5. ~(Crash \/ Restart \/ Finished \/ UNCHANGED vars)
  BY <1>1 DEF Crash, Restart, Finished, NoIO, vars
<1> QED
  BY <1>2, <1>3, <1>4, <1>5 DEF Next

(* An apply reaches the terminal or the operator only on a noncompliant check
   of its step, made by this process since the step was last changed. *)
THEOREM NoBlindApply == Spec => ApplyNeedsFreshCheck
<1>1. ASSUME TypeInv, RunInv, [Next]_vars, NEW s \in Steps, eng.phase = "apply", Handed(s)
      PROVE  hist.verdict[s] = "noncompliant"
  <2>0. s = eng.i
    BY <1>1 DEF Handed
  <2>1. CASE eng.pc = "manualOpen"
    BY <1>1, <2>0, <2>1 DEF RunInv, EvidenceInv, NotHanded
  <2>2. CASE io.pty = "leased" /\ io'.pty = "claimed"
    <3>1. eng.pc = "terminal"
      BY <1>1, <2>2, OnlyClaims DEF RunInv, LeaseInv, Claim, Aborting,
          InFlight, TypeInv, TypeOK
    <3> QED
      BY <1>1, <2>0, <2>2, <3>1 DEF RunInv, EvidenceInv, NotHanded
  <2> QED
    BY <1>1, <2>1, <2>2 DEF Handed
<1>2. TypeInv /\ RunInv /\ [Next]_vars =>
        [\A s \in Steps : eng.phase = "apply" /\ Handed(s)
                             => hist.verdict[s] = "noncompliant"]_vars
  BY <1>1
<1> QED
  BY RunInvariant, <1>2, PTL DEF Spec, ApplyNeedsFreshCheck
-----------------------------------------------------------------------------
(* The dispatch contract *)

\* What the operator is asked, what was granted (Granted, above) and what a
\* terminal may take, in the engine's rows and registries.
Asked == db.approval = "pending"
Offered == io.pty = "leased" /\ db.attempt.status = "running"
Nothing == ~Asked /\ ~Granted /\ ~Offered

\* A step that asks, grants, offers, takes and closes nothing: it leaves a
\* command where it is, or withdraws it.
Quiet ==
    /\ hist'.typed = hist.typed
    /\ db'.run \in Terminal <=> db.run \in Terminal
    /\ \/ Nothing'
       \/ /\ db'.approval = db.approval /\ db'.attempt = db.attempt
          /\ Offered' <=> Offered
          /\ Offered => eng'.i = eng.i /\ eng'.phase = eng.phase

\* A quiet step stutters in the contract, or is its Withdraw.
LEMMA QuietMaps == Quiet => [Contract!Next]_(Contract!vars)
<1> SUFFICES ASSUME Quiet PROVE [Contract!Next]_(Contract!vars)
  OBVIOUS
<1>1. hist'.typed = hist.typed /\ (db.run \in Terminal)' = (db.run \in Terminal)
  BY DEF Quiet
<1>2. CASE Nothing'
  <2>1. /\ (IF Asked THEN {DbCommand} ELSE {})' = {}
        /\ (IF Granted THEN {DbCommand} ELSE {})' = {}
        /\ (IF Offered THEN {EngineCommand} ELSE {})' = {}
    BY <1>2 DEF Nothing
  <2>2. CASE Nothing
    BY <1>1, <2>1, <2>2 DEF Nothing, Asked, Granted, Offered, Contract!vars
  <2>3. CASE ~Nothing
    <3>1. ~Contract!Idle
      BY <2>3 DEF Nothing, Asked, Granted, Offered, Contract!Idle
    <3> QED
      BY <1>1, <2>1, <3>1 DEF Asked, Granted, Offered, Contract!Withdraw, Contract!Next
  <2> QED
    BY <2>2, <2>3
<1>3. CASE /\ db'.approval = db.approval /\ db'.attempt = db.attempt
           /\ Offered' <=> Offered
           /\ Offered => eng'.i = eng.i /\ eng'.phase = eng.phase
  <2>1. /\ (IF Offered THEN {EngineCommand} ELSE {})' =
              (IF Offered THEN {EngineCommand} ELSE {})
        /\ (IF Granted THEN {DbCommand} ELSE {})' = (IF Granted THEN {DbCommand} ELSE {})
        /\ (IF Asked THEN {DbCommand} ELSE {})' = (IF Asked THEN {DbCommand} ELSE {})
    BY <1>3 DEF EngineCommand, DbCommand, Granted, Asked
  <2> QED
    BY <1>1, <2>1 DEF Asked, Granted, Offered, Contract!vars
<1> QED
  BY <1>2, <1>3 DEF Quiet

\* Every branch is a step of the contract.
LEMMA ContractStep ==
    TypeInv /\ RunInv /\ GateInv /\ OneStep => [Contract!Next]_(Contract!vars)
<1> SUFFICES ASSUME TypeInv, RunInv, GateInv, OneStep PROVE [Contract!Next]_(Contract!vars)
  OBVIOUS
<1>0. /\ db \in Database /\ coord \in Coordinator /\ eng \in Engine /\ env \in Environment
      /\ io \in Registries /\ hist \in History /\ InRange
  BY DEF TypeInv, TypeOK
<1>i. RowInv /\ EngineInv /\ AttemptInv /\ LeaseInv /\ GrantInv
  BY DEF RunInv
<1>g. GateInv
  OBVIOUS
<1>1. ASSUME AskCoordinated PROVE Contract!Next
  <2>1. /\ ~Asked /\ ~Granted /\ ~Offered /\ db.run \notin Terminal
    BY <1>0, <1>i, <1>g, <1>1 DEF AskCoordinated, Goto, CanRequestApproval,
       RequestApprovalAwaiting, CoordCanRequestApproval, CoordRequestApproval, RowInv,
       EngineInv, AttemptInv, LeaseInv, GrantInv, GateInv, PendingApprovalHoldsRun,
       Granted, InFlight, Aborting, Active, Asked, Offered, Terminal, Database,
       Coordinator, Engine, Environment, Registries, InRange
  <2>2. /\ Asked' /\ ~Granted' /\ ~Offered' /\ db'.run \notin Terminal /\ hist'.typed = 0
    BY <1>0, <1>i, <1>g, <1>1 DEF AskCoordinated, Goto, CanRequestApproval,
       RequestApprovalAwaiting, CoordCanRequestApproval, CoordRequestApproval, RowInv,
       EngineInv, AttemptInv, LeaseInv, GrantInv, GateInv, PendingApprovalHoldsRun,
       Granted, InFlight, Aborting, Active, Asked, Offered, Terminal, Attempt,
       NoAttempt, History, Database, Coordinator, Engine, Environment, Registries,
       InRange
  <2>3. DbCommand' \in Steps \X Phase
    BY <1>0, <1>i, <1>g, <1>1 DEF AskCoordinated, Goto, CanRequestApproval,
       RequestApprovalAwaiting, CoordCanRequestApproval, CoordRequestApproval,
       DbCommand, Attempt, NoAttempt, Database, Coordinator, Engine, Environment,
       Registries, InRange
  <2>4. Contract!Ask(DbCommand')
    BY <2>1, <2>2 DEF Contract!Ask, Contract!Idle, Asked, Granted, Offered
  <2> QED
    BY <2>3, <2>4 DEF Contract!Next
<1>2. ASSUME AskRefused PROVE Contract!Next
  <2>1. /\ ~Asked /\ ~Granted /\ ~Offered /\ db.run \notin Terminal
    BY <1>0, <1>i, <1>g, <1>2 DEF AskRefused, Goto, CanRequestApproval,
       RequestApprovalAwaiting, RowInv, EngineInv, AttemptInv, LeaseInv, GrantInv,
       GateInv, PendingApprovalHoldsRun, Granted, InFlight, Aborting, Active, Asked,
       Offered, Terminal, Database, Coordinator, Engine, Environment, Registries,
       InRange
  <2>2. /\ Asked' /\ ~Granted' /\ ~Offered' /\ db'.run \notin Terminal /\ hist'.typed = 0
    BY <1>0, <1>i, <1>g, <1>2 DEF AskRefused, Goto, CanRequestApproval,
       RequestApprovalAwaiting, RowInv, EngineInv, AttemptInv, LeaseInv, GrantInv,
       GateInv, PendingApprovalHoldsRun, Granted, InFlight, Aborting, Active, Asked,
       Offered, Terminal, Attempt, NoAttempt, History, Database, Coordinator, Engine,
       Environment, Registries, InRange
  <2>3. DbCommand' \in Steps \X Phase
    BY <1>0, <1>i, <1>g, <1>2 DEF AskRefused, Goto, CanRequestApproval,
       RequestApprovalAwaiting, DbCommand, Attempt, NoAttempt, Database, Coordinator,
       Engine, Environment, Registries, InRange
  <2>4. Contract!Ask(DbCommand')
    BY <2>1, <2>2 DEF Contract!Ask, Contract!Idle, Asked, Granted, Offered
  <2> QED
    BY <2>3, <2>4 DEF Contract!Next
<1>3. ASSUME Approved PROVE Contract!Next
  <2>1. /\ Asked /\ ~Granted /\ ~Offered /\ db.run \notin Terminal
    BY <1>0, <1>i, <1>g, <1>3 DEF Approved, Goto, CanResolveApproval,
       CanDecideApproval, CoordApprove, ApproveAndResume, RowInv, EngineInv, AttemptInv,
       LeaseInv, GrantInv, GateInv, PendingApprovalHoldsRun, Granted, InFlight,
       Aborting, Active, Asked, Offered, Terminal, Database, Coordinator, Engine,
       Environment, Registries, InRange
  <2>2. /\ ~Asked' /\ Granted' /\ ~Offered' /\ db'.run \notin Terminal
        /\ hist'.typed = hist.typed
    BY <1>0, <1>i, <1>g, <1>3 DEF Approved, Goto, CanResolveApproval,
       CanDecideApproval, CoordApprove, ApproveAndResume, RowInv, EngineInv, AttemptInv,
       LeaseInv, GrantInv, GateInv, PendingApprovalHoldsRun, Granted, InFlight,
       Aborting, Active, Asked, Offered, Terminal, Attempt, NoAttempt, Database,
       Coordinator, Engine, Environment, Registries, InRange
  <2>3. DbCommand' = DbCommand /\ DbCommand \in Steps \X Phase
    BY <1>0, <1>i, <1>g, <1>3 DEF Approved, Goto, CanResolveApproval,
       CanDecideApproval, CoordApprove, ApproveAndResume, DbCommand, Attempt, NoAttempt,
       GateInv, PendingApprovalHoldsRun, Database, Coordinator, Engine, Environment,
       Registries, InRange
  <2>4. Contract!Grant(DbCommand)
    BY <2>1, <2>2, <2>3 DEF Contract!Grant, Asked, Granted, Offered
  <2> QED
    BY <2>3, <2>4 DEF Contract!Next
<1>4. ASSUME StartCommand PROVE Contract!Next
  <2>1. /\ ~Asked /\ Granted /\ ~Offered /\ db.run \notin Terminal
    BY <1>0, <1>i, <1>g, <1>4 DEF StartCommand, CanStartAttempt, StartAttempt, RowInv,
       EngineInv, AttemptInv, LeaseInv, GrantInv, GateInv, PendingApprovalHoldsRun,
       Granted, InFlight, Aborting, Active, Asked, Offered, Terminal, Database,
       Coordinator, Engine, Environment, Registries, InRange
  <2>2. /\ ~Asked' /\ ~Granted' /\ Offered' /\ db'.run \notin Terminal
        /\ hist'.typed = hist.typed
    BY <1>0, <1>i, <1>g, <1>4, <2>1 DEF StartCommand, CanStartAttempt, StartAttempt,
       RowInv, EngineInv, AttemptInv, LeaseInv, GrantInv, GateInv,
       PendingApprovalHoldsRun, Granted, InFlight, Aborting, Active, Asked, Offered,
       Terminal, Attempt, NoAttempt, Database, Coordinator, Engine, Environment,
       Registries, InRange
  <2>3. DbCommand = EngineCommand' /\ DbCommand \in Steps \X Phase
    BY <1>0, <1>i, <1>g, <1>4 DEF StartCommand, CanStartAttempt, StartAttempt,
       DbCommand, EngineCommand, Attempt, NoAttempt, AttemptInv, AtShell, Database,
       Coordinator, Engine, Environment, Registries, InRange
  <2>4. Contract!Offer(DbCommand)
    BY <2>1, <2>2, <2>3 DEF Contract!Offer, Asked, Granted, Offered
  <2> QED
    BY <2>3, <2>4 DEF Contract!Next
<1>5. ASSUME Finalize PROVE Contract!Next
  <2>1. /\ ~Asked /\ ~Granted /\ ~Offered /\ db.run \notin Terminal
    BY <1>0, <1>i, <1>g, <1>5 DEF Finalize, Goto, CanFinalizeRun, FinalizeRun,
       CoordTransitionRun, RowInv, EngineInv, AttemptInv, LeaseInv, GrantInv, GateInv,
       PendingApprovalHoldsRun, Granted, InFlight, Aborting, Active, Asked, Offered,
       Terminal, RunMoves, Database, Coordinator, Engine, Environment, Registries,
       InRange
  <2>2. /\ ~Asked' /\ ~Granted' /\ ~Offered' /\ db'.run \in Terminal
        /\ hist'.typed = hist.typed
    BY <1>0, <1>i, <1>g, <1>5, <2>1 DEF Finalize, Goto, CanFinalizeRun, FinalizeRun,
       CoordTransitionRun, RowInv, EngineInv, AttemptInv, LeaseInv, GrantInv, GateInv,
       PendingApprovalHoldsRun, Granted, InFlight, Aborting, Active, Asked, Offered,
       Terminal, Attempt, NoAttempt, Database, Coordinator, Engine, Environment,
       Registries, InRange
  <2>3. Contract!Close
    BY <2>1, <2>2 DEF Contract!Close, Contract!Idle, Asked, Granted, Offered
  <2> QED
    BY <2>3 DEF Contract!Next
<1>6. ASSUME AbortFinalize PROVE Contract!Next
  <2>1. /\ ~Asked /\ ~Granted /\ ~Offered /\ db.run \notin Terminal
    BY <1>0, <1>i, <1>g, <1>6 DEF AbortFinalize, Goto, CanFinalizeRun, FinalizeRun,
       NoRun, RowInv, EngineInv, AttemptInv, LeaseInv, GrantInv, GateInv,
       PendingApprovalHoldsRun, Granted, InFlight, Aborting, Active, Asked, Offered,
       Terminal, RunMoves, Database, Coordinator, Engine, Environment, Registries,
       InRange
  <2>2. /\ ~Asked' /\ ~Granted' /\ ~Offered' /\ db'.run \in Terminal
        /\ hist'.typed = hist.typed
    BY <1>0, <1>i, <1>g, <1>6, <2>1 DEF AbortFinalize, Goto, CanFinalizeRun,
       FinalizeRun, NoRun, RowInv, EngineInv, AttemptInv, LeaseInv, GrantInv, GateInv,
       PendingApprovalHoldsRun, Granted, InFlight, Aborting, Active, Asked, Offered,
       Terminal, Attempt, NoAttempt, Database, Coordinator, Engine, Environment,
       Registries, InRange
  <2>3. Contract!Close
    BY <2>1, <2>2 DEF Contract!Close, Contract!Idle, Asked, Granted, Offered
  <2> QED
    BY <2>3 DEF Contract!Next
<1>7. ASSUME CancelEnds PROVE Contract!Next
  <2>1. /\ ~Asked /\ ~Granted /\ ~Offered /\ db.run \notin Terminal
    BY <1>0, <1>i, <1>g, <1>7 DEF CancelEnds, CancelPendingApprovals, FinalizeRun,
       NoIO, RowInv, EngineInv, AttemptInv, LeaseInv, GrantInv, GateInv,
       PendingApprovalHoldsRun, Granted, InFlight, Aborting, Active, Asked, Offered,
       Terminal, RunMoves, Database, Coordinator, Engine, Environment, Registries,
       InRange
  <2>2. /\ ~Asked' /\ ~Granted' /\ ~Offered' /\ db'.run \in Terminal
        /\ hist'.typed = hist.typed
    BY <1>0, <1>i, <1>g, <1>7, <2>1 DEF CancelEnds, CancelPendingApprovals,
       FinalizeRun, NoIO, RowInv, EngineInv, AttemptInv, LeaseInv, GrantInv, GateInv,
       PendingApprovalHoldsRun, Granted, InFlight, Aborting, Active, Asked, Offered,
       Terminal, Attempt, NoAttempt, Database, Coordinator, Engine, Environment,
       Registries, InRange
  <2>3. Contract!Close
    BY <2>1, <2>2 DEF Contract!Close, Contract!Idle, Asked, Granted, Offered
  <2> QED
    BY <2>3 DEF Contract!Next
<1>8. ASSUME Claim PROVE Contract!Next
  <2>1. /\ ~Asked /\ ~Granted /\ Offered /\ UNCHANGED <<db, eng>>
    BY <1>0, <1>i, <1>g, <1>8 DEF Claim, RowInv, EngineInv, AttemptInv, LeaseInv,
       GrantInv, GateInv, PendingApprovalHoldsRun, Granted, InFlight, Aborting, Active,
       Asked, Offered, Database, Coordinator, Engine, Environment, Registries, InRange
  <2>2. ~Offered' /\ hist'.typed = hist.typed + 1
    BY <1>0, <1>i, <1>g, <1>8 DEF Claim, Offered, Typed, Mutated, History, Database,
       Coordinator, Engine, Environment, Registries, InRange
  <2>3. EngineCommand \in Steps \X Phase
    BY <1>0, <1>i, <1>g, <1>8, <2>1 DEF EngineCommand, LeaseInv, Offered, InFlight,
       Aborting, Database, Coordinator, Engine, Environment, Registries, InRange
  <2>4. Contract!Take(EngineCommand)
    BY <2>1, <2>2 DEF Contract!Take, Asked, Granted, Offered
  <2> QED
    BY <2>3, <2>4 DEF Contract!Next
<1> USE DEF Quiet, Nothing, Asked, Granted, Offered, RowInv, EngineInv, AttemptInv,
        LeaseInv, GrantInv, GateInv, PendingApprovalHoldsRun, Active, Terminal,
        InFlight, Aborting, AtShell, AtManual, Attempt, NoAttempt, Database,
        Coordinator, Engine, Environment, Registries, InRange
<1>9. ASSUME RegisterNew PROVE Quiet
  BY <1>0, <1>i, <1>g, <1>9 DEF RegisterNew, Goto, CanTransitionRun, TransitionRun,
     RegisterRun, NoRun
<1>10. ASSUME RegisterResumed PROVE Quiet
  BY <1>0, <1>i, <1>g, <1>10 DEF RegisterResumed, Restored, RegisterRestoredRun, NoRun
<1>11. ASSUME Launch PROVE Quiet
  BY <1>0, <1>i, <1>g, <1>11 DEF Launch, Goto, CanTransitionRun, TransitionRun,
     CoordTransitionRun
<1>12. ASSUME ProbeCancelled PROVE Quiet
  BY <1>0, <1>i, <1>g, <1>12 DEF ProbeCancelled, Goto
<1>13. ASSUME ProbeLost PROVE Quiet
  BY <1>0, <1>i, <1>g, <1>13 DEF ProbeLost, Goto, CoordTargetDrift
<1>14. ASSUME ProbeAsks PROVE Quiet
  BY <1>0, <1>i, <1>g, <1>14 DEF ProbeAsks, CreateAttemptIntent
<1>15. ASSUME ChecklistDone PROVE Quiet
  BY <1>0, <1>i, <1>g, <1>15 DEF ChecklistDone, StatusFromChecklist
<1>16. ASSUME NextCancelled PROVE Quiet
  BY <1>0, <1>i, <1>g, <1>16 DEF NextCancelled, Goto
<1>17. ASSUME NextPassed PROVE Quiet
  BY <1>0, <1>i, <1>g, <1>17 DEF NextPassed
<1>18. ASSUME NextBegins PROVE Quiet
  BY <1>0, <1>i, <1>g, <1>18 DEF NextBegins
<1>19. ASSUME NextUncertain PROVE Quiet
  BY <1>0, <1>i, <1>g, <1>19 DEF NextUncertain, CoordRequireOperator
<1>20. ASSUME BeginAgain PROVE Quiet
  BY <1>0, <1>i, <1>g, <1>20 DEF BeginAgain, CanBeginPhase, CoordBeginPhase,
     SetRunCursor
<1>21. ASSUME BeginMoves PROVE Quiet
  BY <1>0, <1>i, <1>g, <1>21 DEF BeginMoves, CanBeginPhase, CoordBeginPhase,
     TransitionStep
<1>22. ASSUME DispatchCancelled PROVE Quiet
  BY <1>0, <1>i, <1>g, <1>22 DEF DispatchCancelled, Goto
<1>23. ASSUME DispatchAgent PROVE Quiet
  BY <1>0, <1>i, <1>g, <1>23 DEF DispatchAgent
<1>24. ASSUME DispatchShell PROVE Quiet
  BY <1>0, <1>i, <1>g, <1>24 DEF DispatchShell, CreateAttemptIntent
<1>25. ASSUME DispatchManual PROVE Quiet
  BY <1>0, <1>i, <1>g, <1>25 DEF DispatchManual, CreateAttemptIntent
<1>26. ASSUME DriftFrom("dispatch") PROVE Quiet
  BY <1>0, <1>i, <1>g, <1>26 DEF DriftFrom, CoordTargetDrift, CanTransitionStep,
     TransitionStep
<1>27. ASSUME DriftFrom("approved") PROVE Quiet
  BY <1>0, <1>i, <1>g, <1>27 DEF DriftFrom, CoordTargetDrift, CanTransitionStep,
     TransitionStep
<1>28. ASSUME DriftFrom("manualTarget") PROVE Quiet
  BY <1>0, <1>i, <1>g, <1>28 DEF DriftFrom, CoordTargetDrift, CanTransitionStep,
     TransitionStep
<1>29. ASSUME DriftRun PROVE Quiet
  BY <1>0, <1>i, <1>g, <1>29 DEF DriftRun, Goto, CanTransitionRun, TransitionRun
<1>30. ASSUME DriftAttempt PROVE Quiet
  BY <1>0, <1>i, <1>g, <1>30 DEF DriftAttempt, CanFinishAttempt, FinishAttempt
<1>31. ASSUME ApprovalCancelled PROVE Quiet
  BY <1>0, <1>i, <1>g, <1>31 DEF ApprovalCancelled, CancelPendingApprovals
<1>32. ASSUME Declined PROVE Quiet
  BY <1>0, <1>i, <1>g, <1>32 DEF Declined, CanResolveApproval, CanDecideApproval,
     CoordDecline, DeclineApproval
<1>33. ASSUME DeclineStep PROVE Quiet
  BY <1>0, <1>i, <1>g, <1>33 DEF DeclineStep, CanTransitionStep, TransitionStep
<1>34. ASSUME DeclineRun PROVE Quiet
  BY <1>0, <1>i, <1>g, <1>34 DEF DeclineRun, Goto, CanTransitionRun, TransitionRun
<1>35. ASSUME RecheckCancelled PROVE Quiet
  BY <1>0, <1>i, <1>g, <1>35 DEF RecheckCancelled, CanFinishAttempt, FinishAttempt
<1>36. ASSUME RecheckPassed PROVE Quiet
  BY <1>0, <1>i, <1>g, <1>36 DEF RecheckPassed, Goto
<1>37. ASSUME CommandCancelled PROVE Quiet
  BY <1>0, <1>i, <1>g, <1>37 DEF CommandCancelled, CanFinishAttempt, FinishAttempt
<1>38. ASSUME CommandObserved PROVE Quiet
  BY <1>0, <1>i, <1>g, <1>38 DEF CommandObserved, CanFinishAttempt, FinishAttempt,
     AttemptAfter
<1>39. ASSUME StartManual PROVE Quiet
  BY <1>0, <1>i, <1>g, <1>39 DEF StartManual, Goto, CanStartAttempt, StartAttempt,
     CanRequireOperator, CoordRequireOperator
<1>40. ASSUME OpenApply PROVE Quiet
  BY <1>0, <1>i, <1>g, <1>40 DEF OpenApply, Goto, CanTransitionRun, TransitionRun,
     Mutated, History, Observe
<1>41. ASSUME OpenOther PROVE Quiet
  BY <1>0, <1>i, <1>g, <1>41 DEF OpenOther, Goto, CanTransitionRun, TransitionRun,
     History, Observe, Mutated
<1>42. ASSUME ManualCancelled PROVE Quiet
  BY <1>0, <1>i, <1>g, <1>42 DEF ManualCancelled, CanFinishAttempt, FinishAttempt
<1>43. ASSUME ManualAnswered PROVE Quiet
  BY <1>0, <1>i, <1>g, <1>43 DEF ManualAnswered, CanTransitionRun, TransitionRun,
     CoordOperatorAnswered
<1>44. ASSUME ManualObserved PROVE Quiet
  BY <1>0, <1>i, <1>g, <1>44 DEF ManualObserved, CanFinishAttempt, FinishAttempt,
     AttemptAfter
<1>45. ASSUME PhaseApplied PROVE Quiet
  BY <1>0, <1>i, <1>g, <1>45 DEF PhaseApplied, PhaseEnds, CanCompletePhase,
     CoordCompletePhase, CanTransitionStep, TransitionStep
<1>46. ASSUME PhaseNeedsApply PROVE Quiet
  BY <1>0, <1>i, <1>g, <1>46 DEF PhaseNeedsApply, PhaseEnds, CanCompletePhase,
     CoordCompletePhase, CanTransitionStep, TransitionStep
<1>47. ASSUME PhaseAssessed PROVE Quiet
  BY <1>0, <1>i, <1>g, <1>47 DEF PhaseAssessed, PhaseEnds, CanCompletePhase,
     CoordCompletePhase, CanTransitionStep, TransitionStep
<1>48. ASSUME PhaseSettles("compliant") PROVE Quiet
  BY <1>0, <1>i, <1>g, <1>48 DEF PhaseSettles, PhaseEnds, CanCompletePhase,
     CoordCompletePhase, CanTransitionStep, TransitionStep
<1>49. ASSUME PhaseSettles("verified") PROVE Quiet
  BY <1>0, <1>i, <1>g, <1>49 DEF PhaseSettles, PhaseEnds, CanCompletePhase,
     CoordCompletePhase, CanTransitionStep, TransitionStep
<1>50. ASSUME PhaseSettles("failed") PROVE Quiet
  BY <1>0, <1>i, <1>g, <1>50 DEF PhaseSettles, PhaseEnds, CanCompletePhase,
     CoordCompletePhase, CanTransitionStep, TransitionStep
<1>51. ASSUME PhaseSettles("unknown") PROVE Quiet
  BY <1>0, <1>i, <1>g, <1>51 DEF PhaseSettles, PhaseEnds, CanCompletePhase,
     CoordCompletePhase, CanTransitionStep, TransitionStep
<1>52. ASSUME SettleVerifies PROVE Quiet
  BY <1>0, <1>i, <1>g, <1>52 DEF SettleVerifies, SetRunCursor
<1>53. ASSUME SettleChecksOff PROVE Quiet
  BY <1>0, <1>i, <1>g, <1>53 DEF SettleChecksOff, SetRunCursor, Goto
<1>54. ASSUME SettlePauses("policy") PROVE Quiet
  BY <1>0, <1>i, <1>g, <1>54 DEF SettlePauses, Goto, CanTransitionRun, TransitionRun
<1>55. ASSUME SettlePauses("decide") PROVE Quiet
  BY <1>0, <1>i, <1>g, <1>55 DEF SettlePauses, Goto, CanTransitionRun, TransitionRun
<1>56. ASSUME Assess PROVE Quiet
  BY <1>0, <1>i, <1>g, <1>56 DEF Assess, Goto, CoordContinueAssessment, SetRunCursor
<1>57. ASSUME Settles("policy", "failed") PROVE Quiet
  BY <1>0, <1>i, <1>g, <1>57 DEF Settles, SettleAs, CoordSettleStep, CanResolveStep,
     CanSettleStep, SettleStep, History, Observe, Mutated
<1>58. ASSUME Stops("policy") PROVE Quiet
  BY <1>0, <1>i, <1>g, <1>58 DEF Stops, SettleStopped, CoordStop, CanResolveStep,
     CanSettleStep, SettleStep, History, Observe, Mutated
<1>59. ASSUME AwaitDecision PROVE Quiet
  BY <1>0, <1>i, <1>g, <1>59 DEF AwaitDecision, Goto
<1>60. ASSUME Retries PROVE Quiet
  BY <1>0, <1>i, <1>g, <1>60 DEF Retries, CoordSettleStep, ResetStepForRetry,
     CanResolveStep, CanSettleStep, SettleStep
<1>61. ASSUME Settles("deciding", "skipped") PROVE Quiet
  BY <1>0, <1>i, <1>g, <1>61 DEF Settles, SettleAs, CoordSettleStep, CanResolveStep,
     CanSettleStep, SettleStep, History, Observe, Mutated
<1>62. ASSUME Settles("deciding", "waived") PROVE Quiet
  BY <1>0, <1>i, <1>g, <1>62 DEF Settles, SettleAs, CoordSettleStep, CanResolveStep,
     CanSettleStep, SettleStep, History, Observe, Mutated
<1>63. ASSUME Stops("deciding") PROVE Quiet
  BY <1>0, <1>i, <1>g, <1>63 DEF Stops, SettleStopped, CoordStop, CanResolveStep,
     CanSettleStep, SettleStep, History, Observe, Mutated
<1>64. ASSUME DecisionCancelled PROVE Quiet
  BY <1>0, <1>i, <1>g, <1>64 DEF DecisionCancelled, Goto
<1>65. ASSUME SummaryNext PROVE Quiet
  BY <1>0, <1>i, <1>g, <1>65 DEF SummaryNext, UpdateStepDetails
<1>66. ASSUME SummaryEnds PROVE Quiet
  BY <1>0, <1>i, <1>g, <1>66 DEF SummaryEnds, UpdateStepDetails
<1>67. ASSUME FinishCancelled PROVE Quiet
  BY <1>0, <1>i, <1>g, <1>67 DEF FinishCancelled, CancelPendingApprovals
<1>68. ASSUME MarkNothing PROVE Quiet
  BY <1>0, <1>i, <1>g, <1>68 DEF MarkNothing, Goto
<1>69. ASSUME NEW s \in Steps, MarkOne(s) PROVE Quiet
  BY <1>0, <1>i, <1>g, <1>69 DEF MarkOne, TransitionStep
<1>70. ASSUME WrapUp PROVE Quiet
  BY <1>0, <1>i, <1>g, <1>70 DEF WrapUp, Goto
<1>71. ASSUME EngineError PROVE Quiet
  BY <1>0, <1>i, <1>g, <1>71 DEF EngineError, Goto, Refused
<1>72. ASSUME Abort PROVE Quiet
  BY <1>0, <1>i, <1>g, <1>72 DEF Abort, Goto, CancelPendingApprovals
<1>73. ASSUME AbortedSteps PROVE Quiet
  BY <1>0, <1>i, <1>g, <1>73 DEF AbortedSteps, Goto
<1>74. ASSUME NEW s \in Steps, AbortOne(s) PROVE Quiet
  BY <1>0, <1>i, <1>g, <1>74 DEF AbortOne, TransitionStep
<1>75. ASSUME Exit PROVE Quiet
  BY <1>0, <1>i, <1>g, <1>75 DEF Exit, NoEngine, Spawned, NoIO
<1>76. ASSUME RespondApproval PROVE Quiet
  BY <1>0, <1>i, <1>g, <1>76 DEF RespondApproval
<1>77. ASSUME Decide PROVE Quiet
  BY <1>0, <1>i, <1>g, <1>77 DEF Decide
<1>78. ASSUME SubmitManual PROVE Quiet
  BY <1>0, <1>i, <1>g, <1>78 DEF SubmitManual, History, Observe, Mutated
<1>79. ASSUME CancelRead PROVE Quiet
  BY <1>0, <1>i, <1>g, <1>79 DEF CancelRead
<1>80. ASSUME CancelSignal PROVE Quiet
  BY <1>0, <1>i, <1>g, <1>80 DEF CancelSignal
<1>81. ASSUME CancelSettles PROVE Quiet
  BY <1>0, <1>i, <1>g, <1>81 DEF CancelSettles, CancelPendingApprovals
<1>82. ASSUME Resume PROVE Quiet
  BY <1>0, <1>i, <1>g, <1>82 DEF Resume, CanRebind, RebindInterruptedRun, Spawned
<1>83. ASSUME SubmitResult PROVE Quiet
  BY <1>0, <1>i, <1>g, <1>83 DEF SubmitResult, History, Observe, PhaseResult, Phase,
     Verdict
<1>84. ASSUME LeaseExpires PROVE Quiet
  BY <1>0, <1>i, <1>g, <1>84 DEF LeaseExpires
<1>85. ASSUME CloseTerminal PROVE Quiet
  BY <1>0, <1>i, <1>g, <1>85 DEF CloseTerminal
<1>86. ASSUME Crash PROVE Quiet
  BY <1>0, <1>i, <1>g, <1>86 DEF Crash, NoRun, NoEngine, Spawned, NoIO, History
<1>87. ASSUME RestartInterrupts PROVE Quiet
  BY <1>0, <1>i, <1>g, <1>87 DEF RestartInterrupts, InterruptActiveRuns
<1>88. ASSUME RestartAgain PROVE Quiet
  BY <1>0, <1>i, <1>g, <1>88 DEF RestartAgain
<1>r. ASSUME AbortRefused PROVE Quiet
  BY <1>0, <1>i, <1>g, <1>r DEF AbortRefused, Goto
<1>s. ASSUME UNCHANGED vars PROVE Quiet
  BY <1>i, <1>s DEF vars
<1> HIDE DEF Quiet, Nothing, Asked, Granted, Offered, RowInv, EngineInv, AttemptInv,
        LeaseInv, GrantInv, GateInv, PendingApprovalHoldsRun, Active, Terminal,
        InFlight, Aborting, AtShell, AtManual, Attempt, NoAttempt, Database,
        Coordinator, Engine, Environment, Registries, InRange
<1> QED
  BY <1>r, <1>s, QuietMaps, <1>1, <1>2, <1>3, <1>4, <1>5, <1>6, <1>7, <1>8, <1>9, <1>10,
     <1>11, <1>12, <1>13, <1>14, <1>15, <1>16, <1>17, <1>18, <1>19, <1>20, <1>21, <1>22,
     <1>23, <1>24, <1>25, <1>26, <1>27, <1>28, <1>29, <1>30, <1>31, <1>32, <1>33, <1>34,
     <1>35, <1>36, <1>37, <1>38, <1>39, <1>40, <1>41, <1>42, <1>43, <1>44, <1>45, <1>46,
     <1>47, <1>48, <1>49, <1>50, <1>51, <1>52, <1>53, <1>54, <1>55, <1>56, <1>57, <1>58,
     <1>59, <1>60, <1>61, <1>62, <1>63, <1>64, <1>65, <1>66, <1>67, <1>68, <1>69, <1>70,
     <1>71, <1>72, <1>73, <1>74, <1>75, <1>76, <1>77, <1>78, <1>79, <1>80, <1>81, <1>82,
     <1>83, <1>84, <1>85, <1>86, <1>87, <1>88 DEF OneStep

\* A run begins with nothing asked.
LEMMA ContractInit == Init => Contract!Init
BY DEF Init, CreatedRun, NoIO, Terminal, Contract!Init, Contract!Idle

(* Every behaviour of the engine, its rows and its lease registry is one the
   dispatch contract allows: one approval, one lease, one hand-over, of the
   command that was approved, and nothing of it left in a finished run. *)
THEOREM ContractHonoured == Spec => HonoursContract
<1>1. TypeInv /\ RunInv /\ GateInv /\ [Next]_vars =>
        GateInv' /\ [Contract!Next]_(Contract!vars)
  BY GateStep, EveryStep, ContractStep
<1> QED
  BY RunInvariant, GateInit, ContractInit, <1>1, PTL
     DEF Spec, HonoursContract, Contract!Spec
=============================================================================
