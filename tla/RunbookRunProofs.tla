-------------------------- MODULE RunbookRunProofs --------------------------
(***************************************************************************)
(* What is proved of a run for every checklist, every set of definitions   *)
(* and every bound.  TypeOK is not inductive by itself: an action that     *)
(* moves the row of step eng.i needs that eng.i is a step, which InRange   *)
(* says for every position of the engine but those past the last step and  *)
(* those of an abort, which the end of a run may lead to.                  *)
(***************************************************************************)
EXTENDS RunbookProperties, RunbookTypes

InRange ==
    \/ eng.i \in Steps
    \/ eng.pc \in {"next", "wrapUp", "finalize", "abort", "abortSteps", "abortFinalize",
                   "exit"}

TypeInv == TypeOK /\ InRange

\* A move of a step by the table leads to a step status.
LEMMA StepMovesType == \A s \in StepStatus : StepMoves[s] \subseteq StepStatus
BY DEF StepMoves, StepStatus, Checked, InPhase

\* The engine a run is spawned with, and the one that is gone, are engines.
LEMMA NoEngineType == (\A m \in {"new", "resume"} : Spawned(m) \in Engine) /\ NoEngine \in Engine
<1>1. 1 \in 1 .. NumSteps + 1 /\ "check" \in Phase
  BY NumStepsAssumption DEF Phase
<1>2. [s \in Steps |-> "pending"] \in [Steps -> StepStatus]
  BY DEF StepStatus
<1>3. ASSUME NEW m \in {"new", "resume"} PROVE Spawned(m) \in Engine
  BY <1>1, <1>2 DEF Spawned, Engine, PC
<1> QED
  BY <1>3 DEF NoEngine, Engine, PC

\* The registries of a run nobody waits for are registries.
LEMMA NoIOType == NoIO \in Registries
BY DEF NoIO, Registries

\* An attempt that runs has a phase.
LEMMA AttemptPhaseType ==
    ASSUME NEW d \in Database, d.attempt.status = "running"
    PROVE  d.attempt.phase \in Phase
BY DEF Database, Attempt, NoAttempt

\* The engine moves from position to position.
LEMMA GotoType == ASSUME eng \in Engine, NEW p \in PC, Goto(p) PROVE eng' \in Engine
BY DEF Goto, Engine

\* So it does with the checklist and the phase of a completed one.
LEMMA EngineMoveType ==
    ASSUME eng \in Engine, NEW s \in Steps, NEW st \in StepStatus, NEW c \in BOOLEAN,
           NEW p \in PC, NEW ph \in Phase,
           eng' = [eng EXCEPT !.list[s] = st, !.chg[s] = c, !.pc = p, !.phase = ph]
    PROVE  eng' \in Engine
BY DEF Engine

\* Settling a step, or stopping the run at it, changes nothing of its types.
LEMMA SettleTypes ==
    ASSUME db \in Database, coord \in Coordinator, eng \in Engine, hist \in History,
           NEW s \in Steps,
           (\E st \in StepStatus : SettleAs(s, st)) \/ SettleStopped(s)
    PROVE  db' \in Database /\ coord' \in Coordinator /\ eng' \in Engine /\ hist' \in History
<1>0. "failed" \in StepStatus /\ "summary" \in PC /\ "failed" \in Terminal
  BY DEF StepStatus, PC, Terminal
<1>1. ASSUME NEW st \in StepStatus, SettleAs(s, st)
      PROVE  db' \in Database /\ coord' \in Coordinator /\ eng' \in Engine /\ hist' \in History
  <2>1. SettleStep(db, s, st) \in Database /\ CoordSettleStep(coord, s, st) \in Coordinator
    BY CoordStepType, StepRowType
  <2>2. [eng EXCEPT !.pc = "summary", !.list[s] = st] \in Engine
    BY <1>0 DEF Engine
  <2> QED
    BY <1>1, <2>1, <2>2 DEF SettleAs
<1>2. ASSUME SettleStopped(s)
      PROVE  db' \in Database /\ coord' \in Coordinator /\ eng' \in Engine /\ hist' \in History
  <2>1. SettleStep(db, s, "failed") \in Database /\ CoordStop(coord, s) \in Coordinator
    BY <1>0, CoordStepType, StepRowType
  <2>2. [eng EXCEPT !.pc = "summary", !.ending = "failed", !.list[s] = "failed"] \in Engine
    BY <1>0 DEF Engine
  <2>3. [hist EXCEPT !.stopped = TRUE] \in History
    BY DEF History
  <2> QED
    BY <1>2, <2>1, <2>2, <2>3 DEF SettleStopped
<1> QED
  BY <1>1, <1>2

\* A run starts well typed.
LEMMA TypeInit == Init => TypeInv
<1> SUFFICES ASSUME Init PROVE TypeInv
  OBVIOUS
<1>1. db \in Database /\ coord \in Coordinator /\ eng \in Engine /\ io \in Registries
  BY CreatedRunType, NoRunType, NoEngineType, NoIOType DEF Init
<1>2. env \in Environment
  BY DefinitionsAssumption DEF Init, Environment
<1>3. hist \in History
  BY DEF Init, History, Verdict
<1>4. InRange
  BY NumStepsAssumption DEF Init, InRange, Spawned, Steps
<1> QED
  BY <1>1, <1>2, <1>3, <1>4 DEF Init, TypeInv, TypeOK

\* Every step of the system keeps its state well typed.
LEMMA TypeStep == TypeInv /\ [Next]_vars => TypeInv'
<1> SUFFICES ASSUME TypeInv, [Next]_vars PROVE TypeInv'
  OBVIOUS
<1>0. /\ def \in Definitions /\ db \in Database /\ coord \in Coordinator /\ eng \in Engine
      /\ io \in Registries /\ env \in Environment /\ hist \in History
  BY DEF TypeInv, TypeOK
<1>r. InRange
  BY DEF TypeInv
<1>1. ASSUME Register PROVE TypeInv'
  <2>1. db' \in Database
    BY <1>0, <1>r, <1>1, RunRowType DEF Register, Restored, InRange, RunStatus
  <2>2. coord' \in Coordinator
    BY <1>0, <1>r, <1>1, RegisteredType DEF Register, Restored, InRange, Database
  <2>3. eng' \in Engine
    <3>1. ASSUME Goto("launch") PROVE eng' \in Engine
      BY <1>0, <1>r, <1>1, <3>1, GotoType DEF PC
    <3>2. ASSUME eng' = [eng EXCEPT !.pc = "launch", !.list = db.step, !.chg = db.changed] PROVE eng' \in Engine
      BY <1>0, <1>r, <1>1, <3>2 DEF Engine, PC, Database
    <3> QED
      BY <1>0, <1>1, <3>1, <3>2 DEF Register, Restored
  <2>4. io' \in Registries
    BY <1>0, <1>r, <1>1 DEF Register, Restored, Registries
  <2>5. InRange'
    BY <1>0, <1>r, <1>1 DEF Register, Restored, InRange, Engine, Goto
  <2>6. UNCHANGED <<def, env, hist>>
    BY <1>1 DEF Register, Restored
  <2> QED
    BY <1>0, <1>r, <2>1, <2>2, <2>3, <2>4, <2>5, <2>6 DEF TypeInv, TypeOK
<1>2. ASSUME Launch PROVE TypeInv'
  <2>1. db' \in Database
    BY <1>0, <1>r, <1>2, RunRowType DEF Launch, InRange, RunStatus
  <2>2. coord' \in Coordinator
    BY <1>0, <1>r, <1>2, CoordRunType DEF Launch, InRange, RunStatus
  <2>3. eng' \in Engine
    BY <1>0, <1>r, <1>2 DEF Launch, InRange, Goto, Engine, PC
  <2>4. InRange'
    BY <1>0, <1>r, <1>2 DEF Launch, InRange, Engine, Goto
  <2>5. UNCHANGED <<def, io, env, hist>>
    BY <1>2 DEF Launch
  <2> QED
    BY <1>0, <1>r, <2>1, <2>2, <2>3, <2>4, <2>5 DEF TypeInv, TypeOK
<1>3. ASSUME Probe PROVE TypeInv'
  <2>0. 1 \in Steps /\ "check" \in Phase /\ "shell" \in Executor
    BY NumStepsAssumption DEF Steps, Phase, Executor
  <2>1. db' \in Database
    <3>1. ASSUME db' = db PROVE db' \in Database
      BY <1>0, <1>r, <1>3, <3>1
    <3>2. ASSUME db' = CreateAttemptIntent(db, 1, "check", "shell") PROVE db' \in Database
      BY <1>0, <1>r, <1>3, <3>2, AttemptRowType, <2>0
    <3> QED
      BY <1>0, <1>3, <3>1, <3>2 DEF Probe
  <2>2. coord' \in Coordinator
    BY <1>0, <1>r, <1>3, CoordRunType DEF Probe, InRange
  <2>3. eng' \in Engine
    <3>1. ASSUME Goto("finishCancel") PROVE eng' \in Engine
      BY <1>0, <1>r, <1>3, <3>1, GotoType DEF PC
    <3>2. ASSUME Goto("abort") PROVE eng' \in Engine
      BY <1>0, <1>r, <1>3, <3>2, GotoType DEF PC
    <3>3. ASSUME eng' = [eng EXCEPT !.pc = "request", !.open = TRUE] PROVE eng' \in Engine
      BY <1>0, <1>r, <1>3, <3>3 DEF Engine, PC
    <3> QED
      BY <1>0, <1>3, <3>1, <3>2, <3>3 DEF Probe
  <2>4. InRange'
    BY <1>0, <1>r, <1>3 DEF Probe, InRange, Engine, Goto
  <2>5. UNCHANGED <<def, io, env, hist>>
    BY <1>3 DEF Probe
  <2> QED
    BY <1>0, <1>r, <2>1, <2>2, <2>3, <2>4, <2>5 DEF TypeInv, TypeOK
<1>4. ASSUME ChecklistDone PROVE TypeInv'
  <2>1. eng' \in Engine
    BY <1>0, <1>r, <1>4 DEF ChecklistDone, InRange, Engine, PC, StatusFromChecklist,
       Terminal
  <2>2. InRange'
    BY <1>0, <1>r, <1>4 DEF ChecklistDone, InRange, Engine
  <2>3. UNCHANGED <<def, db, coord, io, env, hist>>
    BY <1>4 DEF ChecklistDone
  <2> QED
    BY <1>0, <1>r, <2>1, <2>2, <2>3 DEF TypeInv, TypeOK
<1>5. ASSUME NextStep PROVE TypeInv'
  <2>0. eng.i \in Steps => eng.i + 1 \in 1 .. NumSteps + 1
    BY NumStepsAssumption DEF Steps
  <2>1. coord' \in Coordinator
    BY <1>0, <1>r, <1>5, CoordRunType DEF NextStep, InRange
  <2>2. eng' \in Engine
    <3>1. ASSUME Goto("finishCancel") PROVE eng' \in Engine
      BY <1>0, <1>r, <1>5, <3>1, GotoType DEF PC
    <3>2. ASSUME eng.i \in Steps /\ eng' = [eng EXCEPT !.i = @ + 1] PROVE eng' \in Engine
      BY <1>0, <1>r, <1>5, <3>2, <2>0 DEF Engine
    <3>3. ASSUME eng' = [eng EXCEPT !.pc = "begin", !.phase = "check"] PROVE eng' \in Engine
      BY <1>0, <1>r, <1>5, <3>3 DEF Engine, PC, Phase
    <3>4. ASSUME eng' = [eng EXCEPT !.pc = "decide", !.tail = TRUE] PROVE eng' \in Engine
      BY <1>0, <1>r, <1>5, <3>4 DEF Engine, PC
    <3> QED
      BY <1>0, <1>5, <3>1, <3>2, <3>3, <3>4 DEF NextStep
  <2>3. InRange'
    BY <1>0, <1>r, <1>5 DEF NextStep, InRange, Engine, Goto
  <2>4. UNCHANGED <<def, db, io, env, hist>>
    BY <1>5 DEF NextStep
  <2> QED
    BY <1>0, <1>r, <2>1, <2>2, <2>3, <2>4 DEF TypeInv, TypeOK
<1>6. ASSUME BeginPhase PROVE TypeInv'
  <2>0. eng.i \in Steps
    BY <1>r, <1>6 DEF InRange, BeginPhase
  <2>1. db' \in Database
    <3>1. ASSUME db' = SetRunCursor(db, eng.i, eng.phase) PROVE db' \in Database
      BY <1>0, <1>r, <1>6, <3>1, RunRowType, <2>0 DEF Engine
    <3>2. ASSUME db' = TransitionStep(db, eng.i, StatusOfPhase(eng.phase), eng.chg[eng.i]) PROVE db' \in Database
      BY <1>0, <1>r, <1>6, <3>2, StepRowType, StatusOfPhaseType, <2>0 DEF Engine
    <3> QED
      BY <1>0, <1>6, <3>1, <3>2 DEF BeginPhase
  <2>2. coord' \in Coordinator
    BY <1>0, <1>r, <1>6, CoordStepType DEF BeginPhase, InRange, Engine
  <2>3. eng' \in Engine
    BY <1>0, <1>r, <1>6, StatusOfPhaseType DEF BeginPhase, InRange, Engine, PC
  <2>4. InRange'
    BY <1>0, <1>r, <1>6 DEF BeginPhase, InRange, Engine
  <2>5. UNCHANGED <<def, io, env, hist>>
    BY <1>6 DEF BeginPhase
  <2> QED
    BY <1>0, <1>r, <2>1, <2>2, <2>3, <2>4, <2>5 DEF TypeInv, TypeOK
<1>7. ASSUME Dispatch PROVE TypeInv'
  <2>1. db' \in Database
    BY <1>0, <1>r, <1>7, AttemptRowType DEF Dispatch, InRange, Engine, Executor
  <2>2. eng' \in Engine
    <3>1. ASSUME Goto("finishCancel") PROVE eng' \in Engine
      BY <1>0, <1>r, <1>7, <3>1, GotoType DEF PC
    <3>2. ASSUME eng' = [eng EXCEPT !.pc = "settle", !.result = "failed"] PROVE eng' \in Engine
      BY <1>0, <1>r, <1>7, <3>2, ResultTypes DEF Engine, PC
    <3>3. ASSUME eng' = [eng EXCEPT !.open = TRUE, !.pc = IF Kinds(eng.i)[eng.phase] = "shell" THEN "request" ELSE "manualStart"] PROVE eng' \in Engine
      BY <1>0, <1>r, <1>7, <3>3 DEF Engine, PC
    <3> QED
      BY <1>0, <1>7, <3>1, <3>2, <3>3 DEF Dispatch
  <2>3. InRange'
    BY <1>0, <1>r, <1>7 DEF Dispatch, InRange, Engine, Goto
  <2>4. UNCHANGED <<def, coord, io, env, hist>>
    BY <1>7 DEF Dispatch
  <2> QED
    BY <1>0, <1>r, <2>1, <2>2, <2>3, <2>4 DEF TypeInv, TypeOK
<1>8. ASSUME TargetDrift PROVE TypeInv'
  <2>1. db' \in Database
    BY <1>0, <1>r, <1>8, StepRowType DEF TargetDrift, InRange, Engine, StepStatus
  <2>2. coord' \in Coordinator
    BY <1>0, <1>r, <1>8, CoordRunType DEF TargetDrift, InRange
  <2>3. eng' \in Engine
    BY <1>0, <1>r, <1>8 DEF TargetDrift, InRange, Engine, PC, StepStatus
  <2>4. InRange'
    BY <1>0, <1>r, <1>8 DEF TargetDrift, InRange, Engine
  <2>5. UNCHANGED <<def, io, env, hist>>
    BY <1>8 DEF TargetDrift
  <2> QED
    BY <1>0, <1>r, <2>1, <2>2, <2>3, <2>4, <2>5 DEF TypeInv, TypeOK
<1>9. ASSUME DriftRun PROVE TypeInv'
  <2>1. db' \in Database
    BY <1>0, <1>r, <1>9, RunRowType DEF DriftRun, InRange, RunStatus
  <2>2. eng' \in Engine
    BY <1>0, <1>r, <1>9 DEF DriftRun, InRange, Goto, Engine, PC
  <2>3. InRange'
    BY <1>0, <1>r, <1>9 DEF DriftRun, InRange, Engine, Goto
  <2>4. UNCHANGED <<def, coord, io, env, hist>>
    BY <1>9 DEF DriftRun
  <2> QED
    BY <1>0, <1>r, <2>1, <2>2, <2>3, <2>4 DEF TypeInv, TypeOK
<1>10. ASSUME DriftAttempt PROVE TypeInv'
  <2>1. db' \in Database
    BY <1>0, <1>r, <1>10, AttemptRowType DEF DriftAttempt, InRange, AttemptStatus
  <2>2. eng' \in Engine
    BY <1>0, <1>r, <1>10 DEF DriftAttempt, InRange, Engine, PC
  <2>3. InRange'
    BY <1>0, <1>r, <1>10 DEF DriftAttempt, InRange, Engine
  <2>4. UNCHANGED <<def, coord, io, env, hist>>
    BY <1>10 DEF DriftAttempt
  <2> QED
    BY <1>0, <1>r, <2>1, <2>2, <2>3, <2>4 DEF TypeInv, TypeOK
<1>11. ASSUME RequestApproval PROVE TypeInv'
  <2>1. db' \in Database
    BY <1>0, <1>r, <1>11, ApprovalRowType DEF RequestApproval, InRange
  <2>2. coord' \in Coordinator
    BY <1>0, <1>r, <1>11, CoordRunType DEF RequestApproval, InRange
  <2>3. eng' \in Engine
    BY <1>0, <1>r, <1>11 DEF RequestApproval, InRange, Goto, Engine, PC
  <2>4. io' \in Registries
    BY <1>0, <1>r, <1>11 DEF RequestApproval, Registries
  <2>5. hist' \in History
    BY <1>0, <1>r, <1>11 DEF RequestApproval, History
  <2>6. InRange'
    BY <1>0, <1>r, <1>11 DEF RequestApproval, InRange, Engine, Goto
  <2>7. UNCHANGED <<def, env>>
    BY <1>11 DEF RequestApproval
  <2> QED
    BY <1>0, <1>r, <2>1, <2>2, <2>3, <2>4, <2>5, <2>6, <2>7 DEF TypeInv, TypeOK
<1>12. ASSUME ApprovalCancelled PROVE TypeInv'
  <2>1. db' \in Database
    BY <1>0, <1>r, <1>12, ApprovalRowType DEF ApprovalCancelled, InRange
  <2>2. eng' \in Engine
    BY <1>0, <1>r, <1>12 DEF ApprovalCancelled, InRange, Engine, PC
  <2>3. io' \in Registries
    BY <1>0, <1>r, <1>12 DEF ApprovalCancelled, Registries
  <2>4. InRange'
    BY <1>0, <1>r, <1>12 DEF ApprovalCancelled, InRange, Engine
  <2>5. UNCHANGED <<def, coord, env, hist>>
    BY <1>12 DEF ApprovalCancelled
  <2> QED
    BY <1>0, <1>r, <2>1, <2>2, <2>3, <2>4, <2>5 DEF TypeInv, TypeOK
<1>13. ASSUME Approved PROVE TypeInv'
  <2>1. db' \in Database
    BY <1>0, <1>r, <1>13, ApprovalRowType DEF Approved, InRange
  <2>2. coord' \in Coordinator
    BY <1>0, <1>r, <1>13, CoordRunType DEF Approved, InRange
  <2>3. eng' \in Engine
    BY <1>0, <1>r, <1>13 DEF Approved, InRange, Goto, Engine, PC
  <2>4. io' \in Registries
    BY <1>0, <1>r, <1>13 DEF Approved, Registries
  <2>5. InRange'
    BY <1>0, <1>r, <1>13 DEF Approved, InRange, Engine, Goto
  <2>6. UNCHANGED <<def, env, hist>>
    BY <1>13 DEF Approved
  <2> QED
    BY <1>0, <1>r, <2>1, <2>2, <2>3, <2>4, <2>5, <2>6 DEF TypeInv, TypeOK
<1>14. ASSUME Declined PROVE TypeInv'
  <2>1. db' \in Database
    BY <1>0, <1>r, <1>14, ApprovalRowType DEF Declined, InRange
  <2>2. coord' \in Coordinator
    BY <1>0, <1>r, <1>14, CoordStepType DEF Declined, InRange
  <2>3. eng' \in Engine
    BY <1>0, <1>r, <1>14 DEF Declined, InRange, Engine, PC
  <2>4. io' \in Registries
    BY <1>0, <1>r, <1>14 DEF Declined, Registries
  <2>5. InRange'
    BY <1>0, <1>r, <1>14 DEF Declined, InRange, Engine
  <2>6. UNCHANGED <<def, env, hist>>
    BY <1>14 DEF Declined
  <2> QED
    BY <1>0, <1>r, <2>1, <2>2, <2>3, <2>4, <2>5, <2>6 DEF TypeInv, TypeOK
<1>15. ASSUME DeclineStep PROVE TypeInv'
  <2>1. db' \in Database
    BY <1>0, <1>r, <1>15, StepRowType DEF DeclineStep, InRange, Engine, StepStatus
  <2>2. eng' \in Engine
    BY <1>0, <1>r, <1>15 DEF DeclineStep, InRange, Engine, PC, StepStatus
  <2>3. InRange'
    BY <1>0, <1>r, <1>15 DEF DeclineStep, InRange, Engine
  <2>4. UNCHANGED <<def, coord, io, env, hist>>
    BY <1>15 DEF DeclineStep
  <2> QED
    BY <1>0, <1>r, <2>1, <2>2, <2>3, <2>4 DEF TypeInv, TypeOK
<1>16. ASSUME DeclineRun PROVE TypeInv'
  <2>1. db' \in Database
    BY <1>0, <1>r, <1>16, RunRowType DEF DeclineRun, InRange, RunStatus
  <2>2. eng' \in Engine
    BY <1>0, <1>r, <1>16 DEF DeclineRun, InRange, Goto, Engine, PC
  <2>3. InRange'
    BY <1>0, <1>r, <1>16 DEF DeclineRun, InRange, Engine, Goto
  <2>4. UNCHANGED <<def, coord, io, env, hist>>
    BY <1>16 DEF DeclineRun
  <2> QED
    BY <1>0, <1>r, <2>1, <2>2, <2>3, <2>4 DEF TypeInv, TypeOK
<1>17. ASSUME Recheck PROVE TypeInv'
  <2>1. db' \in Database
    BY <1>0, <1>r, <1>17, AttemptRowType DEF Recheck, InRange, AttemptStatus
  <2>2. eng' \in Engine
    <3>1. ASSUME eng' = [eng EXCEPT !.pc = "finishCancel", !.open = FALSE] PROVE eng' \in Engine
      BY <1>0, <1>r, <1>17, <3>1 DEF Engine, PC
    <3>2. ASSUME Goto("start") PROVE eng' \in Engine
      BY <1>0, <1>r, <1>17, <3>2, GotoType DEF PC
    <3> QED
      BY <1>0, <1>17, <3>1, <3>2 DEF Recheck
  <2>3. InRange'
    BY <1>0, <1>r, <1>17 DEF Recheck, InRange, Engine, Goto
  <2>4. UNCHANGED <<def, coord, io, env, hist>>
    BY <1>17 DEF Recheck
  <2> QED
    BY <1>0, <1>r, <2>1, <2>2, <2>3, <2>4 DEF TypeInv, TypeOK
<1>18. ASSUME StartCommand PROVE TypeInv'
  <2>1. db' \in Database
    BY <1>0, <1>r, <1>18, AttemptRowType DEF StartCommand, InRange
  <2>2. eng' \in Engine
    BY <1>0, <1>r, <1>18 DEF StartCommand, InRange, Engine, PC
  <2>3. io' \in Registries
    BY <1>0, <1>r, <1>18 DEF StartCommand, Registries
  <2>4. InRange'
    BY <1>0, <1>r, <1>18 DEF StartCommand, InRange, Engine
  <2>5. UNCHANGED <<def, coord, env, hist>>
    BY <1>18 DEF StartCommand
  <2> QED
    BY <1>0, <1>r, <2>1, <2>2, <2>3, <2>4, <2>5 DEF TypeInv, TypeOK
<1>19. ASSUME CommandCancelled PROVE TypeInv'
  <2>1. db' \in Database
    BY <1>0, <1>r, <1>19, AttemptRowType DEF CommandCancelled, InRange, AttemptStatus
  <2>2. eng' \in Engine
    BY <1>0, <1>r, <1>19 DEF CommandCancelled, InRange, Engine, PC
  <2>3. io' \in Registries
    BY <1>0, <1>r, <1>19 DEF CommandCancelled, Registries
  <2>4. InRange'
    BY <1>0, <1>r, <1>19 DEF CommandCancelled, InRange, Engine
  <2>5. UNCHANGED <<def, coord, env, hist>>
    BY <1>19 DEF CommandCancelled
  <2> QED
    BY <1>0, <1>r, <2>1, <2>2, <2>3, <2>4, <2>5 DEF TypeInv, TypeOK
<1>20. ASSUME CommandObserved PROVE TypeInv'
  <2>1. db' \in Database
    BY <1>0, <1>r, <1>20, AttemptRowType, ResultTypes DEF CommandObserved, InRange,
       Engine
  <2>2. eng' \in Engine
    <3>1. PICK r \in PhaseResult(eng.phase) :
             eng' = [eng EXCEPT !.pc = "settle", !.open = FALSE, !.result = r]
      BY <1>20 DEF CommandObserved
    <3>2. r \in Results
      BY <1>0, <3>1, ResultTypes DEF Engine
    <3> QED
      BY <1>0, <3>1, <3>2 DEF Engine, PC
  <2>3. io' \in Registries
    BY <1>0, <1>r, <1>20 DEF CommandObserved, Registries
  <2>4. InRange'
    BY <1>0, <1>r, <1>20 DEF CommandObserved, InRange, Engine
  <2>5. UNCHANGED <<def, coord, env, hist>>
    BY <1>20 DEF CommandObserved
  <2> QED
    BY <1>0, <1>r, <2>1, <2>2, <2>3, <2>4, <2>5 DEF TypeInv, TypeOK
<1>21. ASSUME StartManual PROVE TypeInv'
  <2>1. db' \in Database
    BY <1>0, <1>r, <1>21, AttemptRowType DEF StartManual, InRange
  <2>2. coord' \in Coordinator
    BY <1>0, <1>r, <1>21, CoordRunType DEF StartManual, InRange
  <2>3. eng' \in Engine
    BY <1>0, <1>r, <1>21 DEF StartManual, InRange, Goto, Engine, PC
  <2>4. io' \in Registries
    BY <1>0, <1>r, <1>21 DEF StartManual, Registries
  <2>5. InRange'
    BY <1>0, <1>r, <1>21 DEF StartManual, InRange, Engine, Goto
  <2>6. UNCHANGED <<def, env, hist>>
    BY <1>21 DEF StartManual
  <2> QED
    BY <1>0, <1>r, <2>1, <2>2, <2>3, <2>4, <2>5, <2>6 DEF TypeInv, TypeOK
<1>22. ASSUME OpenManual PROVE TypeInv'
  <2>1. db' \in Database
    BY <1>0, <1>r, <1>22, RunRowType DEF OpenManual, InRange, RunStatus
  <2>2. eng' \in Engine
    BY <1>0, <1>r, <1>22 DEF OpenManual, InRange, Goto, Engine, PC
  <2>3. hist' \in History
    BY <1>0, <1>r, <1>22 DEF OpenManual, Mutated, History, Verdict
  <2>4. InRange'
    BY <1>0, <1>r, <1>22 DEF OpenManual, InRange, Engine, Goto
  <2>5. UNCHANGED <<def, coord, io, env>>
    BY <1>22 DEF OpenManual
  <2> QED
    BY <1>0, <1>r, <2>1, <2>2, <2>3, <2>4, <2>5 DEF TypeInv, TypeOK
<1>23. ASSUME ManualCancelled PROVE TypeInv'
  <2>1. db' \in Database
    BY <1>0, <1>r, <1>23, AttemptRowType DEF ManualCancelled, InRange, AttemptStatus
  <2>2. eng' \in Engine
    BY <1>0, <1>r, <1>23 DEF ManualCancelled, InRange, Engine, PC
  <2>3. io' \in Registries
    BY <1>0, <1>r, <1>23 DEF ManualCancelled, Registries
  <2>4. InRange'
    BY <1>0, <1>r, <1>23 DEF ManualCancelled, InRange, Engine
  <2>5. UNCHANGED <<def, coord, env, hist>>
    BY <1>23 DEF ManualCancelled
  <2> QED
    BY <1>0, <1>r, <2>1, <2>2, <2>3, <2>4, <2>5 DEF TypeInv, TypeOK
<1>24. ASSUME ManualAnswered PROVE TypeInv'
  <2>1. db' \in Database
    BY <1>0, <1>r, <1>24, RunRowType DEF ManualAnswered, InRange, RunStatus
  <2>2. coord' \in Coordinator
    BY <1>0, <1>r, <1>24, CoordRunType DEF ManualAnswered, InRange
  <2>3. eng' \in Engine
    BY <1>0, <1>r, <1>24, ResultTypes DEF ManualAnswered, InRange, Engine, PC,
       Registries
  <2>4. io' \in Registries
    BY <1>0, <1>r, <1>24 DEF ManualAnswered, Registries
  <2>5. InRange'
    BY <1>0, <1>r, <1>24 DEF ManualAnswered, InRange, Engine
  <2>6. UNCHANGED <<def, env, hist>>
    BY <1>24 DEF ManualAnswered
  <2> QED
    BY <1>0, <1>r, <2>1, <2>2, <2>3, <2>4, <2>5, <2>6 DEF TypeInv, TypeOK
<1>25. ASSUME ManualObserved PROVE TypeInv'
  <2>1. db' \in Database
    BY <1>0, <1>r, <1>25, AttemptRowType DEF ManualObserved, InRange, AttemptAfter,
       AttemptStatus, Engine
  <2>2. eng' \in Engine
    BY <1>0, <1>r, <1>25 DEF ManualObserved, InRange, Engine, PC
  <2>3. InRange'
    BY <1>0, <1>r, <1>25 DEF ManualObserved, InRange, Engine
  <2>4. UNCHANGED <<def, coord, io, env, hist>>
    BY <1>25 DEF ManualObserved
  <2> QED
    BY <1>0, <1>r, <2>1, <2>2, <2>3, <2>4 DEF TypeInv, TypeOK
<1>26. ASSUME CompletePhase PROVE TypeInv'
  <2>1. db' \in Database
    BY <1>0, <1>r, <1>26, StepRowType, StepMovesType DEF CompletePhase, InRange,
       CanTransitionStep, Database, Engine
  <2>2. coord' \in Coordinator
    BY <1>0, <1>r, <1>26, CoordStepType, StepMovesType DEF CompletePhase, InRange,
       CanTransitionStep, Database
  <2>3. eng' \in Engine
    <3>1. StatusAfter(eng.result) \in StepStatus /\ eng.i \in Steps
      BY <1>0, <1>r, <1>26, StepMovesType DEF CompletePhase, CanTransitionStep, Database, InRange
    <3>2. (eng.chg[eng.i] \/ eng.phase = "apply") \in BOOLEAN
      OBVIOUS
    <3>3. {"begin", "assess", "settleRun"} \subseteq PC /\ {"verify", "apply", eng.phase} \subseteq Phase
      BY <1>0 DEF PC, Phase, Engine
    <3>4. PICK p \in PC, ph \in Phase, c \in BOOLEAN :
             eng' = [eng EXCEPT !.list[eng.i] = StatusAfter(eng.result), !.chg[eng.i] = c,
                                !.pc = p, !.phase = ph]
      BY <1>26, <3>2, <3>3 DEF CompletePhase
    <3> QED
      BY <1>0, <3>1, <3>4, EngineMoveType
  <2>4. InRange'
    BY <1>0, <1>r, <1>26 DEF CompletePhase, InRange, Engine
  <2>5. UNCHANGED <<def, io, env, hist>>
    BY <1>26 DEF CompletePhase
  <2> QED
    BY <1>0, <1>r, <2>1, <2>2, <2>3, <2>4, <2>5 DEF TypeInv, TypeOK
<1>27. ASSUME SettleRun PROVE TypeInv'
  <2>1. db' \in Database
    <3>1. ASSUME db' = SetRunCursor(db, 0, "none") PROVE db' \in Database
      BY <1>0, <1>r, <1>27, <3>1, RunRowType
    <3>2. ASSUME db' = TransitionRun(db, "waiting_operator") PROVE db' \in Database
      BY <1>0, <1>r, <1>27, <3>2, RunRowType DEF RunStatus
    <3> QED
      BY <1>0, <1>27, <3>1, <3>2 DEF SettleRun
  <2>2. eng' \in Engine
    <3>1. ASSUME eng' = [eng EXCEPT !.pc = "begin", !.phase = "verify"] PROVE eng' \in Engine
      BY <1>0, <1>r, <1>27, <3>1 DEF Engine, PC, Phase
    <3>2. ASSUME Goto("summary") PROVE eng' \in Engine
      BY <1>0, <1>r, <1>27, <3>2, GotoType DEF PC
    <3>3. ASSUME Goto(IF eng.result = "failed" /\ Policy(eng.i) # "pause" THEN "policy" ELSE "decide") PROVE eng' \in Engine
      BY <1>0, <1>r, <1>27, <3>3, GotoType DEF PC
    <3> QED
      BY <1>0, <1>27, <3>1, <3>2, <3>3 DEF SettleRun
  <2>3. InRange'
    BY <1>0, <1>r, <1>27 DEF SettleRun, InRange, Engine, Goto
  <2>4. UNCHANGED <<def, coord, io, env, hist>>
    BY <1>27 DEF SettleRun
  <2> QED
    BY <1>0, <1>r, <2>1, <2>2, <2>3, <2>4 DEF TypeInv, TypeOK
<1>28. ASSUME Assess PROVE TypeInv'
  <2>1. db' \in Database
    BY <1>0, <1>r, <1>28, RunRowType DEF Assess, InRange
  <2>2. coord' \in Coordinator
    BY <1>0, <1>r, <1>28, CoordRunType DEF Assess, InRange
  <2>3. eng' \in Engine
    BY <1>0, <1>r, <1>28 DEF Assess, InRange, Goto, Engine, PC
  <2>4. InRange'
    BY <1>0, <1>r, <1>28 DEF Assess, InRange, Engine, Goto
  <2>5. UNCHANGED <<def, io, env, hist>>
    BY <1>28 DEF Assess
  <2> QED
    BY <1>0, <1>r, <2>1, <2>2, <2>3, <2>4, <2>5 DEF TypeInv, TypeOK
<1>29. ASSUME FailurePolicyApplies PROVE TypeInv'
  <2>0. eng.i \in Steps
    BY <1>r, <1>29 DEF InRange, FailurePolicyApplies
  <2>1. db' \in Database
    <3>1. ASSUME SettleAs(eng.i, "failed") PROVE db' \in Database
      BY <1>0, <1>r, <1>29, <3>1, <2>0, SettleTypes DEF StepStatus
    <3>2. ASSUME SettleStopped(eng.i) PROVE db' \in Database
      BY <1>0, <1>r, <1>29, <3>2, <2>0, SettleTypes
    <3> QED
      BY <1>0, <1>29, <3>1, <3>2 DEF FailurePolicyApplies
  <2>2. coord' \in Coordinator
    <3>1. ASSUME SettleAs(eng.i, "failed") PROVE coord' \in Coordinator
      BY <1>0, <1>r, <1>29, <3>1, <2>0, SettleTypes DEF StepStatus
    <3>2. ASSUME SettleStopped(eng.i) PROVE coord' \in Coordinator
      BY <1>0, <1>r, <1>29, <3>2, <2>0, SettleTypes
    <3> QED
      BY <1>0, <1>29, <3>1, <3>2 DEF FailurePolicyApplies
  <2>3. eng' \in Engine
    <3>1. ASSUME SettleAs(eng.i, "failed") PROVE eng' \in Engine
      BY <1>0, <1>r, <1>29, <3>1, <2>0, SettleTypes DEF StepStatus
    <3>2. ASSUME SettleStopped(eng.i) PROVE eng' \in Engine
      BY <1>0, <1>r, <1>29, <3>2, <2>0, SettleTypes
    <3> QED
      BY <1>0, <1>29, <3>1, <3>2 DEF FailurePolicyApplies
  <2>4. hist' \in History
    <3>1. ASSUME SettleAs(eng.i, "failed") PROVE hist' \in History
      BY <1>0, <1>r, <1>29, <3>1, <2>0, SettleTypes DEF StepStatus
    <3>2. ASSUME SettleStopped(eng.i) PROVE hist' \in History
      BY <1>0, <1>r, <1>29, <3>2, <2>0, SettleTypes
    <3> QED
      BY <1>0, <1>29, <3>1, <3>2 DEF FailurePolicyApplies
  <2>5. InRange'
    BY <1>0, <1>r, <1>29 DEF FailurePolicyApplies, InRange, Engine, SettleAs,
       SettleStopped
  <2>6. UNCHANGED <<def, io, env>>
    BY <1>29 DEF FailurePolicyApplies, SettleAs, SettleStopped
  <2> QED
    BY <1>0, <1>r, <2>1, <2>2, <2>3, <2>4, <2>5, <2>6 DEF TypeInv, TypeOK
<1>30. ASSUME AwaitDecision PROVE TypeInv'
  <2>1. eng' \in Engine
    BY <1>0, <1>r, <1>30 DEF AwaitDecision, InRange, Goto, Engine, PC
  <2>2. io' \in Registries
    BY <1>0, <1>r, <1>30 DEF AwaitDecision, Registries
  <2>3. InRange'
    BY <1>0, <1>r, <1>30 DEF AwaitDecision, InRange, Engine, Goto
  <2>4. UNCHANGED <<def, db, coord, env, hist>>
    BY <1>30 DEF AwaitDecision
  <2> QED
    BY <1>0, <1>r, <2>1, <2>2, <2>3, <2>4 DEF TypeInv, TypeOK
<1>31. ASSUME Decided PROVE TypeInv'
  <2>0. eng.i \in Steps
    BY <1>r, <1>31 DEF InRange, Decided
  <2>1. db' \in Database
    <3>1. ASSUME db' = ResetStepForRetry(db, eng.i) PROVE db' \in Database
      BY <1>0, <1>r, <1>31, <3>1, StepRowType, <2>0 DEF StepStatus
    <3>2. ASSUME \E st \in {"skipped", "waived"} : SettleAs(eng.i, st) PROVE db' \in Database
      BY <1>0, <1>r, <1>31, <3>2, <2>0, SettleTypes DEF StepStatus
    <3>3. ASSUME SettleStopped(eng.i) PROVE db' \in Database
      BY <1>0, <1>r, <1>31, <3>3, <2>0, SettleTypes
    <3> QED
      BY <1>0, <1>31, <3>1, <3>2, <3>3 DEF Decided
  <2>2. coord' \in Coordinator
    <3>1. ASSUME coord' = CoordSettleStep(coord, eng.i, "pending") PROVE coord' \in Coordinator
      BY <1>0, <1>r, <1>31, <3>1, CoordStepType, <2>0 DEF StepStatus
    <3>2. ASSUME \E st \in {"skipped", "waived"} : SettleAs(eng.i, st) PROVE coord' \in Coordinator
      BY <1>0, <1>r, <1>31, <3>2, <2>0, SettleTypes DEF StepStatus
    <3>3. ASSUME SettleStopped(eng.i) PROVE coord' \in Coordinator
      BY <1>0, <1>r, <1>31, <3>3, <2>0, SettleTypes
    <3> QED
      BY <1>0, <1>31, <3>1, <3>2, <3>3 DEF Decided
  <2>3. eng' \in Engine
    <3>1. ASSUME eng' = [eng EXCEPT !.pc = "begin", !.phase = "check", !.list[eng.i] = "pending"] PROVE eng' \in Engine
      BY <1>0, <1>r, <1>31, <3>1 DEF Engine, PC, Phase, StepStatus
    <3>2. ASSUME \E st \in {"skipped", "waived"} : SettleAs(eng.i, st) PROVE eng' \in Engine
      BY <1>0, <1>r, <1>31, <3>2, <2>0, SettleTypes DEF StepStatus
    <3>3. ASSUME SettleStopped(eng.i) PROVE eng' \in Engine
      BY <1>0, <1>r, <1>31, <3>3, <2>0, SettleTypes
    <3> QED
      BY <1>0, <1>31, <3>1, <3>2, <3>3 DEF Decided
  <2>4. io' \in Registries
    BY <1>0, <1>r, <1>31 DEF Decided, Registries
  <2>5. hist' \in History
    <3>1. ASSUME hist' = hist PROVE hist' \in History
      BY <1>0, <1>r, <1>31, <3>1
    <3>2. ASSUME \E st \in {"skipped", "waived"} : SettleAs(eng.i, st) PROVE hist' \in History
      BY <1>0, <1>r, <1>31, <3>2, <2>0, SettleTypes DEF StepStatus
    <3>3. ASSUME SettleStopped(eng.i) PROVE hist' \in History
      BY <1>0, <1>r, <1>31, <3>3, <2>0, SettleTypes
    <3> QED
      BY <1>0, <1>31, <3>1, <3>2, <3>3 DEF Decided
  <2>6. InRange'
    BY <1>0, <1>r, <1>31 DEF Decided, InRange, Engine, SettleAs, SettleStopped
  <2>7. UNCHANGED <<def, env>>
    BY <1>31 DEF Decided, SettleAs, SettleStopped
  <2> QED
    BY <1>0, <1>r, <2>1, <2>2, <2>3, <2>4, <2>5, <2>6, <2>7 DEF TypeInv, TypeOK
<1>32. ASSUME DecisionCancelled PROVE TypeInv'
  <2>1. eng' \in Engine
    BY <1>0, <1>r, <1>32 DEF DecisionCancelled, InRange, Goto, Engine, PC
  <2>2. io' \in Registries
    BY <1>0, <1>r, <1>32 DEF DecisionCancelled, Registries
  <2>3. InRange'
    BY <1>0, <1>r, <1>32 DEF DecisionCancelled, InRange, Engine, Goto
  <2>4. UNCHANGED <<def, db, coord, env, hist>>
    BY <1>32 DEF DecisionCancelled
  <2> QED
    BY <1>0, <1>r, <2>1, <2>2, <2>3, <2>4 DEF TypeInv, TypeOK
<1>33. ASSUME Summarize PROVE TypeInv'
  <2>0. eng.i \in Steps => eng.i + 1 \in 1 .. NumSteps + 1
    BY NumStepsAssumption DEF Steps
  <2>1. db' \in Database
    BY <1>0, <1>r, <1>33, StepRowType DEF Summarize, InRange, Engine
  <2>2. eng' \in Engine
    <3>1. ASSUME eng.i \in Steps /\ eng' = [eng EXCEPT !.pc = "next", !.i = @ + 1, !.result = "none"] PROVE eng' \in Engine
      BY <1>0, <1>r, <1>33, <3>1, <2>0 DEF Engine, PC
    <3>2. ASSUME eng' = [eng EXCEPT !.pc = "wrapUp"] PROVE eng' \in Engine
      BY <1>0, <1>r, <1>33, <3>2 DEF Engine, PC
    <3> QED
      BY <1>0, <1>33, <3>1, <3>2, <1>r DEF Summarize, InRange
  <2>3. InRange'
    BY <1>0, <1>r, <1>33, NumStepsAssumption DEF Summarize, InRange, Engine
  <2>4. UNCHANGED <<def, coord, io, env, hist>>
    BY <1>33 DEF Summarize
  <2> QED
    BY <1>0, <1>r, <2>1, <2>2, <2>3, <2>4 DEF TypeInv, TypeOK
<1>34. ASSUME FinishCancelled PROVE TypeInv'
  <2>1. db' \in Database
    BY <1>0, <1>r, <1>34, ApprovalRowType DEF FinishCancelled, InRange
  <2>2. eng' \in Engine
    BY <1>0, <1>r, <1>34 DEF FinishCancelled, InRange, Engine, PC, Terminal
  <2>3. io' \in Registries
    BY <1>0, <1>r, <1>34 DEF FinishCancelled, Registries
  <2>4. InRange'
    BY <1>0, <1>r, <1>34 DEF FinishCancelled, InRange, Engine
  <2>5. UNCHANGED <<def, coord, env, hist>>
    BY <1>34 DEF FinishCancelled
  <2> QED
    BY <1>0, <1>r, <2>1, <2>2, <2>3, <2>4, <2>5 DEF TypeInv, TypeOK
<1>35. ASSUME MarkUnknown PROVE TypeInv'
  <2>1. db' \in Database
    <3>1. ASSUME db' = db PROVE db' \in Database
      BY <1>0, <1>r, <1>35, <3>1
    <3>2. ASSUME NEW s \in Steps, db' = TransitionStep(db, s, "unknown", eng.chg[s] \/ db.changed[s]) PROVE db' \in Database
      BY <1>0, <1>r, <1>35, <3>2, StepRowType DEF StepStatus
    <3> QED
      BY <1>0, <1>35, <3>1, <3>2 DEF MarkUnknown
  <2>2. eng' \in Engine
    <3>1. ASSUME Goto("wrapUp") PROVE eng' \in Engine
      BY <1>0, <1>r, <1>35, <3>1, GotoType DEF PC
    <3>2. ASSUME NEW s \in Steps, eng' = [eng EXCEPT !.pc = "wrapUp", !.list[s] = "unknown", !.chg[s] = eng.chg[s] \/ db.changed[s]] PROVE eng' \in Engine
      BY <1>0, <1>r, <1>35, <3>2 DEF Engine, PC, StepStatus
    <3> QED
      BY <1>0, <1>35, <3>1, <3>2 DEF MarkUnknown
  <2>3. InRange'
    BY <1>0, <1>r, <1>35 DEF MarkUnknown, InRange, Engine, Goto
  <2>4. UNCHANGED <<def, coord, io, env, hist>>
    BY <1>35 DEF MarkUnknown
  <2> QED
    BY <1>0, <1>r, <2>1, <2>2, <2>3, <2>4 DEF TypeInv, TypeOK
<1>36. ASSUME WrapUp PROVE TypeInv'
  <2>1. db' \in Database
    BY <1>0, <1>r, <1>36 DEF WrapUp, InRange, Database, Engine
  <2>2. eng' \in Engine
    BY <1>0, <1>r, <1>36 DEF WrapUp, InRange, Goto, Engine, PC
  <2>3. InRange'
    BY <1>0, <1>r, <1>36 DEF WrapUp, InRange, Engine, Goto
  <2>4. UNCHANGED <<def, coord, io, env, hist>>
    BY <1>36 DEF WrapUp
  <2> QED
    BY <1>0, <1>r, <2>1, <2>2, <2>3, <2>4 DEF TypeInv, TypeOK
<1>37. ASSUME Finalize PROVE TypeInv'
  <2>0. eng.ending \in Terminal
    BY <1>0, <1>37, RunMovesType DEF Finalize, CanFinalizeRun, Engine, Database, RunStatus,
       Terminal
  <2>1. db' \in Database
    BY <1>0, <1>r, <1>37, EndRowType, <2>0 DEF Finalize, InRange
  <2>2. coord' \in Coordinator
    BY <1>0, <1>r, <1>37, CoordRunType, <2>0 DEF Finalize, InRange, Terminal, RunStatus
  <2>3. eng' \in Engine
    BY <1>0, <1>r, <1>37 DEF Finalize, InRange, Goto, Engine, PC
  <2>4. InRange'
    BY <1>0, <1>r, <1>37 DEF Finalize, InRange, Engine, Goto
  <2>5. UNCHANGED <<def, io, env, hist>>
    BY <1>37 DEF Finalize
  <2> QED
    BY <1>0, <1>r, <2>1, <2>2, <2>3, <2>4, <2>5 DEF TypeInv, TypeOK
<1>38. ASSUME EngineError PROVE TypeInv'
  <2>1. eng' \in Engine
    BY <1>0, <1>r, <1>38 DEF EngineError, InRange, Goto, Engine, PC
  <2>2. InRange'
    BY <1>0, <1>r, <1>38 DEF EngineError, InRange, Engine, Goto, Refused
  <2>3. UNCHANGED <<def, db, coord, io, env, hist>>
    BY <1>38 DEF EngineError
  <2> QED
    BY <1>0, <1>r, <2>1, <2>2, <2>3 DEF TypeInv, TypeOK
<1>39. ASSUME Abort PROVE TypeInv'
  <2>1. db' \in Database
    BY <1>0, <1>r, <1>39, ApprovalRowType DEF Abort, InRange
  <2>2. eng' \in Engine
    BY <1>0, <1>r, <1>39 DEF Abort, InRange, Goto, Engine, PC
  <2>3. InRange'
    BY <1>0, <1>r, <1>39 DEF Abort, InRange, Engine, Goto
  <2>4. UNCHANGED <<def, coord, io, env, hist>>
    BY <1>39 DEF Abort
  <2> QED
    BY <1>0, <1>r, <2>1, <2>2, <2>3, <2>4 DEF TypeInv, TypeOK
<1>40. ASSUME AbortSteps PROVE TypeInv'
  <2>1. db' \in Database
    <3>1. "unknown" \in StepStatus /\ \A s \in Steps : db.changed[s] \in BOOLEAN
      BY <1>0 DEF StepStatus, Database
    <3>2. ASSUME NEW s \in Steps, db' = TransitionStep(db, s, "unknown", db.changed[s])
          PROVE  db' \in Database
      BY <1>0, <3>1, <3>2, StepRowType
    <3> QED
      BY <1>0, <1>40, <3>2 DEF AbortSteps
  <2>2. eng' \in Engine
    BY <1>0, <1>r, <1>40 DEF AbortSteps, InRange, Goto, Engine, PC
  <2>3. InRange'
    BY <1>0, <1>r, <1>40 DEF AbortSteps, InRange, Engine, Goto
  <2>4. UNCHANGED <<def, coord, io, env, hist>>
    BY <1>40 DEF AbortSteps
  <2> QED
    BY <1>0, <1>r, <2>1, <2>2, <2>3, <2>4 DEF TypeInv, TypeOK
<1>41. ASSUME AbortFinalize PROVE TypeInv'
  <2>1. db' \in Database
    BY <1>0, <1>r, <1>41, EndRowType DEF AbortFinalize, InRange, Terminal
  <2>2. coord' \in Coordinator
    BY <1>0, <1>r, <1>41, NoRunType DEF AbortFinalize, InRange
  <2>3. eng' \in Engine
    BY <1>0, <1>r, <1>41 DEF AbortFinalize, InRange, Goto, Engine, PC
  <2>4. InRange'
    BY <1>0, <1>r, <1>41 DEF AbortFinalize, InRange, Engine, Goto
  <2>5. UNCHANGED <<def, io, env, hist>>
    BY <1>41 DEF AbortFinalize
  <2> QED
    BY <1>0, <1>r, <2>1, <2>2, <2>3, <2>4, <2>5 DEF TypeInv, TypeOK
<1>42. ASSUME Exit PROVE TypeInv'
  <2>1. eng' \in Engine
    BY <1>0, <1>r, <1>42, NoEngineType DEF Exit, InRange
  <2>2. io' \in Registries
    BY <1>0, <1>r, <1>42, NoIOType DEF Exit
  <2>3. InRange'
    BY <1>0, <1>r, <1>42, NumStepsAssumption DEF Exit, InRange, Engine, NoEngine,
       Spawned, Steps
  <2>4. UNCHANGED <<def, db, coord, env, hist>>
    BY <1>42 DEF Exit
  <2> QED
    BY <1>0, <1>r, <2>1, <2>2, <2>3, <2>4 DEF TypeInv, TypeOK
<1>43. ASSUME RespondApproval PROVE TypeInv'
  <2>1. io' \in Registries
    BY <1>0, <1>r, <1>43 DEF RespondApproval, Registries
  <2>2. UNCHANGED <<def, db, coord, eng, env, hist>>
    BY <1>43 DEF RespondApproval
  <2> QED
    BY <1>0, <1>r, <2>1, <2>2 DEF TypeInv, TypeOK, InRange
<1>44. ASSUME Decide PROVE TypeInv'
  <2>1. io' \in Registries
    BY <1>0, <1>r, <1>44 DEF Decide, Registries
  <2>2. env' \in Environment
    BY <1>0, <1>r, <1>44, DefinitionsAssumption DEF Decide, Environment
  <2>3. UNCHANGED <<def, db, coord, eng, hist>>
    BY <1>44 DEF Decide
  <2> QED
    BY <1>0, <1>r, <2>1, <2>2, <2>3 DEF TypeInv, TypeOK, InRange
<1>45. ASSUME SubmitManual PROVE TypeInv'
  <2>1. io' \in Registries
    BY <1>0, <1>r, <1>45, ResultTypes DEF SubmitManual, Registries, Database
  <2>2. hist' \in History
    BY <1>0, <1>r, <1>45 DEF SubmitManual, Observe, History
  <2>3. UNCHANGED <<def, db, coord, eng, env>>
    BY <1>45 DEF SubmitManual
  <2> QED
    BY <1>0, <1>r, <2>1, <2>2, <2>3 DEF TypeInv, TypeOK, InRange
<1>46. ASSUME CancelRead PROVE TypeInv'
  <2>1. env' \in Environment
    <3>1. MaxCancels \in Nat /\ env.cancels + 1 \in 0 .. MaxCancels
      BY <1>0, <1>46, DefinitionsAssumption DEF CancelRead, Environment
    <3>2. (IF db.run = "interrupted" THEN "readInterrupted" ELSE "read") \in
             {"idle", "read", "readInterrupted", "signalled"}
      OBVIOUS
    <3> QED
      BY <1>0, <1>46, <3>1, <3>2 DEF CancelRead, Environment
  <2>2. UNCHANGED <<def, db, coord, eng, io, hist>>
    BY <1>46 DEF CancelRead
  <2> QED
    BY <1>0, <1>r, <2>1, <2>2 DEF TypeInv, TypeOK, InRange
<1>47. ASSUME CancelSignal PROVE TypeInv'
  <2>1. io' \in Registries
    <3>1. /\ (io.cancelled \/ io.registered) \in BOOLEAN
          /\ (io.preCancelled \/ ~io.registered) \in BOOLEAN
      OBVIOUS
    <3>2. (IF io.pty \in {"leased", "claimed"} THEN "none" ELSE io.pty) \in
             {"none", "leased", "claimed"} \cup Results
      BY <1>0 DEF Registries
    <3> QED
      <4>1. \E a \in BOOLEAN, b \in BOOLEAN,
                p \in {"none", "leased", "claimed"} \cup Results :
               io' = [io EXCEPT !.cancelled = a, !.registered = FALSE, !.preCancelled = b,
                                !.pty = p, !.late = FALSE]
        BY <1>47, <3>1, <3>2 DEF CancelSignal
      <4> QED
        BY <1>0, <4>1 DEF Registries
  <2>2. env' \in Environment
    BY <1>0, <1>r, <1>47 DEF CancelSignal, Environment
  <2>3. UNCHANGED <<def, db, coord, eng, hist>>
    BY <1>47 DEF CancelSignal
  <2> QED
    BY <1>0, <1>r, <2>1, <2>2, <2>3 DEF TypeInv, TypeOK, InRange
<1>48. ASSUME CancelInterrupted PROVE TypeInv'
  <2>1. db' \in Database
    BY <1>0, <1>r, <1>48, ApprovalRowType, EndRowType DEF CancelInterrupted, InRange,
       Terminal
  <2>2. io' \in Registries
    BY <1>0, <1>r, <1>48, NoIOType DEF CancelInterrupted
  <2>3. env' \in Environment
    BY <1>0, <1>r, <1>48 DEF CancelInterrupted, Environment
  <2>4. UNCHANGED <<def, coord, eng, hist>>
    BY <1>48 DEF CancelInterrupted
  <2> QED
    BY <1>0, <1>r, <2>1, <2>2, <2>3, <2>4 DEF TypeInv, TypeOK, InRange
<1>49. ASSUME Resume PROVE TypeInv'
  <2>1. db' \in Database
    BY <1>0, <1>r, <1>49, RunRowType DEF Resume, InRange
  <2>2. eng' \in Engine
    BY <1>0, <1>r, <1>49, NoEngineType DEF Resume, InRange
  <2>3. env' \in Environment
    BY <1>0, <1>r, <1>49 DEF Resume, Environment
  <2>4. InRange'
    BY <1>0, <1>r, <1>49, NumStepsAssumption DEF Resume, InRange, Engine, Spawned,
       Steps
  <2>5. UNCHANGED <<def, coord, io, hist>>
    BY <1>49 DEF Resume
  <2> QED
    BY <1>0, <1>r, <2>1, <2>2, <2>3, <2>4, <2>5 DEF TypeInv, TypeOK
<1>50. ASSUME Claim PROVE TypeInv'
  <2>1. io' \in Registries
    BY <1>0, <1>r, <1>50 DEF Claim, Registries
  <2>2. hist' \in History
    <3>1. Mutated(db.attempt.step) \in History
      BY <1>0 DEF Mutated, History, Verdict
    <3>2. \A h \in History : [h EXCEPT !.typed = @ + 1] \in History
      BY DEF History
    <3> QED
      BY <1>0, <1>50, <3>1, <3>2 DEF Claim, Typed
  <2>3. UNCHANGED <<def, db, coord, eng, env>>
    BY <1>50 DEF Claim
  <2> QED
    BY <1>0, <1>r, <2>1, <2>2, <2>3 DEF TypeInv, TypeOK, InRange
<1>51. ASSUME SubmitResult PROVE TypeInv'
  <2>1. io' \in Registries
    BY <1>0, <1>r, <1>51, ResultTypes, AttemptPhaseType DEF SubmitResult, Registries
  <2>2. hist' \in History
    BY <1>0, <1>r, <1>51 DEF SubmitResult, Observe, History
  <2>3. UNCHANGED <<def, db, coord, eng, env>>
    BY <1>51 DEF SubmitResult
  <2> QED
    BY <1>0, <1>r, <2>1, <2>2, <2>3 DEF TypeInv, TypeOK, InRange
<1>52. ASSUME LeaseExpires PROVE TypeInv'
  <2>1. io' \in Registries
    BY <1>0, <1>r, <1>52 DEF LeaseExpires, Registries
  <2>2. UNCHANGED <<def, db, coord, eng, env, hist>>
    BY <1>52 DEF LeaseExpires
  <2> QED
    BY <1>0, <1>r, <2>1, <2>2 DEF TypeInv, TypeOK, InRange
<1>53. ASSUME CloseTerminal PROVE TypeInv'
  <2>1. env' \in Environment
    BY <1>0, <1>r, <1>53 DEF CloseTerminal, Environment
  <2>2. UNCHANGED <<def, db, coord, eng, io, hist>>
    BY <1>53 DEF CloseTerminal
  <2> QED
    BY <1>0, <1>r, <2>1, <2>2 DEF TypeInv, TypeOK, InRange
<1>54. ASSUME Crash PROVE TypeInv'
  <2>1. coord' \in Coordinator
    BY <1>0, <1>r, <1>54, NoRunType DEF Crash, InRange
  <2>2. eng' \in Engine
    BY <1>0, <1>r, <1>54, NoEngineType DEF Crash, InRange
  <2>3. io' \in Registries
    BY <1>0, <1>r, <1>54, NoIOType DEF Crash
  <2>4. env' \in Environment
    <3>1. /\ MaxCrashes \in Nat /\ env.crashes + 1 \in 0 .. MaxCrashes
          /\ MaxCancels \in Nat /\ 0 \in 0 .. MaxCancels
      BY <1>0, <1>54, DefinitionsAssumption DEF Crash, Environment
    <3> QED
      BY <1>0, <1>54, <3>1 DEF Crash, Environment
  <2>5. hist' \in History
    BY <1>0, <1>r, <1>54 DEF Crash, History, Verdict
  <2>6. InRange'
    BY <1>0, <1>r, <1>54, NumStepsAssumption DEF Crash, InRange, Engine, NoEngine,
       Spawned, Steps
  <2>7. UNCHANGED <<def, db>>
    BY <1>54 DEF Crash
  <2> QED
    BY <1>0, <1>r, <2>1, <2>2, <2>3, <2>4, <2>5, <2>6, <2>7 DEF TypeInv, TypeOK
<1>55. ASSUME Restart PROVE TypeInv'
  <2>1. db' \in Database
    BY <1>0, <1>r, <1>55, EndRowType DEF Restart, InRange
  <2>2. env' \in Environment
    BY <1>0, <1>r, <1>55 DEF Restart, Environment
  <2>3. UNCHANGED <<def, coord, eng, io, hist>>
    BY <1>55 DEF Restart
  <2> QED
    BY <1>0, <1>r, <2>1, <2>2, <2>3 DEF TypeInv, TypeOK, InRange
<1>56. ASSUME AbortRefused PROVE TypeInv'
  <2>1. eng' \in Engine
    BY <1>0, <1>r, <1>56 DEF AbortRefused, InRange, Goto, Engine, PC
  <2>2. InRange'
    BY <1>0, <1>r, <1>56 DEF AbortRefused, InRange, Engine, Goto
  <2>3. UNCHANGED <<def, db, coord, io, env, hist>>
    BY <1>56 DEF AbortRefused
  <2> QED
    BY <1>0, <1>r, <2>1, <2>2, <2>3 DEF TypeInv, TypeOK
<1>e. ASSUME EngineStep PROVE TypeInv'
  BY <1>e, <1>1, <1>2, <1>3, <1>4, <1>5, <1>6, <1>7, <1>8, <1>9, <1>10, <1>11, <1>12,
     <1>13, <1>14, <1>15, <1>16, <1>17, <1>18, <1>19, <1>20, <1>21, <1>22, <1>23,
     <1>24, <1>25, <1>26, <1>27, <1>28, <1>29, <1>30, <1>31, <1>32, <1>33, <1>34,
     <1>35, <1>36, <1>37, <1>38, <1>39, <1>40, <1>41, <1>42, <1>56 DEF EngineStep
<1>s. ASSUME UNCHANGED vars PROVE TypeInv'
  BY <1>0, <1>r, <1>s DEF vars, TypeInv, TypeOK, InRange
<1> QED
  BY <1>e, <1>s, <1>43, <1>44, <1>45, <1>46, <1>47, <1>48, <1>49, <1>50, <1>51, <1>52,
     <1>53, <1>54, <1>55 DEF Next, Finished

(* Every variable has its type in every state of every run, whatever the
   checklist, its definitions and the bounds are. *)
THEOREM TypeCorrect == Spec => []TypeOK
<1>1. TypeInv => TypeOK
  BY DEF TypeInv
<1> QED
  BY TypeInit, TypeStep, <1>1, PTL DEF Spec
-----------------------------------------------------------------------------
(* The approval gate *)

(* PendingApprovalHoldsRun is not inductive either: the run row may move again
   only because the engine, at every position but the two that own a pending
   approval, has none, and because a process that is down has no engine. *)
GateInv ==
    /\ PendingApprovalHoldsRun
    /\ db.approval = "pending" /\ env.up => eng.pc \in {"approval", "abort"}
    /\ ~env.up => eng.pc = "off"

\* No transaction but the request of an approval makes one pending.
LEMMA GateFrame ==
    ASSUME NEW d \in Database, d.approval # "pending"
    PROVE  /\ \A n : TransitionRun(d, n).approval # "pending"
           /\ \A s, n, c : TransitionStep(d, s, n, c).approval # "pending"
           /\ \A s, p : SetRunCursor(d, s, p).approval # "pending"
           /\ \A s, n : SettleStep(d, s, n).approval # "pending"
           /\ \A s : ResetStepForRetry(d, s).approval # "pending"
           /\ \A s, c : UpdateStepDetails(d, s, c).approval # "pending"
           /\ \A s, p, x : CreateAttemptIntent(d, s, p, x).approval # "pending"
           /\ StartAttempt(d).approval # "pending"
           /\ \A st : FinishAttempt(d, st).approval # "pending"
           /\ RebindInterruptedRun(d).approval # "pending"
           /\ \A t : FinalizeRun(d, t).approval # "pending"
BY DEF Database, TransitionRun, TransitionStep, SetRunCursor, SettleStep, ResetStepForRetry,
       UpdateStepDetails, CreateAttemptIntent, StartAttempt, FinishAttempt,
       RebindInterruptedRun, FinalizeRun

\* Answering or cancelling the approval, and restarting the process, end it.
LEMMA GateEnds ==
    ASSUME NEW d \in Database
    PROVE  /\ ApproveAndResume(d).approval # "pending"
           /\ DeclineApproval(d).approval # "pending"
           /\ CancelPendingApprovals(d).approval # "pending"
           /\ d.run = "waiting_approval" => InterruptActiveRuns(d).approval # "pending"
           /\ d.approval # "pending" => InterruptActiveRuns(d).approval # "pending"
BY DEF Database, ApproveAndResume, DeclineApproval, CancelPendingApprovals,
       InterruptActiveRuns, Active

\* Asking for an approval moves the three rows at once.
LEMMA GateOpens ==
    ASSUME NEW d \in Database, CanRequestApproval(d)
    PROVE  /\ RequestApprovalAwaiting(d).run = "waiting_approval"
           /\ RequestApprovalAwaiting(d).attempt.status = "waiting_approval"
<1>1. d.attempt \in [step : Steps, phase : Phase, executor : Executor, status : AttemptStatus]
  BY DEF Database, Attempt, NoAttempt, CanRequestApproval
<1> QED
  BY <1>1 DEF Database, RequestApprovalAwaiting

\* A run starts with nothing to approve.
LEMMA GateInit == Init => GateInv
BY DEF Init, CreatedRun, GateInv, PendingApprovalHoldsRun

\* Every step of the system keeps a pending approval and its run together.
LEMMA GateStep == TypeInv /\ GateInv /\ [Next]_vars => GateInv'
<1> SUFFICES ASSUME TypeInv, GateInv, [Next]_vars PROVE GateInv'
  OBVIOUS
<1>0. db \in Database /\ eng \in Engine /\ env \in Environment
  BY DEF TypeInv, TypeOK
<1>g. /\ db.approval = "pending" => db.run = "waiting_approval"
      /\ db.approval = "pending" => db.attempt.status = "waiting_approval"
      /\ db.approval = "pending" /\ env.up => eng.pc \in {"approval", "abort"}
      /\ ~env.up => eng.pc = "off"
  BY DEF GateInv, PendingApprovalHoldsRun
<1>1. ASSUME Register PROVE GateInv'
  BY <1>0, <1>g, <1>1, GateFrame DEF GateInv, PendingApprovalHoldsRun, Register, Restored,
     Engine, Goto
<1>2. ASSUME Launch PROVE GateInv'
  BY <1>0, <1>g, <1>2, GateFrame DEF GateInv, PendingApprovalHoldsRun, Launch, Engine,
     Goto
<1>3. ASSUME Probe PROVE GateInv'
  BY <1>0, <1>g, <1>3, GateFrame DEF GateInv, PendingApprovalHoldsRun, Probe, Engine,
     Goto
<1>4. ASSUME ChecklistDone PROVE GateInv'
  BY <1>0, <1>g, <1>4 DEF GateInv, PendingApprovalHoldsRun, ChecklistDone, Engine
<1>5. ASSUME NextStep PROVE GateInv'
  BY <1>0, <1>g, <1>5 DEF GateInv, PendingApprovalHoldsRun, NextStep, Engine, Goto
<1>6. ASSUME BeginPhase PROVE GateInv'
  BY <1>0, <1>g, <1>6, GateFrame DEF GateInv, PendingApprovalHoldsRun, BeginPhase,
     Engine
<1>7. ASSUME Dispatch PROVE GateInv'
  BY <1>0, <1>g, <1>7, GateFrame DEF GateInv, PendingApprovalHoldsRun, Dispatch,
     Engine, Goto
<1>8. ASSUME TargetDrift PROVE GateInv'
  BY <1>0, <1>g, <1>8, GateFrame DEF GateInv, PendingApprovalHoldsRun, TargetDrift,
     Engine
<1>9. ASSUME DriftRun PROVE GateInv'
  BY <1>0, <1>g, <1>9, GateFrame DEF GateInv, PendingApprovalHoldsRun, DriftRun,
     Engine, Goto
<1>10. ASSUME DriftAttempt PROVE GateInv'
  BY <1>0, <1>g, <1>10, GateFrame DEF GateInv, PendingApprovalHoldsRun, DriftAttempt,
     Engine
<1>11. ASSUME RequestApproval PROVE GateInv'
  BY <1>0, <1>g, <1>11, GateOpens DEF GateInv, PendingApprovalHoldsRun,
     RequestApproval, Engine, Goto
<1>12. ASSUME ApprovalCancelled PROVE GateInv'
  BY <1>0, <1>g, <1>12, GateEnds DEF GateInv, PendingApprovalHoldsRun,
     ApprovalCancelled, Engine
<1>13. ASSUME Approved PROVE GateInv'
  BY <1>0, <1>g, <1>13, GateEnds DEF GateInv, PendingApprovalHoldsRun, Approved,
     Engine, Goto
<1>14. ASSUME Declined PROVE GateInv'
  BY <1>0, <1>g, <1>14, GateEnds DEF GateInv, PendingApprovalHoldsRun, Declined, Engine
<1>15. ASSUME DeclineStep PROVE GateInv'
  BY <1>0, <1>g, <1>15, GateFrame DEF GateInv, PendingApprovalHoldsRun, DeclineStep,
     Engine
<1>16. ASSUME DeclineRun PROVE GateInv'
  BY <1>0, <1>g, <1>16, GateFrame DEF GateInv, PendingApprovalHoldsRun, DeclineRun,
     Engine, Goto
<1>17. ASSUME Recheck PROVE GateInv'
  BY <1>0, <1>g, <1>17, GateFrame DEF GateInv, PendingApprovalHoldsRun, Recheck,
     Engine, Goto
<1>18. ASSUME StartCommand PROVE GateInv'
  BY <1>0, <1>g, <1>18, GateFrame DEF GateInv, PendingApprovalHoldsRun, StartCommand,
     Engine
<1>19. ASSUME CommandCancelled PROVE GateInv'
  BY <1>0, <1>g, <1>19, GateFrame DEF GateInv, PendingApprovalHoldsRun,
     CommandCancelled, Engine
<1>20. ASSUME CommandObserved PROVE GateInv'
  BY <1>0, <1>g, <1>20, GateFrame DEF GateInv, PendingApprovalHoldsRun,
     CommandObserved, Engine
<1>21. ASSUME StartManual PROVE GateInv'
  BY <1>0, <1>g, <1>21, GateFrame DEF GateInv, PendingApprovalHoldsRun, StartManual,
     Engine, Goto
<1>22. ASSUME OpenManual PROVE GateInv'
  BY <1>0, <1>g, <1>22, GateFrame DEF GateInv, PendingApprovalHoldsRun, OpenManual,
     Engine, Goto
<1>23. ASSUME ManualCancelled PROVE GateInv'
  BY <1>0, <1>g, <1>23, GateFrame DEF GateInv, PendingApprovalHoldsRun,
     ManualCancelled, Engine
<1>24. ASSUME ManualAnswered PROVE GateInv'
  BY <1>0, <1>g, <1>24, GateFrame DEF GateInv, PendingApprovalHoldsRun, ManualAnswered,
     Engine
<1>25. ASSUME ManualObserved PROVE GateInv'
  BY <1>0, <1>g, <1>25, GateFrame DEF GateInv, PendingApprovalHoldsRun, ManualObserved,
     Engine
<1>26. ASSUME CompletePhase PROVE GateInv'
  BY <1>0, <1>g, <1>26, GateFrame DEF GateInv, PendingApprovalHoldsRun, CompletePhase,
     Engine
<1>27. ASSUME SettleRun PROVE GateInv'
  BY <1>0, <1>g, <1>27, GateFrame DEF GateInv, PendingApprovalHoldsRun, SettleRun,
     Engine, Goto
<1>28. ASSUME Assess PROVE GateInv'
  BY <1>0, <1>g, <1>28, GateFrame DEF GateInv, PendingApprovalHoldsRun, Assess, Engine,
     Goto
<1>29. ASSUME FailurePolicyApplies PROVE GateInv'
  BY <1>0, <1>g, <1>29, GateFrame DEF GateInv, PendingApprovalHoldsRun,
     FailurePolicyApplies, Engine, SettleAs, SettleStopped
<1>30. ASSUME AwaitDecision PROVE GateInv'
  BY <1>0, <1>g, <1>30 DEF GateInv, PendingApprovalHoldsRun, AwaitDecision, Engine,
     Goto
<1>31. ASSUME Decided PROVE GateInv'
  BY <1>0, <1>g, <1>31, GateFrame DEF GateInv, PendingApprovalHoldsRun, Decided,
     Engine, SettleAs, SettleStopped
<1>32. ASSUME DecisionCancelled PROVE GateInv'
  BY <1>0, <1>g, <1>32 DEF GateInv, PendingApprovalHoldsRun, DecisionCancelled, Engine,
     Goto
<1>33. ASSUME Summarize PROVE GateInv'
  BY <1>0, <1>g, <1>33, GateFrame DEF GateInv, PendingApprovalHoldsRun, Summarize,
     Engine
<1>34. ASSUME FinishCancelled PROVE GateInv'
  BY <1>0, <1>g, <1>34, GateEnds DEF GateInv, PendingApprovalHoldsRun, FinishCancelled,
     Engine
<1>35. ASSUME MarkUnknown PROVE GateInv'
  <2>1. db' = db \/ \E s, c : db' = TransitionStep(db, s, "unknown", c)
    BY <1>35 DEF MarkUnknown
  <2>2. eng.pc = "finishMark" /\ env' = env
    BY <1>35 DEF MarkUnknown
  <2> QED
    BY <1>0, <1>g, <2>1, <2>2, GateFrame DEF GateInv, PendingApprovalHoldsRun
<1>36. ASSUME WrapUp PROVE GateInv'
  BY <1>0, <1>g, <1>36 DEF GateInv, PendingApprovalHoldsRun, WrapUp, Engine, Goto,
     Database
<1>37. ASSUME Finalize PROVE GateInv'
  BY <1>0, <1>g, <1>37, GateFrame DEF GateInv, PendingApprovalHoldsRun, Finalize,
     Engine, Goto
<1>38. ASSUME EngineError PROVE GateInv'
  BY <1>0, <1>g, <1>38 DEF GateInv, PendingApprovalHoldsRun, EngineError, Engine, Goto,
     Refused, CanDecideApproval
<1>39. ASSUME Abort PROVE GateInv'
  BY <1>0, <1>g, <1>39, GateEnds DEF GateInv, PendingApprovalHoldsRun, Abort, Engine,
     Goto
<1>40. ASSUME AbortSteps PROVE GateInv'
  BY <1>0, <1>g, <1>40, GateFrame DEF GateInv, PendingApprovalHoldsRun, AbortSteps,
     Engine, Goto
<1>41. ASSUME AbortFinalize PROVE GateInv'
  BY <1>0, <1>g, <1>41, GateFrame DEF GateInv, PendingApprovalHoldsRun, AbortFinalize,
     Engine, Goto
<1>42. ASSUME Exit PROVE GateInv'
  BY <1>0, <1>g, <1>42 DEF GateInv, PendingApprovalHoldsRun, Exit, Engine, NoEngine,
     Spawned
<1>43. ASSUME RespondApproval PROVE GateInv'
  BY <1>0, <1>g, <1>43 DEF GateInv, PendingApprovalHoldsRun, RespondApproval
<1>44. ASSUME Decide PROVE GateInv'
  BY <1>0, <1>g, <1>44 DEF GateInv, PendingApprovalHoldsRun, Decide, Environment
<1>45. ASSUME SubmitManual PROVE GateInv'
  BY <1>0, <1>g, <1>45 DEF GateInv, PendingApprovalHoldsRun, SubmitManual
<1>46. ASSUME CancelRead PROVE GateInv'
  BY <1>0, <1>g, <1>46 DEF GateInv, PendingApprovalHoldsRun, CancelRead, Environment
<1>47. ASSUME CancelSignal PROVE GateInv'
  BY <1>0, <1>g, <1>47 DEF GateInv, PendingApprovalHoldsRun, CancelSignal, Environment
<1>48. ASSUME CancelInterrupted PROVE GateInv'
  BY <1>0, <1>g, <1>48, GateEnds, GateFrame, ApprovalRowType DEF GateInv,
     PendingApprovalHoldsRun, CancelInterrupted, Environment
<1>49. ASSUME Resume PROVE GateInv'
  BY <1>0, <1>g, <1>49, GateFrame DEF GateInv, PendingApprovalHoldsRun, Resume, Engine,
     Spawned, Environment
<1>50. ASSUME Claim PROVE GateInv'
  BY <1>0, <1>g, <1>50 DEF GateInv, PendingApprovalHoldsRun, Claim
<1>51. ASSUME SubmitResult PROVE GateInv'
  BY <1>0, <1>g, <1>51 DEF GateInv, PendingApprovalHoldsRun, SubmitResult
<1>52. ASSUME LeaseExpires PROVE GateInv'
  BY <1>0, <1>g, <1>52 DEF GateInv, PendingApprovalHoldsRun, LeaseExpires
<1>53. ASSUME CloseTerminal PROVE GateInv'
  BY <1>0, <1>g, <1>53 DEF GateInv, PendingApprovalHoldsRun, CloseTerminal, Environment
<1>54. ASSUME Crash PROVE GateInv'
  BY <1>0, <1>g, <1>54 DEF GateInv, PendingApprovalHoldsRun, Crash, Engine, NoEngine,
     Spawned, Environment
<1>55. ASSUME Restart PROVE GateInv'
  BY <1>0, <1>g, <1>55, GateEnds DEF GateInv, PendingApprovalHoldsRun, Restart,
     Environment
<1>56. ASSUME AbortRefused PROVE GateInv'
  BY <1>0, <1>g, <1>56 DEF GateInv, PendingApprovalHoldsRun, AbortRefused, Engine, Goto
<1>e. ASSUME EngineStep PROVE GateInv'
  BY <1>e, <1>1, <1>2, <1>3, <1>4, <1>5, <1>6, <1>7, <1>8, <1>9, <1>10, <1>11, <1>12,
     <1>13, <1>14, <1>15, <1>16, <1>17, <1>18, <1>19, <1>20, <1>21, <1>22, <1>23,
     <1>24, <1>25, <1>26, <1>27, <1>28, <1>29, <1>30, <1>31, <1>32, <1>33, <1>34,
     <1>35, <1>36, <1>37, <1>38, <1>39, <1>40, <1>41, <1>42, <1>56 DEF EngineStep
<1>s. ASSUME UNCHANGED vars PROVE GateInv'
  BY <1>g, <1>s DEF vars, GateInv, PendingApprovalHoldsRun
<1> QED
  BY <1>e, <1>s, <1>43, <1>44, <1>45, <1>46, <1>47, <1>48, <1>49, <1>50, <1>51, <1>52,
     <1>53, <1>54, <1>55 DEF Next, Finished

(* While an approval is pending, the run's row says that it waits for one and
   the attempt has not started: nothing the engine, a late command handler, a
   crash or a resume does separates the three rows. *)
THEOREM GateHeld == Spec => []PendingApprovalHoldsRun
<1>1. TypeInv /\ GateInv => PendingApprovalHoldsRun
  BY DEF GateInv
<1>2. TypeInv /\ GateInv /\ [Next]_vars => TypeInv' /\ GateInv'
  BY TypeStep, GateStep
<1> QED
  BY TypeInit, GateInit, <1>1, <1>2, PTL DEF Spec
=============================================================================
