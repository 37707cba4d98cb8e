--------------------------- MODULE ScheduledRuns ---------------------------
(***************************************************************************)
(* A scheduled run from its commit to its end: the task spawn_run starts   *)
(* and the one permit the tasks queue for (scheduled/runner.rs), the       *)
(* headless engine (scheduled/engine.rs), the watchdog of a run in a tab,  *)
(* the tab driver (src/hooks/useScheduledActions.ts) with the commands it  *)
(* issues (commands/scheduled.rs), the user's commands, and a restart.     *)
(***************************************************************************)
EXTENDS ScheduleLoop

TaskAt(r, at) == tasks[r] = at
TaskTo(r, at) == tasks' = [tasks EXCEPT ![r] = at]
DriverAt(r, at) == drivers[r] = at
DriverTo(r, at) == drivers' = [drivers EXCEPT ![r] = at]
Cancelled(r) == cancels[r] = "sent"
PlanOf(r) == runs[r].plan   \* frozen at the commit, whatever the action becomes
LastAttempt(r) == Len(runs[r].attempts)
StepsOf(r) == 1..Plan[PlanOf(r)].steps
WalkedAll(r) == DOMAIN runs[r].attempts = StepsOf(r)
AllSettled(r) == \A i \in StepsOf(r) : Settled(runs[r].attempts[i])

-----------------------------------------------------------------------------
(* The task of a run.                                                      *)

(* Registered before it queues, so that a queued run can be cancelled.     *)
Spawn(r) ==
    /\ TaskAt(r, "committed")
    /\ cancels' = [cancels EXCEPT ![r] = "armed"]
    /\ TaskTo(r, "queued")
    /\ UNCHANGED <<actions, runs, gate, world, loop, permit, drivers, did, budget>>

(* A cancelled run leaves the queue; with the gate closed it starts        *)
(* nothing.  Either way the permit is not its own any more.                *)
TurnAway(r) ==
    /\ TaskAt(r, "queued")
    /\ Cancelled(r) \/ (permit = NoRun /\ ~gate)
    /\ SetRunStatus(r, "cancelled")
    /\ TaskTo(r, "releasing")
    /\ UNCHANGED <<gate, world, loop, cancels, permit, drivers, did, budget>>

(* With the permit a run in a tab raises its fire event, which is lost     *)
(* when no webview listens.                                                *)
Admit(r) ==
    /\ TaskAt(r, "queued") /\ permit = NoRun /\ gate /\ ~Cancelled(r)
    /\ permit' = r
    /\ IF IsTab(PlanOf(r))
       THEN /\ TaskTo(r, "watching")
            /\ \E heard \in BOOLEAN : DriverTo(r, IF heard THEN "fired" ELSE "none")
       ELSE TaskTo(r, "starting") /\ UNCHANGED drivers
    /\ UNCHANGED <<actions, runs, gate, world, loop, cancels, did, budget>>

(* A host or directory that is gone fails the run after it is marked       *)
(* running.                                                                *)
Start(r) ==
    /\ TaskAt(r, "starting")
    /\ SetRunStatus(r, "running")
    /\ \E found \in BOOLEAN : TaskTo(r, IF found THEN "walking" ELSE "failing")
    /\ UNCHANGED <<gate, world, loop, cancels, permit, drivers, did, budget>>

(* The next step, in order: stop if cancelled, stop at the deadline, else  *)
(* write the intent before anything is dispatched.                         *)
NextStep(r) ==
    /\ TaskAt(r, "walking")
    /\ ~WalkedAll(r)
    /\ IF Cancelled(r) THEN TaskTo(r, "cancelling") /\ UNCHANGED runs
       ELSE \/ InsertAttempt(r, "running") /\ TaskTo(r, "dispatching")
            \/ /\ runs' = [runs EXCEPT ![r].attempts = SkipRest(r, @)]
               /\ TaskTo(r, "failing")
    /\ UNCHANGED <<actions, gate, world, loop, cancels, permit, drivers, did, budget>>

(* A saved deny rule or a spent budget keeps the step from its shell.      *)
Dispatch(r) ==
    /\ TaskAt(r, "dispatching") /\ ~Cancelled(r)
    /\ did' = [did EXCEPT ![r] = @ \cup {LastAttempt(r)}]
    /\ TaskTo(r, "executing")
    /\ UNCHANGED <<actions, runs, gate, world, loop, cancels, permit, drivers, budget>>

(* The step's outcome and what it does to the run: a cancel and the        *)
(* deadline both wait for the executor to come back.                       *)
StepEnds(r) ==
    \E outcome \in {"succeeded", "failed", "blocked", "cancelled", "time_budget"} :
        LET i == LastAttempt(r)
            status == IF outcome = "time_budget" THEN "failed" ELSE outcome
        IN  /\ \/ TaskAt(r, "executing") /\ outcome # "blocked"
               \/ TaskAt(r, "dispatching") /\ outcome \in {"blocked", "cancelled", "time_budget"}
            /\ outcome = "cancelled" => Cancelled(r)
            /\ LET settledRow == [runs[r].attempts EXCEPT ![i] = status]
                   stops == \/ outcome = "time_budget"
                            \/ outcome # "cancelled" /\ Blocks(PlanOf(r), status)
               IN  /\ runs' = [runs EXCEPT ![r].attempts =
                                  IF stops THEN SkipRest(r, settledRow) ELSE settledRow]
                   /\ TaskTo(r, IF outcome = "cancelled" THEN "cancelling"
                                ELSE IF stops THEN "failing" ELSE "walking")
            /\ UNCHANGED <<actions, gate, world, loop, cancels, permit, drivers, did, budget>>

(* finish_run with what the walk came to, then the cancel handle and the   *)
(* permit are given back.                                                  *)
Finish(r) ==
    /\ \/ /\ TaskAt(r, "walking") /\ WalkedAll(r)
          /\ SetRunStatus(r, IF AllSettled(r) THEN "succeeded" ELSE "failed")
       \/ TaskAt(r, "failing") /\ SetRunStatus(r, "failed")
       \/ TaskAt(r, "cancelling") /\ SetRunStatus(r, "cancelled")
    /\ TaskTo(r, "releasing")
    /\ UNCHANGED <<gate, world, loop, cancels, permit, drivers, did, budget>>

\* Wrong on purpose: whoever comes back gives the permit back, his or not.
Release_Anyones(r) ==
    /\ TaskAt(r, "releasing")
    /\ cancels' = [cancels EXCEPT ![r] = "none"]
    /\ permit' = NoRun
    /\ TaskTo(r, "done")
    /\ UNCHANGED <<actions, runs, gate, world, loop, drivers, did, budget>>

Release(r) ==
    /\ TaskAt(r, "releasing")
    /\ cancels' = [cancels EXCEPT ![r] = "none"]
    /\ permit' = IF permit = r THEN NoRun ELSE permit
    /\ TaskTo(r, "done")
    /\ UNCHANGED <<actions, runs, gate, world, loop, drivers, did, budget>>

(* The watchdog of a run in a tab looks every two seconds: a cancel, the   *)
(* attach deadline, the run deadline, or somebody else ended the run.      *)
WatchCancel(r) ==
    /\ TaskAt(r, "watching") /\ Cancelled(r)
    /\ SetRunStatus(r, "cancelled") /\ TaskTo(r, "releasing")
    /\ UNCHANGED <<gate, world, loop, cancels, permit, drivers, did, budget>>

\* Wrong on purpose: a run that was never attached has no deadline.
WatchDeadline_Attached(r) ==
    /\ TaskAt(r, "watching") /\ ~Cancelled(r) /\ runs[r].status = "running"
    /\ SetRunStatus(r, "failed") /\ TaskTo(r, "releasing")
    /\ UNCHANGED <<gate, world, loop, cancels, permit, drivers, did, budget>>

WatchDeadline(r) ==
    /\ TaskAt(r, "watching") /\ ~Cancelled(r)
    /\ runs[r].status \in {"awaiting_target", "running"}
    /\ SetRunStatus(r, "failed") /\ TaskTo(r, "releasing")
    /\ UNCHANGED <<gate, world, loop, cancels, permit, drivers, did, budget>>

WatchEnded(r) ==
    /\ TaskAt(r, "watching") /\ ~Cancelled(r)
    /\ runs[r].status \notin {"awaiting_target", "running"}
    /\ TaskTo(r, "releasing")
    /\ UNCHANGED <<actions, runs, gate, world, loop, cancels, permit, drivers, did, budget>>

-----------------------------------------------------------------------------
(* The tab driver.  A closed gate refuses every command it issues.         *)

Active(r) == gate /\ ~Cancelled(r) /\ runs[r].status = "running"

(* Opening the tab may fail, and attaching is refused unless the run still *)
(* waits for a terminal.                                                   *)
Attach(r) ==
    /\ DriverAt(r, "fired")
    /\ \/ /\ gate /\ ~Cancelled(r) /\ runs[r].status = "awaiting_target"
          /\ SetRunStatus(r, "running") /\ DriverTo(r, "ready")
       \/ DriverTo(r, "report_failed") /\ UNCHANGED <<runs, actions>>
    /\ UNCHANGED <<gate, world, loop, cancels, permit, tasks, did, budget>>

(* Only the next step is leased, once those before it have settled.        *)
StepBegin(r) ==
    /\ DriverAt(r, "ready")
    /\ IF WalkedAll(r)
       THEN /\ DriverTo(r, IF AllSettled(r) THEN "report_succeeded" ELSE "report_failed")
            /\ UNCHANGED runs
       ELSE IF Active(r) THEN InsertAttempt(r, "running") /\ DriverTo(r, "leased")
       ELSE /\ \E report \in {"report_cancelled", "report_failed"} : DriverTo(r, report)
            /\ UNCHANGED runs
    /\ UNCHANGED <<actions, gate, world, loop, cancels, permit, tasks, did, budget>>

(* The driver asks once more, and types when the answer is there: what     *)
(* ends the run in between is heard of too late.                           *)
AskBack(r) ==
    /\ DriverAt(r, "leased") /\ Active(r)
    /\ DriverTo(r, "cleared")
    /\ UNCHANGED <<actions, runs, gate, world, loop, cancels, permit, tasks, did, budget>>

TypeStep(r) ==
    /\ DriverAt(r, "cleared")
    /\ did' = [did EXCEPT ![r] = @ \cup {LastAttempt(r)}]
    /\ DriverTo(r, "typing")
    /\ UNCHANGED <<actions, runs, gate, world, loop, cancels, permit, tasks, budget>>

(* A result is taken only for an attempt that is still open in a run that  *)
(* is.  The driver then asks whether it may go on.                         *)
StepFinish(r) ==
    \E result \in {"succeeded", "failed", "unknown", "cancelled"} :
        LET i == LastAttempt(r)
            taken == gate /\ runs[r].status \in InFlight /\ runs[r].attempts[i] = "running"
        IN  /\ \/ DriverAt(r, "typing") /\ result # "cancelled"
               \/ drivers[r] \in {"leased", "cleared"} /\ result \in {"failed", "cancelled"}
            /\ result = "cancelled" => ~Active(r)
            /\ IF taken THEN SetAttempt(r, i, result) ELSE UNCHANGED runs
            /\ DriverTo(r, IF ~Active(r) THEN "report_cancelled"
                           ELSE IF Blocks(PlanOf(r), result) THEN "report_failed" ELSE "ready")
            /\ UNCHANGED <<actions, gate, world, loop, cancels, permit, tasks, did, budget>>

(* scheduled_run_finish: a cancel overrides what the driver reports, then  *)
(* the status is written and the cancel handle is dropped.                 *)
Verdicts == [report_succeeded |-> "succeeded", report_failed |-> "failed",
             report_cancelled |-> "cancelled"]

ReportVerdict(r) ==
    /\ drivers[r] \in DOMAIN Verdicts
    /\ DriverTo(r, IF ~gate THEN "none"
                   ELSE IF Cancelled(r) THEN "cancelled" ELSE Verdicts[drivers[r]])
    /\ UNCHANGED <<actions, runs, gate, world, loop, cancels, permit, tasks, did, budget>>

WriteVerdict(r) ==
    /\ drivers[r] \in Ended
    /\ SetRunStatus(r, drivers[r])
    /\ cancels' = [cancels EXCEPT ![r] = "none"]
    /\ DriverTo(r, "none")
    /\ UNCHANGED <<gate, world, loop, permit, tasks, did, budget>>

-----------------------------------------------------------------------------
(* The user's commands.                                                    *)

Event == events < MaxEvents /\ events' = events + 1
Command == gate /\ Event

(* Switching the feature off cancels every registered run; switching it on *)
(* starts the loop unless one is still counted as running; only the first  *)
(* counts as an event.                                                     *)
SwitchOff ==
    /\ gate /\ gate' = FALSE /\ Event
    /\ cancels' = [r \in Runs |-> IF cancels[r] = "armed" THEN "sent" ELSE cancels[r]]
    /\ UNCHANGED <<actions, runs, world, loop, permit, tasks, drivers, did, deleting>>

SwitchOn ==
    /\ ~gate /\ gate' = TRUE
    /\ StartIfEnabled(TRUE)
    /\ UNCHANGED <<actions, runs, world, memory, budget>>

(* Saving recomputes from now: no action fires on the first sight of a rule. *)
SaveAction(a) ==
    /\ Command /\ a \in Live
    /\ \E enabled \in BOOLEAN :
          actions' = [actions EXCEPT ![a].enabled = enabled, ![a].zone = zone, ![a].era = era,
              ![a].next = IF enabled THEN NextFireAfter(Plan[a].rule, actions[a].anchor, zone, clock)
                          ELSE NoTime]
    /\ StartIfEnabled(gate)
    /\ UNCHANGED <<runs, gate, world, memory, deleting>>

SetEnabled(a) ==
    /\ Command /\ a \in Live
    /\ \E enabled \in BOOLEAN :
          actions' = [actions EXCEPT ![a].enabled = enabled, ![a].era = era,
              ![a].next = IF enabled THEN NextFireAfter(Plan[a].rule, NoTime, zone, clock)
                          ELSE NoTime]
    /\ UNCHANGED <<runs, gate, world, loop, memory, deleting>>

(* An occurrence is not consumed; a second run in flight is refused by the *)
(* unique index.                                                           *)
RunNow(a) ==
    /\ Command /\ a \in Live /\ ~Busy(a) /\ Issued < MaxRuns
    /\ LET r == Issued + 1
       IN  /\ runs' = [runs EXCEPT ![r] = NewRow(a, "manual", FirstStatus(a), <<>>)]
           /\ actions' = [actions EXCEPT ![a].lastRun = r, ![a].lastStatus = FirstStatus(a),
                  ![a].enabled = IF Plan[a].rule.kind = "once" /\ actions[a].next = NoTime
                                 THEN FALSE ELSE @]
           /\ TaskTo(r, "committed")
    /\ UNCHANGED <<gate, world, loop, cancels, permit, drivers, did, deleting>>

CancelRun(r) ==
    /\ Command /\ cancels[r] = "armed"
    /\ cancels' = [cancels EXCEPT ![r] = "sent"]
    /\ UNCHANGED <<actions, runs, gate, world, loop, permit, tasks, drivers, did, deleting>>

(* The lock is released between cancelling the action's runs and deleting  *)
(* its row, which leaves the runs behind without an owner.                 *)
DeleteCancel(a) ==
    /\ Command /\ a \in Live /\ deleting = NoAction
    /\ cancels' = [r \in Runs |->
          IF runs[r].action = a /\ runs[r].status \in InFlight /\ cancels[r] = "armed"
          THEN "sent" ELSE cancels[r]]
    /\ deleting' = a
    /\ UNCHANGED <<actions, runs, gate, world, loop, permit, tasks, drivers, did>>

DeleteRow(a) ==
    /\ deleting = a /\ deleting' = NoAction
    /\ actions' = [actions EXCEPT ![a] = [@ EXCEPT !.exists = FALSE, !.enabled = FALSE,
          !.next = NoTime, !.anchor = NoTime, !.lastRun = NoRun, !.lastStatus = "none"]]
    /\ runs' = [r \in Runs |-> IF runs[r].action = a THEN [runs[r] EXCEPT !.action = NoAction]
                               ELSE runs[r]]
    /\ UNCHANGED <<gate, world, loop, memory, events>>

(* The panel offers the deletion of a run, and pruning, once it has ended. *)
DeleteRun(r) ==
    /\ Command /\ runs[r].status \in Ended
    /\ runs' = [runs EXCEPT ![r] =
          [NoRow EXCEPT !.status = "deleted", !.plan = PlanOf(r),
                        !.occurrence = runs[r].occurrence]]
    /\ UNCHANGED <<actions, gate, world, loop, memory, deleting>>

-----------------------------------------------------------------------------
(* The world.                                                              *)

(* The clock may be set back while the loop decides; letting it advance    *)
(* there too would only make the reading a little staler.                  *)
Advance ==
    /\ clock < MaxClock /\ clock' = clock + 1
    /\ loop.pc \in {"top", "off"}
    /\ UNCHANGED <<actions, runs, gate, zone, era, torn, loop, memory, budget>>

SetClockBack ==
    /\ Event
    /\ \E t \in 0..MaxClock : t < clock /\ clock' = t
    /\ era' = era + 1
    /\ UNCHANGED <<actions, runs, gate, zone, torn, loop, memory, deleting>>

MoveZone ==
    /\ Event
    /\ zone' = 1 - zone
    /\ UNCHANGED <<actions, runs, gate, clock, era, torn, loop, memory, deleting>>

(* A reload takes the drivers with it; nothing resumes a run in a tab.     *)
ReloadWebview ==
    /\ Event
    /\ \E r \in Runs : drivers[r] # "none"
    /\ drivers' = [r \in Runs |-> "none"]
    /\ UNCHANGED <<actions, runs, gate, world, loop, cancels, permit, tasks, did, deleting>>

(* The verdict that an open run's task or its tab is about to write. *)
Ending(r) ==
    {status \in Ended :
        /\ runs[r].status \in InFlight
        /\ \/ /\ status = "cancelled"
              /\ \/ TaskAt(r, "queued") /\ (Cancelled(r) \/ (permit = NoRun /\ ~gate))
                 \/ TaskAt(r, "cancelling") \/ (TaskAt(r, "watching") /\ Cancelled(r))
           \/ /\ status = "failed"
              /\ TaskAt(r, "failing") \/ (TaskAt(r, "watching") /\ ~Cancelled(r))
           \/ /\ TaskAt(r, "walking") /\ WalkedAll(r)
              /\ status = IF AllSettled(r) THEN "succeeded" ELSE "failed"
           \/ drivers[r] = status}

(* The rows as the next process finds them: the last write of a status may *)
(* have ended after its first statement, or after its second.              *)
CutShort(r, status, settled) ==
    [runs EXCEPT ![r].status = status,
                 ![r].attempts = IF settled THEN Unsettled(@) ELSE @]
RowsFound ==
    {runs} \cup UNION {{CutShort(r, status, settled) : status \in Ending(r), settled \in BOOLEAN} :
                          r \in Runs}

(* The process is lost and starts again: whatever is found in flight is    *)
(* interrupted when the database opens, then the loop starts.  A run found *)
(* ended is not looked at, whatever its list entry and its attempts say.   *)
Restart ==
    /\ Event
    /\ \E found \in RowsFound :
          /\ torn' = torn \cup {r \in Runs : found[r].status # runs[r].status}
          /\ runs' = [r \in Runs |->
                IF found[r].status \in InFlight
                THEN [found[r] EXCEPT !.status = "interrupted", !.attempts = Unsettled(@)]
                ELSE found[r]]
    /\ actions' = [a \in Actions |->
          IF \E r \in Runs : actions[a].lastRun = r /\ runs'[r].status = "interrupted"
                               /\ actions[a].lastStatus \in InFlight
          THEN [actions[a] EXCEPT !.lastStatus = "interrupted"] ELSE actions[a]]
    /\ loop' = [pc |-> IF gate THEN "top" ELSE "off", running |-> gate,
                now |-> 0, era |-> era, last |-> NoTime]
    /\ cancels' = [r \in Runs |-> "none"] /\ permit' = NoRun
    /\ tasks' = [r \in Runs |-> IF tasks[r] = "none" THEN "none" ELSE "done"]
    /\ drivers' = [r \in Runs |-> "none"]
    /\ deleting' = NoAction
    /\ UNCHANGED <<gate, clock, zone, era, did>>

-----------------------------------------------------------------------------
TaskStep(r) ==
    \/ Spawn(r) \/ TurnAway(r) \/ Admit(r) \/ Start(r) \/ NextStep(r)
    \/ Dispatch(r) \/ StepEnds(r) \/ Finish(r) \/ Release(r)
    \/ WatchCancel(r) \/ WatchDeadline(r) \/ WatchEnded(r)

DriverStep(r) ==
    \/ Attach(r) \/ StepBegin(r) \/ AskBack(r) \/ TypeStep(r) \/ StepFinish(r)
    \/ ReportVerdict(r) \/ WriteVerdict(r)

LoopStep == LoopTop \/ LoopLeave \/ RescheduleAll \/ Decide \/ LoopTurn

UserStep ==
    \/ SwitchOff \/ SwitchOn
    \/ \E a \in Actions : SaveAction(a) \/ SetEnabled(a) \/ RunNow(a)
                          \/ DeleteCancel(a) \/ DeleteRow(a)
    \/ \E r \in Runs : CancelRun(r) \/ DeleteRun(r)

WorldStep == Advance \/ SetClockBack \/ MoveZone \/ ReloadWebview \/ Restart

Next == LoopStep \/ UserStep \/ WorldStep \/ \E r \in Runs : TaskStep(r) \/ DriverStep(r)

Spec == Init /\ [][Next]_vars

(* The runtime runs the loop and every task, and every wait of a task has  *)
(* a deadline; nothing is asked of the user or of the webview.             *)
Fairness == /\ WF_vars(LoopStep)
            /\ \A r \in Runs : WF_vars(TaskStep(r))

FairSpec == Spec /\ Fairness
=============================================================================
