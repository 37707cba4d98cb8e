---------------------------- MODULE ScheduleLoop ----------------------------
(***************************************************************************)
(* The rows of scheduled actions (scheduled/db.rs) and the loop that looks *)
(* at them (scheduled/scheduler.rs, commit_due_decisions in runner.rs).    *)
(* A hold of the database mutex is one step.  Durations are not modelled:  *)
(* a sleep ends and a deadline passes at any time, so a wake of the loop,  *)
(* which only shortens a sleep, is left out.                               *)
(***************************************************************************)
EXTENDS ScheduleRules, Sequences, FiniteSets

CONSTANTS
    NumActions, MaxRuns,
    Plan,           \* per action: rule, policy, mode, number of steps and
                    \* whether a run continues past a failed one
    MaxClock,       \* the last moment of the wall clock
    MaxEvents       \* what the user does and what befalls the machine, together

ASSUME ScheduleAssumption ==
    /\ NumActions \in Nat \ {0} /\ MaxRuns \in Nat \ {0}
    /\ MaxClock \in Nat /\ MaxEvents \in Nat

Actions == 1..NumActions
Runs == 1..MaxRuns
NoAction == 0
NoRun == 0

(* Validation refuses an interval of zero and an action without steps      *)
(* before it is saved (scheduled/validate.rs).                             *)
ASSUME PlanAssumption ==
    Plan \in [Actions -> [rule : [kind : {"once", "daily", "interval"}, period : Nat \ {0}, at : Nat],
                          policy : {"skip", "catch_up_once"}, mode : {"headless", "tab"},
                          steps : Nat \ {0}, continues : BOOLEAN]]

VARIABLES
    actions,     \* rows of scheduled_actions
    runs,        \* rows of scheduled_runs with their step attempts
    gate,        \* the feature's setting
    clock, zone, \* the machine's wall clock and time zone
    era,         \* counts the reckonings of the wall clock (history): one when
                 \* it is set back, one when the loop notices; a row carries
                 \* the one its next fire was computed in, the loop the one it
                 \* looked in, and a run's occurrence carries both
    torn,        \* the runs whose status a process loss left half written (history)
    loop,        \* the tick loop and what it read
    cancels,     \* per run: "none", or the watch channel's value
    permit,      \* the run that holds the only permit
    tasks,       \* per run: where the task that spawn_run started is
    drivers,     \* per run: where the tab driver of the webview is
    did,         \* per run: the steps that reached a shell (history)
    deleting,    \* the action whose deletion is between its two locks
    events

world == <<clock, zone, era, torn>>
memory == <<cancels, permit, tasks, drivers, did>>
budget == <<deleting, events>>
vars == <<actions, runs, gate, world, loop, memory, budget>>

-----------------------------------------------------------------------------
(* Rows.                                                                   *)

InFlight == {"pending", "awaiting_target", "running"}
Ended == {"succeeded", "failed", "cancelled", "skipped", "interrupted"}
NoRow == [status |-> "absent", action |-> NoAction, trigger |-> "none",
          plan |-> NoAction, occurrence |-> <<>>, attempts |-> <<>>]

IsTab(a) == Plan[a].mode = "tab"
Live == {a \in Actions : actions[a].exists}
Issued == Cardinality({r \in Runs : runs[r].status # "absent"})
Busy(a) == \E r \in Runs : runs[r].action = a /\ runs[r].status \in InFlight
NewRow(a, trigger, status, occurrence) ==
    [status |-> status, action |-> a, trigger |-> trigger, plan |-> a,
     occurrence |-> occurrence, attempts |-> <<>>]
FirstStatus(a) == IF IsTab(a) THEN "awaiting_target" ELSE "pending"

(* An attempt still open when its run ends may have been executed. *)
\* Wrong on purpose: the open attempt stays open.
Unsettled_Not(attempts) == attempts
Unsettled(attempts) ==
    [i \in DOMAIN attempts |-> IF attempts[i] = "running" THEN "unknown" ELSE attempts[i]]

(* A run that left the in-flight states is never written again; the list's *)
(* copy of the status follows the run it points at.  Three statements that *)
(* commit one by one, under one hold of the mutex: only a process loss     *)
(* comes between them (Restart).                                           *)
SetRunStatus(r, status) ==
    IF runs[r].status \notin InFlight THEN UNCHANGED <<runs, actions>>
    ELSE /\ runs' = [runs EXCEPT ![r].status = status,
                        ![r].attempts = IF status \in Ended THEN Unsettled(@) ELSE @]
         /\ actions' = [a \in Actions |->
                IF actions[a].lastRun = r THEN [actions[a] EXCEPT !.lastStatus = status]
                ELSE actions[a]]

SetAttempt(r, i, status) == runs' = [runs EXCEPT ![r].attempts[i] = status]
InsertAttempt(r, status) == runs' = [runs EXCEPT ![r].attempts = Append(@, status)]
\* Wrong on purpose: every step is recorded as skipped, also those that ran.
SkipRest_All(r, attempts) ==
    attempts \o [i \in 1..Plan[runs[r].plan].steps |-> "skipped"]
SkipRest(r, attempts) ==
    attempts \o [i \in 1..(Plan[runs[r].plan].steps - Len(attempts)) |-> "skipped"]

\* Wrong on purpose: only a failure counts against the run.
Settled_NotFailed(status) == status # "failed"
Settled(status) == status \in {"succeeded", "skipped"}
Blocks(a, status) == ~Settled(status) /\ ~Plan[a].continues

Init ==
    /\ actions = [a \in Actions |->
          [exists |-> TRUE, enabled |-> TRUE, anchor |-> NoTime, zone |-> 0,
           next |-> NextFireAfter(Plan[a].rule, NoTime, 0, 0),
           lastRun |-> NoRun, lastStatus |-> "none", era |-> 0]]
    /\ runs = [r \in Runs |-> NoRow]
    /\ gate = TRUE /\ clock = 0 /\ zone = 0 /\ era = 0 /\ torn = {}
    /\ loop = [pc |-> "top", running |-> TRUE, now |-> 0, era |-> 0, last |-> NoTime]
    /\ cancels = [r \in Runs |-> "none"] /\ permit = NoRun
    /\ tasks = [r \in Runs |-> "none"] /\ drivers = [r \in Runs |-> "none"]
    /\ did = [r \in Runs |-> {}]
    /\ deleting = NoAction /\ events = 0

-----------------------------------------------------------------------------
(* The loop.                                                               *)

(* The guard is swapped before the loop is spawned, and a start that finds *)
(* it set only wakes the loop that is there.                               *)
StartIfEnabled(open) ==
    loop' = IF open /\ ~loop.running THEN [loop EXCEPT !.running = TRUE, !.pc = "top"]
            ELSE loop

LoopTop ==
    /\ loop.pc = "top"
    /\ loop' = IF ~gate THEN [loop EXCEPT !.pc = "leaving"]
               ELSE [loop EXCEPT !.now = clock, !.era = era, !.last = clock,
                        !.pc = IF clock < loop.last THEN "rescheduling" ELSE "deciding"]
    /\ UNCHANGED <<actions, runs, gate, world, memory, budget>>

(* tick_loop has returned; the flag is cleared a moment later. *)
LoopLeave ==
    /\ loop.pc = "leaving"
    /\ loop' = [loop EXCEPT !.pc = "off", !.running = FALSE]
    /\ UNCHANGED <<actions, runs, gate, world, memory, budget>>

RescheduleAll ==
    /\ loop.pc = "rescheduling"
    /\ actions' = [a \in Actions |->
          IF a \notin Live \/ ~actions[a].enabled THEN actions[a]
          ELSE [actions[a] EXCEPT !.era = era + 1, !.next =
                   NextFireAfter(Plan[a].rule, actions[a].anchor, zone, loop.now)]]
    /\ era' = era + 1
    /\ loop' = [loop EXCEPT !.pc = "spawning"]
    /\ UNCHANGED <<runs, gate, clock, zone, torn, memory, budget>>

(* What one decision commits to the action's row; `r` is the run it        *)
(* inserts.  An overlap skip must not take the projection from the run     *)
(* that is still going, and a one-off with no next fire disables itself.   *)
\* Wrong on purpose: the row keeps the moment that has just been decided.
Rolled_NotRolled(a, d, r, status) ==
    IF d.kind = "skip" /\ Busy(a) THEN actions[a]
    ELSE [actions[a] EXCEPT !.lastRun = r, !.lastStatus = status]
\* Wrong on purpose: an overlap skip takes the list's pointer.
Rolled_Overlap(a, d, r, status) ==
    [actions[a] EXCEPT !.next = d.next, !.era = loop.era, !.lastRun = r, !.lastStatus = status,
        !.anchor = IF d.kind = "fire" THEN d.anchor ELSE @]
Rolled(a, d, r, status) ==
    LET row == actions[a]
        rolled == [row EXCEPT !.next = d.next, !.era = loop.era,
                       !.anchor = IF d.kind = "fire" THEN d.anchor ELSE @,
                       !.enabled = IF Plan[a].rule.kind = "once" /\ d.next = NoTime
                                   THEN FALSE ELSE @]
    IN  IF d.kind = "skip" /\ Busy(a) THEN rolled
        ELSE [rolled EXCEPT !.lastRun = r, !.lastStatus = status]

(* One pass over the enabled actions under one hold of the mutex.  Which   *)
(* fires are refused depends on rows this model leaves out (a host's       *)
(* credentials, the armed fingerprint, the tab setting); `settled` is      *)
(* whether the application has been up long enough to catch up.            *)
Decide ==
    /\ loop.pc = "deciding"
    /\ \E settled \in BOOLEAN :
       LET decision == [a \in Actions |->
               IF a \notin Live THEN Nothing
               ELSE EvaluateDue(actions[a], Plan[a], loop.now, zone, Busy(a), settled)]
           recorded == {a \in Actions : decision[a].kind \in {"skip", "fire"}}
           RunOf(a) == Issued + Cardinality({b \in recorded : b <= a})
       IN  /\ Issued + Cardinality(recorded) <= MaxRuns
           /\ \E refused \in SUBSET {a \in recorded : decision[a].kind = "fire"} :
                LET fired == {a \in recorded : decision[a].kind = "fire"} \ refused
                    status == [a \in Actions |->
                                 IF a \in fired THEN FirstStatus(a) ELSE "skipped"]
                    trigger == [a \in Actions |->
                                 IF decision[a].kind = "fire" THEN decision[a].trigger
                                 ELSE "schedule"]
                IN  /\ actions' = [a \in Actions |->
                          IF a \in recorded THEN Rolled(a, decision[a], RunOf(a), status[a])
                          ELSE IF decision[a].kind = "reschedule"
                          THEN [actions[a] EXCEPT !.next = decision[a].next, !.zone = zone,
                                                     !.era = loop.era]
                          ELSE actions[a]]
                    /\ runs' = [r \in Runs |->
                          IF \E a \in recorded : RunOf(a) = r
                          THEN LET a == CHOOSE b \in recorded : RunOf(b) = r
                               IN  NewRow(a, trigger[a], status[a],
                                          <<a, decision[a].slot, actions[a].era, loop.era>>)
                          ELSE runs[r]]
                    /\ tasks' = [r \in Runs |->
                          IF \E a \in fired : RunOf(a) = r THEN "committed" ELSE tasks[r]]
    /\ loop' = [loop EXCEPT !.pc = "spawning"]
    /\ UNCHANGED <<gate, world, cancels, permit, drivers, did, budget>>

(* The loop sleeps once it has spawned what it committed; the sleep ends   *)
(* by itself within a minute.                                              *)
LoopTurn ==
    /\ loop.pc = "spawning"
    /\ \A r \in Runs : tasks[r] = "committed" => runs[r].trigger = "manual"
    /\ loop' = [loop EXCEPT !.pc = "top", !.now = 0, !.era = 0]
    /\ UNCHANGED <<actions, runs, gate, world, memory, budget>>
=============================================================================
