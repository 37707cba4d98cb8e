------------------------ MODULE ScheduledProperties ------------------------
(* What scheduled actions must guarantee. *)
EXTENDS ScheduledRuns

TaskStates ==
    {"none", "committed", "queued", "starting", "walking", "dispatching", "executing",
     "failing", "cancelling", "watching", "releasing", "done"}
DriverStates ==
    {"none", "fired", "ready", "leased", "cleared", "typing"} \cup DOMAIN Verdicts
        \cup {"succeeded", "failed", "cancelled"}
AttemptStates == {"running", "succeeded", "failed", "blocked", "cancelled", "skipped", "unknown"}

(* Every row and every piece of memory has its type. *)
TypeOK ==
    /\ \A a \in Actions :
          /\ actions[a].enabled \in BOOLEAN /\ actions[a].exists \in BOOLEAN
          /\ actions[a].next \in Int /\ actions[a].anchor \in Int
          /\ actions[a].zone \in Zones /\ actions[a].lastRun \in Runs \cup {NoRun}
    /\ \A r \in Runs :
          /\ runs[r].status \in InFlight \cup Ended \cup {"absent", "deleted"}
          /\ runs[r].action \in Actions \cup {NoAction}
          /\ runs[r].plan # NoAction => DOMAIN runs[r].attempts \subseteq StepsOf(r)
          /\ \A i \in DOMAIN runs[r].attempts : runs[r].attempts[i] \in AttemptStates
          /\ tasks[r] \in TaskStates /\ drivers[r] \in DriverStates
          /\ cancels[r] \in {"none", "armed", "sent"} /\ did[r] \subseteq Nat
    /\ permit \in Runs \cup {NoRun} /\ torn \subseteq Runs
    /\ gate \in BOOLEAN /\ loop.running \in BOOLEAN

(* The list agrees with the run it points at, and it points at the run     *)
(* that is going, across late verdicts, overlap skips and restarts; only a *)
(* process lost inside the write of a verdict leaves it behind             *)
(* (set_run_status, commit_run and interrupt_active_runs in                *)
(* scheduled/db.rs).                                                       *)
ListAgreesWithRun ==
    \A a \in Live :
        LET r == actions[a].lastRun
        IN  /\ r # NoRun /\ r \notin torn /\ runs[r].status # "deleted" =>
                  actions[a].lastStatus = runs[r].status
            /\ \A s \in Runs :
                  runs[s].action = a /\ runs[s].status \in InFlight =>
                      r = s /\ actions[a].lastStatus = runs[s].status

(* A step that reached a shell is on the run's record as something that    *)
(* may have happened, whoever ended the run and whenever the process was   *)
(* lost: its intent is written first and never decays to skipped or        *)
(* blocked, and it is settled when the run ends, unless the process was    *)
(* lost inside the write of the verdict.                                   *)
ExecutedIsOnRecord ==
    \A r \in Runs : \A i \in did[r] :
        runs[r].status # "deleted" =>
            /\ i \in DOMAIN runs[r].attempts
            /\ runs[r].attempts[i] \notin {"skipped", "blocked"}
            /\ runs[r].status \in Ended /\ r \notin torn => runs[r].attempts[i] # "running"

(* A run is recorded as succeeded only when every step of its plan reached *)
(* a shell and succeeded, headless or in a tab.                            *)
SuccessIsWhole ==
    \A r \in Runs : runs[r].status = "succeeded" =>
        /\ did[r] = StepsOf(r)
        /\ \A i \in StepsOf(r) : runs[r].attempts[i] = "succeeded"

(* Steps of different runs are never under way together in the engine, nor *)
(* attached in tabs: whoever is marked running holds the only permit.      *)
RunningHoldsPermit ==
    \A r \in Runs : runs[r].status = "running" => permit = r

(* Every run that holds its action's slot lets go of it: no crash, reload, *)
(* lost event or hung tab blocks an action for good.                       *)
SlotIsFreed ==
    \A r \in Runs : (runs[r].status \in InFlight) ~> (runs[r].status \notin InFlight)

(* "Start the tick loop if the feature is on and it is not already running *)
(* ... Called from setup and again from save_settings when the flag flips" *)
(* (scheduled/scheduler.rs:344): while the application is up with the      *)
(* feature on, there is a loop.  The code does not keep it: the flag still *)
(* says running when the old loop has decided to leave.                    *)
SchedulerRunsWhileOn == gate => loop.pc # "off"

Contract == INSTANCE ScheduleContract WITH
    NoOwner <- NoAction,
    ledger <- [r \in Runs |->
        [phase |-> IF runs[r].status \in InFlight THEN "open"
                   ELSE IF runs[r].status \in Ended THEN "closed"
                   ELSE IF runs[r].status = "deleted" THEN "erased" ELSE "absent",
         verdict |-> runs[r].status, owner |-> runs[r].action,
         occurrence |-> runs[r].occurrence]]

(* Loop, queue, tabs, restarts and clock changes together account for each *)
(* occurrence at most once, keep one open run per action and never reopen  *)
(* or rewrite an ended run.                                                *)
KeepsContract == Contract!Spec
=============================================================================
