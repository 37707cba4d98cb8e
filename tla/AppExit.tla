------------------------------ MODULE AppExit ------------------------------
(***************************************************************************)
(* Leaving the application: the quit coordinator and its watchdog          *)
(* (app_exit.rs), the webview's persistence barrier (sessionPersistence.ts *)
(* and appUpdates.ts), the updater's restart (commands/updates.rs), and    *)
(* the exits the platform imposes (lib.rs).  The phase never returns to    *)
(* Running, so that there is one quit ticket and one watchdog.             *)
(*                                                                         *)
(* The Unix of this module is macOS: only there does the run loop's Exit   *)
(* event clean up, and a requested exit become a hard one.                 *)
(***************************************************************************)
EXTENDS PtySessions

CONSTANT MaxEvents  \* gestures and misfortunes that are not part of a quit

VARIABLES
    phase,     \* of the coordinator
    cleaners,  \* per path that cleans up: where it is and at which attempt
    owner,     \* who holds the cleanup mutex
    wv,        \* the webview: its quit and update flows and its barrier
    marker,    \* on disk: "running", or who marked the workspace clean
    passed,    \* the barrier was passed in this process (history)
    exit,      \* "no", "requested" of the event loop, or "gone"
    events

exitVars == <<phase, cleaners, owner, wv, marker, passed, exit, events>>
vars == <<ptyVars, exitVars>>

Cleaners == {"commit", "force", "watchdog", "restart", "exit"}
Nobody == "nobody"
Exiting == {"exitingClean", "exitingUnclean"}

Init ==
    /\ PtyInit
    /\ phase = "running" /\ owner = Nobody
    /\ cleaners = [c \in Cleaners |-> [pc |-> "idle", attempt |-> 1]]
    /\ wv = [alive |-> TRUE, quit |-> "idle", update |-> "idle", prepared |-> FALSE]
    /\ marker = "running" /\ passed = FALSE /\ exit = "no" /\ events = 0

Up == exit # "gone"
CleanerTo(c, pc) == cleaners' = [cleaners EXCEPT ![c] = [pc |-> pc, attempt |-> 1]]
Event == events < MaxEvents /\ events' = events + 1

-----------------------------------------------------------------------------
(* The coordinator.                                                        *)

(* force_unclean, and the cleanup that follows when it says so: a forced   *)
(* exit may be asked for again, a clean one is not taken back.             *)
Forced(c) ==
    IF phase = "exitingClean" THEN UNCHANGED <<phase, cleaners>>
    ELSE /\ phase' = "exitingUnclean"
         /\ IF cleaners[c].pc = "idle" THEN CleanerTo(c, "lock") ELSE UNCHANGED cleaners

(* Until the process is exiting every request is announced to the webview; *)
(* when it is not there the quit is forced at once.                        *)
RequestQuit ==
    /\ phase \notin Exiting
    /\ IF wv.alive
       THEN /\ phase' = IF phase = "running" THEN "preparing" ELSE phase
            /\ wv' = IF wv.quit = "idle" THEN [wv EXCEPT !.quit = "preparing"] ELSE wv
            /\ UNCHANGED cleaners
       ELSE Forced("force") /\ UNCHANGED wv
    /\ UNCHANGED <<ptyVars, owner, marker, passed, exit, events>>

(* Armed by the first request; it forces whatever is not a clean exit.     *)
WatchdogFires ==
    /\ phase \notin {"running", "exitingClean"} /\ cleaners["watchdog"].pc = "idle"
    /\ Forced("watchdog")
    /\ UNCHANGED <<ptyVars, owner, wv, marker, passed, exit, events>>

-----------------------------------------------------------------------------
(* The cleanup, one path at a time; the run loop's own Exit event does not *)
(* take the mutex.                                                         *)

LockCleanup(c) ==
    /\ cleaners[c].pc = "lock" /\ (owner = Nobody \/ c = "exit")
    /\ owner' = IF c = "exit" THEN owner ELSE c
    /\ accepting' = FALSE
    /\ CleanerTo(c, "drain")
    /\ UNCHANGED <<unix, pty, failures, phase, wv, marker, passed, exit, events>>

(* kill_all_verified waits for every spawn, then takes the whole map.      *)
DrainSessions(c) ==
    /\ cleaners[c].pc = "drain" /\ InFlight = {}
    /\ pty' = [p \in Procs |-> IF p \in Mapped THEN [pty[p] EXCEPT !.at = "drained", !.by = c]
                               ELSE pty[p]]
    /\ cleaners' = [cleaners EXCEPT ![c].pc = "kill"]
    /\ UNCHANGED <<unix, accepting, failures, phase, owner, wv, marker, passed, exit, events>>

Held(c, at) == {p \in Procs : pty[p].at = at /\ pty[p].by = c}

KillDrained(c, p) ==
    /\ cleaners[c].pc = "kill" /\ p \in Held(c, "drained")
    /\ \/ Set(p, Killed(pty[p])) /\ UNCHANGED failures
       \/ Unverified /\ Set(p, Survived(pty[p], "unverified"))
    /\ UNCHANGED <<unix, accepting, exitVars>>

(* What survived goes back into the map.  There are two attempts, the Exit *)
(* event makes one.                                                        *)
EndPass(c) ==
    LET survivors == Held(c, "unverified")
        again == survivors # {} /\ c # "exit" /\ cleaners[c].attempt = 1
    IN  /\ cleaners[c].pc = "kill" /\ Held(c, "drained") = {}
        /\ pty' = [p \in Procs |-> IF p \in survivors
                     THEN [pty[p] EXCEPT !.at = "mapped", !.by = Nobody] ELSE pty[p]]
        /\ cleaners' = [cleaners EXCEPT ![c] =
               IF again THEN [pc |-> "drain", attempt |-> 2]
               ELSE [pc |-> IF survivors = {} THEN "verified" ELSE "failed", attempt |-> 1]]
        /\ owner' = IF owner = c /\ ~again THEN Nobody ELSE owner
        /\ UNCHANGED <<unix, accepting, failures, phase, wv, marker, passed, exit, events>>

Cleaned(c) == cleaners[c].pc \in {"verified", "failed"}

(* A path that forced the exit requests it, however the cleanup went.      *)
RequestExit(c) ==
    /\ c \in {"force", "watchdog"} /\ Cleaned(c)
    /\ CleanerTo(c, "done")
    /\ exit' = "requested"
    /\ UNCHANGED <<ptyVars, phase, owner, wv, marker, passed, events>>

-----------------------------------------------------------------------------
(* app_quit_commit and app_quit_force.                                     *)

(* Only one commit ever cleans; a late one finds the quit taken.           *)
QuitCommit ==
    /\ wv.alive /\ wv.quit = "committing"
    /\ IF phase = "preparing"
       THEN phase' = "cleaning" /\ CleanerTo("commit", "lock") /\ wv' = [wv EXCEPT !.quit = "waiting"]
       ELSE wv' = [wv EXCEPT !.quit = "done"] /\ UNCHANGED <<phase, cleaners>>
    /\ UNCHANGED <<ptyVars, owner, marker, passed, exit, events>>

(* An unverified cleanup ends the quit as a forced one.                    *)
CommitAfterCleanup ==
    /\ Cleaned("commit")
    /\ IF cleaners["commit"].pc = "verified"
       THEN CleanerTo("commit", "database") /\ UNCHANGED <<phase, wv, exit>>
       ELSE /\ CleanerTo("commit", "done")
            /\ phase' = IF phase = "exitingClean" THEN phase ELSE "exitingUnclean"
            /\ exit' = "requested"
            /\ wv' = IF wv.quit = "waiting" THEN [wv EXCEPT !.quit = "forcing"] ELSE wv
    /\ UNCHANGED <<ptyVars, owner, marker, passed, events>>

(* The marker is written under the lifecycle lock once the database is     *)
(* free, unless the exit was forced meanwhile.                             *)
\* Wrong on purpose: the phase was looked at before the database was free.
FinishClean_Late ==
    /\ cleaners["commit"].pc = "database"
    /\ phase' = "exitingClean" /\ marker' = "quit" /\ exit' = "requested"
    /\ wv' = IF wv.quit = "waiting" THEN [wv EXCEPT !.quit = "done"] ELSE wv
    /\ CleanerTo("commit", "done")
    /\ UNCHANGED <<ptyVars, owner, passed, events>>

FinishClean ==
    /\ cleaners["commit"].pc = "database"
    /\ \E written \in BOOLEAN :
         LET ok == phase = "cleaning" /\ written
         IN  /\ phase' = IF phase # "cleaning" THEN phase
                         ELSE IF written THEN "exitingClean" ELSE "exitingUnclean"
             /\ marker' = IF ok THEN "quit" ELSE marker
             /\ wv' = IF wv.quit = "waiting"
                      THEN [wv EXCEPT !.quit = IF phase = "cleaning" /\ ~written
                                               THEN "forcing" ELSE "done"]
                      ELSE wv
    /\ CleanerTo("commit", "done")
    /\ exit' = "requested"
    /\ UNCHANGED <<ptyVars, owner, passed, events>>

QuitForce ==
    /\ wv.alive /\ wv.quit = "forcing"
    /\ wv' = [wv EXCEPT !.quit = "done"]
    /\ Forced("force")
    /\ UNCHANGED <<ptyVars, owner, marker, passed, exit, events>>

-----------------------------------------------------------------------------
(* The webview.                                                            *)

(* The barrier is one promise that both flows wait for.  When it fails it  *)
(* is rolled back, which marks the process running again.                  *)
\* Wrong on purpose: a failed barrier is followed by the commit all the same.
Prepare_Ignored ==
    /\ wv.alive /\ "preparing" \in {wv.quit, wv.update}
    /\ wv' = [wv EXCEPT !.prepared = TRUE,
                  !.quit = IF @ = "preparing" THEN "committing" ELSE @,
                  !.update = IF @ = "preparing" THEN "installing" ELSE @]
    /\ UNCHANGED <<ptyVars, phase, cleaners, owner, marker, passed, exit, events>>

Prepare ==
    /\ wv.alive /\ "preparing" \in {wv.quit, wv.update}
    /\ \E saved \in BOOLEAN :
         /\ wv.prepared => saved
         /\ wv' = [wv EXCEPT !.prepared = saved,
                       !.quit = IF @ # "preparing" THEN @
                                ELSE IF saved THEN "committing" ELSE "forcing",
                       !.update = IF @ # "preparing" THEN @
                                  ELSE IF saved THEN "installing" ELSE "idle"]
         /\ passed' = (passed \/ saved)
         /\ marker' = IF saved THEN marker ELSE "running"
    /\ UNCHANGED <<ptyVars, phase, cleaners, owner, exit, events>>

(* Installing a verified update; one that fails gives the barrier up.      *)
InstallUpdate ==
    /\ wv.alive /\ wv.update = "idle" /\ Event
    /\ wv' = [wv EXCEPT !.update = "preparing"]
    /\ UNCHANGED <<ptyVars, phase, cleaners, owner, marker, passed, exit>>

UpdateApplied ==
    /\ wv.alive /\ wv.update = "installing"
    /\ \E applied \in BOOLEAN :
         wv' = [wv EXCEPT !.update = IF applied THEN "restarting" ELSE "resuming"]
    /\ UNCHANGED <<ptyVars, phase, cleaners, owner, marker, passed, exit, events>>

ResumePersistence ==
    /\ wv.alive /\ wv.update = "resuming"
    /\ wv' = [wv EXCEPT !.update = "idle", !.prepared = FALSE]
    /\ marker' = "running"
    /\ UNCHANGED <<ptyVars, phase, cleaners, owner, passed, exit, events>>

(* app_restart marks the workspace clean first, and cleans up then.  One   *)
(* called again after a reload waits behind the first, which ends it all.  *)
AppRestart ==
    /\ wv.alive /\ wv.update = "restarting"
    /\ \/ /\ marker' = "restart" /\ wv' = [wv EXCEPT !.update = "done"]
          /\ IF cleaners["restart"].pc = "idle" THEN CleanerTo("restart", "lock")
             ELSE UNCHANGED cleaners
       \/ wv' = [wv EXCEPT !.update = "resuming"] /\ UNCHANGED <<marker, cleaners>>
    /\ UNCHANGED <<ptyVars, phase, owner, passed, exit, events>>

Relaunch ==
    /\ Cleaned("restart")
    /\ exit' = "gone"
    /\ UNCHANGED <<ptyVars, phase, cleaners, owner, wv, marker, passed, events>>

(* A reload forgets both flows, the barrier and what was not acknowledged. *)
ReloadWebview ==
    /\ wv.alive /\ Event
    /\ wv' = [wv EXCEPT !.quit = "idle", !.update = "idle", !.prepared = FALSE]
    /\ pty' = [p \in Procs |-> [pty[p] EXCEPT !.unacked = 0]]
    /\ UNCHANGED <<unix, accepting, failures, phase, cleaners, owner, marker, passed, exit>>

-----------------------------------------------------------------------------
(* The platform.                                                           *)

(* The window is gone: its handler empties the map, under neither the      *)
(* admission lock nor the cleanup mutex.                                   *)
WindowDestroyed ==
    /\ wv.alive /\ Event
    /\ wv' = [alive |-> FALSE, quit |-> "idle", update |-> "idle", prepared |-> FALSE]
    /\ pty' = [p \in Procs |-> IF p \in Mapped THEN [pty[p] EXCEPT !.at = "drained", !.by = "window"]
                               ELSE pty[p]]
    /\ UNCHANGED <<unix, accepting, failures, phase, cleaners, owner, marker, passed, exit>>

(* It kills them one by one then; the handle goes whether or not the kill  *)
(* could be verified.                                                      *)
WindowKills(p) ==
    /\ p \in Held("window", "drained")
    /\ \/ Set(p, Killed(pty[p])) /\ UNCHANGED failures
       \/ Unverified /\ Set(p, Survived(pty[p], "dropped"))
    /\ UNCHANGED <<unix, accepting, exitVars>>

(* The Exit event, of a requested exit or imposed from outside; the window *)
(* handler runs on the same thread.                                        *)
RunLoopExits ==
    /\ unix /\ cleaners["exit"].pc = "idle" /\ Held("window", "drained") = {}
    /\ \/ exit = "requested" /\ UNCHANGED events
       \/ Event
    /\ CleanerTo("exit", "lock")
    /\ UNCHANGED <<ptyVars, phase, owner, wv, marker, passed, exit>>

(* _exit after that event, or two seconds after the request; elsewhere the *)
(* event loop ends once the window's handler has returned.                 *)
ProcessExits ==
    /\ \/ Cleaned("exit")
       \/ /\ exit = "requested" /\ phase \in Exiting
          /\ unix \/ Held("window", "drained") = {}
    /\ exit' = "gone"
    /\ UNCHANGED <<ptyVars, phase, cleaners, owner, wv, marker, passed, events>>

-----------------------------------------------------------------------------
Cleanup(c) ==
    \/ LockCleanup(c) \/ DrainSessions(c)
    \/ \E p \in Procs : KillDrained(c, p)
    \/ EndPass(c) \/ RequestExit(c)

Terminal(p) == WindowKills(p) \/ ((SpawnStep(p) \/ ReaderStep(p)) /\ UNCHANGED exitVars)
Webview ==
    \/ QuitCommit \/ QuitForce \/ Prepare \/ InstallUpdate \/ UpdateApplied
    \/ ResumePersistence \/ AppRestart \/ ReloadWebview
Acknowledge(p) == wv.alive /\ PtyAck(p) /\ UNCHANGED exitVars
NewTab(t) == wv.alive /\ BeginSpawn(t) /\ UNCHANGED exitVars
Gesture ==
    /\ \/ \E t \in Tabs : wv.alive /\ PtyKill(t)
       \/ \E p \in Procs : ShellExits(p) \/ FailLate(p)
    /\ Event
    /\ UNCHANGED <<phase, cleaners, owner, wv, marker, passed, exit>>

Next ==
    /\ Up
    /\ \/ \E c \in Cleaners : Cleanup(c)
       \/ \E p \in Procs : Terminal(p) \/ Acknowledge(p)
       \/ CommitAfterCleanup \/ FinishClean \/ Relaunch \/ ProcessExits
       \/ WatchdogFires \/ RequestQuit \/ Webview
       \/ (\E t \in Tabs : NewTab(t)) \/ Gesture
       \/ WindowDestroyed \/ RunLoopExits

Spec == Init /\ [][Next]_vars

(* Handlers, spawns and kills are straight-line code, the watchdog and the *)
(* hard exit have timers, reader threads run, and a live webview           *)
(* acknowledges at least once a second.  The user, the platform and the    *)
(* webview's own flows owe nothing.                                        *)
Fairness ==
    /\ \A c \in Cleaners : WF_vars(Up /\ Cleanup(c))
    /\ \A p \in Procs : /\ WF_vars(Up /\ SpawnStep(p) /\ UNCHANGED exitVars)
                        /\ WF_vars(Up /\ ReaderStep(p) /\ UNCHANGED exitVars)
                        /\ WF_vars(Up /\ WindowKills(p))
                        /\ WF_vars(Up /\ Acknowledge(p))
    /\ WF_vars(Up /\ WatchdogFires)
    /\ WF_vars(Up /\ (CommitAfterCleanup \/ FinishClean))
    /\ WF_vars(Up /\ (Relaunch \/ ProcessExits))

FairSpec == Spec /\ Fairness
=============================================================================
