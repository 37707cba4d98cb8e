--------------------------- MODULE ExitProperties ---------------------------
(* What terminals and the ways out of the application must guarantee. *)
EXTENDS AppExit

CleanerStates ==
    {"idle", "lock", "drain", "kill", "verified", "failed", "database", "done"}
QuitStates == {"idle", "preparing", "committing", "waiting", "forcing", "done"}
UpdateStates == {"idle", "preparing", "installing", "restarting", "resuming", "done"}

(* Every variable has its type. *)
TypeOK ==
    /\ unix \in BOOLEAN /\ accepting \in BOOLEAN /\ failures \in 0..MaxFailures
    /\ \A p \in Procs :
          /\ pty[p].at \in Places /\ pty[p].tab \in Tabs \cup {NoTab}
          /\ pty[p].by \in Cleaners \cup {"window", Nobody}
          /\ pty[p].shell \in {"none", "running", "dead"}
          /\ pty[p].reader \in {"none", "reading", "paused", "stopped"}
          /\ pty[p].out \in Nat /\ pty[p].unacked \in Nat
    /\ phase \in {"running", "preparing", "cleaning"} \cup Exiting
    /\ owner \in Cleaners \cup {Nobody}
    /\ \A c \in Cleaners : cleaners[c].pc \in CleanerStates /\ cleaners[c].attempt \in 1..2
    /\ wv.quit \in QuitStates /\ wv.update \in UpdateStates
    /\ marker \in {"running", "quit", "restart"} /\ exit \in {"no", "requested", "gone"}

(* The only handle to a shell that runs is never lost while the process    *)
(* lives: not by a tab closed while its shell is created, a name taken     *)
(* twice, a kill that fails, or two cleanups (insert, retain_failed_spawn, *)
(* kill_session_verified and kill_all_verified in pty/mod.rs).  Only the   *)
(* handler of the destroyed window drops one that it could not kill.       *)
HandleKept ==
    \A p \in Procs : Running(p) =>
        \/ pty[p].at \notin {"absent", "dropped"}
        \/ pty[p].at = "dropped" /\ pty[p].by = "window" /\ pty[p].stop /\ ~unix

(* No shell is left behind unnoticed: when the process is gone, a shell    *)
(* that still runs is one whose kill was tried and not verified, one whose *)
(* spawn failed, or one that another cleanup had drained when the platform *)
(* imposed the exit, or the window's handler when the hard exit came.      *)
NoOrphans ==
    exit = "gone" => \A p \in Procs : Running(p) =>
        \/ pty[p].stop \/ pty[p].at = "leaked"
        \/ pty[p].at = "drained" /\ (cleaners["exit"].pc # "idle" \/ pty[p].by = "window")

(* What the window's handler took out of the map is not seen by a cleanup. *)
TakenByWindow(p) == pty[p].at \in {"drained", "dropped"} /\ pty[p].by = "window"

(* A quit that is recorded as clean has verified that no shell runs and    *)
(* lets no new one start, with terminals being opened and closed up to the *)
(* last moment.  It cannot vouch for what it never had: a shell whose      *)
(* spawn failed, and those that a destroyed window or the Exit event had   *)
(* taken out of the map before it.                                         *)
CleanQuitIsVerified ==
    phase = "exitingClean" =>
        /\ ~accepting /\ InFlight = {}
        /\ cleaners["exit"].pc = "idle" =>
              \A p \in Procs : Running(p) => pty[p].at = "leaked" \/ TakenByWindow(p)

(* Once an exit was forced, by the watchdog, a failed cleanup or a failed  *)
(* barrier, no late commit marks the workspace clean, and a clean exit is  *)
(* never turned into a forced one (finish_clean and force_unclean).        *)
DecisionStands ==
    [][/\ phase = "exitingUnclean" => phase' = phase /\ (marker' = "quit" => marker = "quit")
       /\ phase = "exitingClean" => phase' = phase]_vars

(* The workspace is marked clean only in a process that passed the         *)
(* persistence barrier, by a quit or an update, whatever the order of the  *)
(* two flows, reloads and failures.                                        *)
MarkerNeedsBarrier == marker # "running" => passed

(* A quit that was begun ends the process, whatever the webview, the       *)
(* shells and other cleanups do.                                           *)
QuitEnds == phase # "running" ~> exit = "gone"

(* A reader thread that is paused, or told to stop wherever it waits, does *)
(* not stay there, unless a webview took acknowledgements with it, or on   *)
(* Windows it is blocked in the read of a terminal whose handle is kept    *)
(* because its kill could not be verified (session.rs).                    *)
ReaderMoves ==
    \A p \in Procs :
        LET row == pty[p]
        IN  (row.reader = "paused" \/ (row.stop /\ row.reader # "stopped")) ~>
                \/ row.reader = "stopped" \/ (row.reader = "reading" /\ ~row.stop)
                \/ ~row.stop /\ (~wv.alive \/ row.out > row.unacked)
                \/ ~unix /\ row.reader = "reading" /\ row.at # "dropped"
                \/ exit = "gone"
=============================================================================
