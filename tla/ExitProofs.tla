----------------------------- MODULE ExitProofs -----------------------------
(***************************************************************************)
(* What is proved of the exit for any number of terminals, tabs, failed    *)
(* kills and events.  None of the properties is inductive by itself: that  *)
(* a shell keeps its handle needs to know where each handle can be         *)
(* (RowInv), who may hold one (HeldInv, MutexInv), and that a sweep, once  *)
(* made, is not undone (SweptInv): the gate is shut before the map is      *)
(* taken, so that no spawn can follow.                                     *)
(***************************************************************************)
EXTENDS ExitProperties, TLAPS

Row ==
    [at : Places, tab : Tabs \cup {NoTab}, by : Cleaners \cup {"window", Nobody},
     cancelled : BOOLEAN,
     shell : {"none", "running", "dead"}, reader : {"none", "reading", "paused", "stopped"},
     out : Nat, unacked : Nat, stop : BOOLEAN]
Cleaning == [pc : CleanerStates, attempt : 1..2]
View == [alive : BOOLEAN, quit : QuitStates, update : UpdateStates, prepared : BOOLEAN]

\* The terminals: their types, and a shell that runs has its handle somewhere,
\* unless the window's handler could not kill it.
Kept(r) ==
    /\ r.unacked <= r.out
    /\ r.at \in {"absent", "permit"} => r.shell = "none"
    /\ r.at = "dropped" /\ r.shell = "running" => r.by = "window" /\ r.stop
    /\ r.at = "unverified" => r.stop
    /\ r.by = "window" => r.at \in {"drained", "dropped"}
Rows == {r \in Row : Kept(r)}
RowInv ==
    /\ pty \in [Procs -> Rows]
    /\ unix \in BOOLEAN /\ accepting \in BOOLEAN /\ failures \in 0..MaxFailures

\* The rest has its type.
FlowType ==
    /\ phase \in {"running", "preparing", "cleaning"} \cup Exiting
    /\ owner \in Cleaners \cup {Nobody}
    /\ cleaners \in [Cleaners -> Cleaning] /\ wv \in View
    /\ marker \in {"running", "quit", "restart"} /\ exit \in {"no", "requested", "gone"}

-----------------------------------------------------------------------------
(* One terminal.                                                           *)

\* A created terminal is one that has not been opened.
LEMMA NewRow == NewTerminal \in Rows
BY DEF NewTerminal, Rows, Row, Kept, Places, Nobody

\* A kill that succeeds gives the handle up, one that does not keeps it but in
\* the hands of the window's handler.
LEMMA SurvivedRow ==
    ASSUME NEW r \in Rows, NEW at \in {"mapped", "unverified", "dropped"},
           at = "dropped" <=> r.by = "window"
    PROVE  /\ Survived(r, at) \in Rows /\ Survived(r, at).at = at /\ Survived(r, at).stop
           /\ Survived(r, at).by = r.by /\ Survived(r, at).shell = r.shell
<1>1. r \in Row
  BY DEF Rows
<1>2. Survived(r, at) = [r EXCEPT !.stop = TRUE, !.at = at, !.out = 0, !.unacked = 0]
  BY DEF Survived
<1>3. Survived(r, at) \in Row
  <2>1. at \in Places
    BY DEF Places
  <2>2. [r EXCEPT !.stop = TRUE, !.at = at, !.out = 0, !.unacked = 0] \in Row
    BY <1>1, <2>1 DEF Row
  <2> QED
    BY <1>2, <2>2
<1>4. /\ Survived(r, at).at = at /\ Survived(r, at).stop = TRUE
      /\ Survived(r, at).out = 0 /\ Survived(r, at).unacked = 0
      /\ Survived(r, at).by = r.by /\ Survived(r, at).shell = r.shell
  BY <1>1, <1>2 DEF Row
<1>5. Kept(Survived(r, at))
  BY <1>4 DEF Rows, Kept
<1> QED
  BY <1>3, <1>4, <1>5 DEF Rows

LEMMA KilledRow ==
    ASSUME NEW r \in Rows
    PROVE  /\ Killed(r) \in Rows /\ Killed(r).at = "dropped" /\ Killed(r).shell # "running"
           /\ Killed(r).stop /\ Killed(r).by = Nobody
<1> DEFINE s == Survived(r, "dropped")
           shell == IF s.shell = "running" THEN "dead" ELSE s.shell
<1>1. s \in Row /\ s.at = "dropped" /\ s.out = 0 /\ s.unacked = 0 /\ s.stop = TRUE
  BY DEF Survived, Rows, Row, Places
<1>2. Killed(r) = [s EXCEPT !.tab = NoTab, !.by = "nobody", !.cancelled = FALSE, !.shell = shell]
  BY DEF Killed
<1>3. shell \in {"none", "dead"}
  BY <1>1 DEF Row
<1> HIDE DEF s, shell
<1>4. Killed(r) \in Row
  BY <1>1, <1>2, <1>3 DEF Row, Nobody
<1>5. /\ Killed(r).at = "dropped" /\ Killed(r).shell = shell
      /\ Killed(r).out = 0 /\ Killed(r).unacked = 0 /\ Killed(r).stop = TRUE
      /\ Killed(r).by = Nobody
  BY <1>1, <1>2 DEF Row, Nobody
<1>6. Kept(Killed(r))
  BY <1>3, <1>5 DEF Kept, Nobody
<1> QED
  BY <1>3, <1>4, <1>5, <1>6 DEF Rows

\* Replacing the row of one terminal.
LEMMA SetRow ==
    ASSUME pty \in [Procs -> Rows], NEW p \in Procs, NEW r \in Rows, Set(p, r)
    PROVE  pty' \in [Procs -> Rows]
BY DEF Set

\* The actions of a terminal keep its row well formed.
LEMMA SpawnRows ==
    ASSUME RowInv, NEW p \in Procs, SpawnStep(p) \/ FailLate(p)
    PROVE  RowInv'
<1>0. pty[p] \in Rows
  BY DEF RowInv
<1>1. ASSUME Create(p) PROVE RowInv'
  <2>1. [pty[p] EXCEPT !.at = "created", !.shell = "running", !.reader = "reading"] \in Rows
    BY <1>0, <1>1 DEF Create, Rows, Row, Kept, Places
  <2>2. CASE Set(p, [pty[p] EXCEPT !.at = "dropped", !.tab = NoTab, !.cancelled = FALSE])
    <3>1. [pty[p] EXCEPT !.at = "dropped", !.tab = NoTab, !.cancelled = FALSE] \in Rows
      BY <1>0, <1>1 DEF Create, Rows, Row, Kept, Places
    <3> QED
      BY <1>1, <2>2, <3>1, SetRow DEF RowInv, Create
  <2> QED
    BY <1>1, <2>1, <2>2, SetRow DEF RowInv, Create
<1>2. ASSUME Insert(p) PROVE RowInv'
  <2>1. \A at \in {"mapped", "refused"} : [pty[p] EXCEPT !.at = at] \in Rows
    BY <1>0, <1>2 DEF Insert, Rows, Row, Kept, Places
  <2> QED
    BY <1>2, <2>1, SetRow DEF RowInv, Insert
<1>3. ASSUME Refuse(p) PROVE RowInv'
  <2>1. CASE Set(p, Killed(pty[p])) /\ UNCHANGED failures
    BY <1>0, <1>3, <2>1, KilledRow, SetRow DEF RowInv, Refuse
  <2>2. CASE /\ Unverified
             /\ Set(p, [Survived(pty[p], "mapped") EXCEPT !.tab =
                           IF Session(@) = {} THEN @ ELSE NoTab])
    <3>1. [Survived(pty[p], "mapped") EXCEPT !.tab = IF Session(@) = {} THEN @ ELSE NoTab]
             \in Rows
      <4>1. pty[p].by # "window"
        BY <1>0, <1>3 DEF Refuse, Rows, Kept
      <4>2. Survived(pty[p], "mapped") \in Rows
        BY <1>0, <4>1, SurvivedRow
      <4> QED
        BY <4>2 DEF Rows, Row, Kept
    <3>2. failures' \in 0..MaxFailures
      BY <2>2, TerminalAssumption DEF RowInv, Unverified
    <3> QED
      BY <1>3, <2>2, <3>1, <3>2, SetRow DEF RowInv, Refuse
  <2> QED
    BY <1>3, <2>1, <2>2 DEF Refuse
<1>4. ASSUME FailLate(p) PROVE RowInv'
  <2>1. \A reader \in {"none", "reading"} :
           [pty[p] EXCEPT !.at = "leaked", !.tab = NoTab, !.cancelled = FALSE,
                          !.shell = "running", !.reader = reader] \in Rows
    BY <1>0, <1>4 DEF FailLate, Rows, Row, Kept, Places
  <2> QED
    BY <1>4, <2>1, SetRow DEF RowInv, FailLate
<1> QED
  BY <1>1, <1>2, <1>3, <1>4 DEF SpawnStep

LEMMA ReaderRows ==
    ASSUME RowInv, NEW p \in Procs, ReaderStep(p) \/ PtyAck(p) \/ ShellExits(p)
    PROVE  RowInv'
<1>0. pty[p] \in Rows
  BY DEF RowInv
<1>1. ASSUME WaitUntilResumed(p) PROVE RowInv'
  <2>1. \A s \in {"paused", "reading", "stopped"} : [pty[p] EXCEPT !.reader = s] \in Rows
    BY <1>0 DEF Rows, Row, Kept
  <2> QED
    BY <1>1, <2>1, SetRow DEF RowInv, WaitUntilResumed
<1>2. ASSUME Read(p) PROVE RowInv'
  <2>1. [pty[p] EXCEPT !.reader = "stopped"] \in Rows
    BY <1>0 DEF Rows, Row, Kept
  <2>2. ASSUME NEW n \in 1..ReadMax
        PROVE  [pty[p] EXCEPT !.out = @ + n, !.unacked = @ + n] \in Rows
    <3>1. /\ pty[p] \in Row /\ pty[p].out \in Nat /\ pty[p].unacked \in Nat
          /\ pty[p].unacked <= pty[p].out
      BY <1>0 DEF Rows, Row, Kept
    <3>2. n \in Nat
      BY TerminalAssumption
    <3>3. /\ pty[p].out + n \in Nat /\ pty[p].unacked + n \in Nat
          /\ pty[p].unacked + n <= pty[p].out + n
      BY <3>1, <3>2
    <3> DEFINE out == pty[p].out + n
               unacked == pty[p].unacked + n
               r == [pty[p] EXCEPT !.out = out, !.unacked = unacked]
    <3> HIDE DEF out, unacked
    <3>4. r \in Row
      BY <3>1, <3>3 DEF Row, out, unacked
    <3>5. /\ r.out = out /\ r.unacked = unacked /\ r.at = pty[p].at
          /\ r.shell = pty[p].shell /\ r.stop = pty[p].stop /\ r.by = pty[p].by
      BY <3>1 DEF Row
    <3>6. Kept(r)
      BY <1>0, <3>3, <3>5 DEF Rows, Kept, out, unacked
    <3> QED
      BY <3>4, <3>6 DEF Rows, out, unacked
  <2> QED
    BY <1>2, <2>1, <2>2, SetRow DEF RowInv, Read
<1>3. ASSUME PtyAck(p) PROVE RowInv'
  <2>1. PICK n \in 1..pty[p].unacked :
           Set(p, [pty[p] EXCEPT !.unacked = @ - n,
                       !.out = IF pty[p].at = "mapped" THEN @ - n ELSE @])
    BY <1>3 DEF PtyAck
  <2>2. [pty[p] EXCEPT !.unacked = @ - n,
                       !.out = IF pty[p].at = "mapped" THEN @ - n ELSE @] \in Rows
    <3>1. /\ pty[p] \in Row /\ pty[p].out \in Nat /\ pty[p].unacked \in Nat
          /\ pty[p].unacked <= pty[p].out
      BY <1>0 DEF Rows, Row, Kept
    <3> DEFINE out == IF pty[p].at = "mapped" THEN pty[p].out - n ELSE pty[p].out
               unacked == pty[p].unacked - n
               r == [pty[p] EXCEPT !.unacked = unacked, !.out = out]
    <3>2. out \in Nat /\ unacked \in Nat /\ unacked <= out
      BY <3>1
    <3> HIDE DEF out, unacked
    <3>3. r \in Row
      BY <3>1, <3>2 DEF Row
    <3>4. /\ r.out = out /\ r.unacked = unacked /\ r.at = pty[p].at
          /\ r.shell = pty[p].shell /\ r.stop = pty[p].stop /\ r.by = pty[p].by
      BY <3>1 DEF Row
    <3>5. Kept(r)
      BY <1>0, <3>2, <3>4 DEF Rows, Kept
    <3> QED
      BY <3>3, <3>5 DEF Rows, out, unacked
  <2> QED
    BY <1>3, <2>1, <2>2, SetRow DEF RowInv, PtyAck
<1>4. ASSUME ShellExits(p) PROVE RowInv'
  <2>1. [pty[p] EXCEPT !.shell = "dead"] \in Rows
    BY <1>0, <1>4 DEF ShellExits, Running, Rows, Row, Kept
  <2> QED
    BY <1>4, <2>1, SetRow DEF RowInv, ShellExits
<1> QED
  BY <1>1, <1>2, <1>3, <1>4 DEF ReaderStep

\* Moving the handle of a terminal between the map and a cleanup.
LEMMA MovedRow ==
    ASSUME NEW r \in Rows, NEW place \in {"mapped", "drained"},
           NEW by \in Cleaners \cup {"window", Nobody}, by = "window" => place = "drained",
           r.at \in {"mapped", "unverified"}
    PROVE  [r EXCEPT !.at = place, !.by = by] \in Rows
<1>1. r \in Row /\ place \in Places
  BY DEF Rows, Places
<1>2. [r EXCEPT !.at = place, !.by = by] \in Row
  BY <1>1 DEF Row
<1> QED
  BY <1>1, <1>2 DEF Rows, Row, Kept

\* Calling off a terminal that is being created.
LEMMA CancelledRow ==
    ASSUME NEW r \in Rows
    PROVE  [r EXCEPT !.cancelled = TRUE] \in Rows
<1>1. r \in Row /\ Kept(r)
  BY DEF Rows
<1>2. [r EXCEPT !.cancelled = TRUE] \in Row
  BY <1>1 DEF Row
<1>3. Kept([r EXCEPT !.cancelled = TRUE])
  BY <1>1 DEF Row, Kept
<1> QED
  BY <1>2, <1>3 DEF Rows

\* So do those of a tab, of a cleanup and of the webview.
LEMMA TabRows ==
    ASSUME RowInv, NEW t \in Tabs, BeginSpawn(t) \/ PtyKill(t)
    PROVE  RowInv'
<1>1. ASSUME BeginSpawn(t) PROVE RowInv'
  <2>1. PICK p \in Procs : pty[p].at = "absent" /\ Set(p, [pty[p] EXCEPT !.at = "permit", !.tab = t])
    BY <1>1 DEF BeginSpawn
  <2>2. pty[p] \in Rows
    BY DEF RowInv
  <2>3. [pty[p] EXCEPT !.at = "permit", !.tab = t] \in Rows
    <3>1. pty[p] \in Row /\ Kept(pty[p]) /\ "permit" \in Places
      BY <2>2 DEF Rows, Places
    <3>2. [pty[p] EXCEPT !.at = "permit", !.tab = t] \in Row
      BY <3>1 DEF Row
    <3>3. pty[p].shell = "none" /\ pty[p].by # "window"
      BY <2>1, <3>1 DEF Kept
    <3> QED
      BY <3>1, <3>2, <3>3 DEF Rows, Row, Kept
  <2> QED
    BY <1>1, <2>1, <2>3, SetRow DEF RowInv, BeginSpawn
<1>2. ASSUME PtyKill(t) PROVE RowInv'
  <2>1. \A p \in Procs :
           \/ pty'[p] \in {[pty[p] EXCEPT !.cancelled = TRUE], Killed(pty[p]), pty[p]}
           \/ pty[p].at = "mapped" /\ pty'[p] = Survived(pty[p], "mapped")
    BY <1>2 DEF PtyKill, Session, Mapped
  <2>2. ASSUME NEW p \in Procs PROVE pty'[p] \in Rows
    <3>1. pty[p] \in Rows
      BY DEF RowInv
    <3>2. ASSUME pty[p].at = "mapped" PROVE Survived(pty[p], "mapped") \in Rows
      <4>1. pty[p].by # "window"
        BY <3>1, <3>2 DEF Rows, Kept
      <4> QED
        BY <3>1, <4>1, SurvivedRow
    <3> QED
      BY <2>1, <3>1, <3>2, CancelledRow, KilledRow
  <2>3. pty' = [p \in Procs |-> pty'[p]]
    BY <1>2 DEF PtyKill
  <2>4. pty' \in [Procs -> Rows]
    BY <2>2, <2>3
  <2>5. accepting' \in BOOLEAN /\ failures' \in 0..MaxFailures
    BY <1>2, TerminalAssumption DEF PtyKill, RowInv, Unverified
  <2>6. unix' \in BOOLEAN
    BY <1>2 DEF PtyKill, RowInv
  <2> QED
    BY <2>4, <2>5, <2>6 DEF RowInv
<1> QED
  BY <1>1, <1>2

\* The window's handler is not one of the cleanups.
LEMMA WindowIsNone == "window" \notin Cleaners /\ "window" # Nobody
BY DEF Cleaners, Nobody

LEMMA SweepRows ==
    ASSUME RowInv, NEW c \in Cleaners,
           DrainSessions(c) \/ EndPass(c) \/ \E p \in Procs : KillDrained(c, p)
    PROVE  RowInv'
<1>1. ASSUME DrainSessions(c) PROVE RowInv'
  <2>1. \A p \in Procs : pty[p] \in Rows
    BY DEF RowInv
  <2>2. \A p \in Mapped : [pty[p] EXCEPT !.at = "drained", !.by = c] \in Rows
    BY <2>1, MovedRow, WindowIsNone DEF Mapped
  <2> QED
    BY <1>1, <2>1, <2>2 DEF RowInv, DrainSessions
<1>2. ASSUME EndPass(c) PROVE RowInv'
  <2>1. \A p \in Procs : pty[p] \in Rows
    BY DEF RowInv
  <2>2. \A p \in Held(c, "unverified") : [pty[p] EXCEPT !.at = "mapped", !.by = Nobody] \in Rows
    BY <2>1, MovedRow, WindowIsNone DEF Held
  <2> QED
    BY <1>2, <2>1, <2>2 DEF RowInv, EndPass
<1>3. ASSUME NEW p \in Procs, KillDrained(c, p) PROVE RowInv'
  <2>1. pty[p] \in Rows
    BY DEF RowInv
  <2>2. Killed(pty[p]) \in Rows /\ Survived(pty[p], "unverified") \in Rows
    BY <1>3, <2>1, KilledRow, SurvivedRow, WindowIsNone DEF KillDrained, Held
  <2>3. pty' \in [Procs -> Rows]
    BY <1>3, <2>2, SetRow DEF KillDrained, RowInv
  <2>4. accepting' \in BOOLEAN /\ failures' \in 0..MaxFailures
    BY <1>3, TerminalAssumption DEF KillDrained, RowInv, Unverified
  <2>5. unix' \in BOOLEAN
    BY <1>3 DEF KillDrained, RowInv
  <2> QED
    BY <2>3, <2>4, <2>5 DEF RowInv
<1> QED
  BY <1>1, <1>2, <1>3

LEMMA WebviewRows == ASSUME RowInv, ReloadWebview \/ WindowDestroyed PROVE RowInv'
<1>1. \A p \in Procs : pty[p] \in Rows
  BY DEF RowInv
<1>2. ASSUME NEW r \in Rows PROVE [r EXCEPT !.unacked = 0] \in Rows
  <2>1. r \in Row /\ r.out \in Nat
    BY DEF Rows, Row
  <2>2. [r EXCEPT !.unacked = 0] \in Row
    BY <2>1 DEF Row
  <2> QED
    BY <2>1, <2>2 DEF Rows, Row, Kept
<1>3. ASSUME ReloadWebview PROVE RowInv'
  BY <1>1, <1>2, <1>3 DEF RowInv, ReloadWebview
<1>4. ASSUME WindowDestroyed PROVE RowInv'
  <2>1. \A p \in Mapped : [pty[p] EXCEPT !.at = "drained", !.by = "window"] \in Rows
    BY <1>1, MovedRow DEF Mapped
  <2> QED
    BY <1>1, <1>4, <2>1 DEF RowInv, WindowDestroyed
<1> QED
  BY <1>3, <1>4

-----------------------------------------------------------------------------
(* The flows.                                                              *)

Finished == {"verified", "failed", "database", "done"}

\* A quit is committed once, and a clean exit is that commit's.
PhaseInv ==
    /\ phase \in {"running", "preparing"} => cleaners["commit"].pc = "idle"
    /\ phase = "exitingClean" => cleaners["commit"].pc = "done"
FlowInv == FlowType /\ PhaseInv

\* A step that leaves the terminals, the gate and the mutex alone: a cleanup
\* may begin, or one that has ended may be followed up.
Onward ==
    /\ UNCHANGED <<unix, pty, accepting, owner>>
    /\ \A c \in Cleaners :
          /\ \/ cleaners'[c].pc = cleaners[c].pc
             \/ cleaners[c].pc = "idle" /\ cleaners'[c].pc = "lock"
             \/ c # "exit" /\ cleaners[c].pc \in Finished /\ cleaners'[c].pc \in Finished
          /\ cleaners'[c].pc \in {"verified", "database"} => cleaners[c].pc \in {"verified", "database"}
    /\ exit' # "no" => exit # "no" \/ \E c \in Cleaners : cleaners'[c].pc \in Finished
    /\ phase' = "exitingClean" => phase = "exitingClean" \/ cleaners["commit"].pc = "database"

\* A cleanup moved to another position is a cleanup.
LEMMA CleanerToType ==
    ASSUME cleaners \in [Cleaners -> Cleaning], NEW c \in Cleaners, NEW pc \in CleanerStates,
           CleanerTo(c, pc)
    PROVE  /\ cleaners' \in [Cleaners -> Cleaning] /\ cleaners'[c].pc = pc
           /\ \A d \in Cleaners \ {c} : cleaners'[d].pc = cleaners[d].pc
BY DEF CleanerTo, Cleaning

LEMMA CleanerNames ==
    /\ {"commit", "force", "watchdog", "restart", "exit"} \subseteq Cleaners
    /\ {"idle", "lock", "drain", "kill", "verified", "failed", "database", "done"}
          \subseteq CleanerStates
BY DEF Cleaners, CleanerStates

\* The only ways from one phase to the next.
LEMMA ForcedFlow ==
    ASSUME FlowInv, NEW c \in {"force", "watchdog"}, Forced(c)
    PROVE  /\ phase' \in {"running", "preparing", "cleaning"} \cup Exiting
           /\ cleaners' \in [Cleaners -> Cleaning] /\ PhaseInv'
           /\ phase' = "exitingClean" => phase = "exitingClean"
           /\ \A d \in Cleaners : \/ cleaners'[d].pc = cleaners[d].pc
                                  \/ cleaners[d].pc = "idle" /\ cleaners'[d].pc = "lock"
<1>0. /\ phase \in {"running", "preparing", "cleaning"} \cup Exiting
      /\ cleaners \in [Cleaners -> Cleaning]
  BY DEF FlowInv, FlowType
<1>1. CASE phase = "exitingClean"
  <2>1. phase' = phase /\ cleaners' = cleaners
    BY <1>1 DEF Forced
  <2>2. PhaseInv'
    BY <2>1 DEF FlowInv, PhaseInv
  <2>3. \A d \in Cleaners : cleaners'[d].pc = cleaners[d].pc
    BY <2>1
  <2>4. phase' \in {"running", "preparing", "cleaning"} \cup Exiting
    BY <1>0, <2>1
  <2> QED
    BY <1>0, <2>1, <2>2, <2>3, <2>4
<1>2. CASE phase # "exitingClean" /\ CleanerTo(c, "lock") /\ cleaners[c].pc = "idle"
  <2>1. /\ cleaners' \in [Cleaners -> Cleaning] /\ cleaners'[c].pc = "lock"
        /\ \A d \in Cleaners \ {c} : cleaners'[d].pc = cleaners[d].pc
    BY <1>0, <1>2, CleanerToType, CleanerNames
  <2>2. phase' = "exitingUnclean"
    BY <1>2 DEF Forced
  <2>3. PhaseInv'
    BY <2>2 DEF PhaseInv
  <2> QED
    BY <1>2, <2>1, <2>2, <2>3 DEF Exiting
<1>3. CASE phase # "exitingClean" /\ UNCHANGED cleaners
  <2>1. phase' = "exitingUnclean"
    BY <1>3 DEF Forced
  <2>2. PhaseInv'
    BY <2>1 DEF PhaseInv
  <2> QED
    BY <1>0, <1>3, <2>1, <2>2 DEF Exiting
<1> QED
  BY <1>1, <1>2, <1>3 DEF Forced

\* The webview and its two flows have their types.
LEMMA ViewType ==
    ASSUME wv \in View, NEW quit \in QuitStates, NEW update \in UpdateStates, NEW prepared \in BOOLEAN
    PROVE  /\ [wv EXCEPT !.quit = quit] \in View /\ [wv EXCEPT !.update = update] \in View
           /\ [wv EXCEPT !.update = update, !.prepared = prepared] \in View
           /\ [wv EXCEPT !.prepared = prepared, !.quit = quit, !.update = update] \in View
           /\ [wv EXCEPT !.quit = quit, !.update = update, !.prepared = prepared] \in View
BY DEF View

LEMMA ViewNames ==
    /\ {"idle", "preparing", "committing", "waiting", "forcing", "done"} \subseteq QuitStates
    /\ {"idle", "preparing", "installing", "restarting", "resuming", "done"} \subseteq UpdateStates
BY DEF QuitStates, UpdateStates

\* A quit that is announced, committed or forced.
LEMMA QuitFlow ==
    ASSUME FlowInv, RequestQuit \/ WatchdogFires \/ QuitCommit \/ QuitForce
    PROVE  FlowInv' /\ Onward
<1>0. /\ phase \in {"running", "preparing", "cleaning"} \cup Exiting
      /\ cleaners \in [Cleaners -> Cleaning] /\ wv \in View
  BY DEF FlowInv, FlowType
<1>1. ASSUME NEW c \in {"force", "watchdog"}, Forced(c), wv' \in View,
             UNCHANGED <<ptyVars, owner, marker, exit>>
      PROVE  FlowInv' /\ Onward
  <2>1. FlowInv'
    BY <1>1, ForcedFlow DEF FlowInv, FlowType
  <2>2. Onward
    BY <1>1, ForcedFlow, CleanerNames DEF Onward, ptyVars
  <2> QED
    BY <2>1, <2>2
<1>2. ASSUME RequestQuit PROVE FlowInv' /\ Onward
  <2>1. CASE wv.alive
    <3>1. wv' \in View
      BY <1>0, <1>2, <2>1, ViewType, ViewNames DEF RequestQuit
    <3>2. /\ phase' = IF phase = "running" THEN "preparing" ELSE phase
          /\ UNCHANGED <<unix, pty, accepting, cleaners, owner, marker, exit>>
      BY <1>2, <2>1 DEF RequestQuit, ptyVars
    <3> QED
      BY <1>0, <3>1, <3>2 DEF FlowInv, FlowType, PhaseInv, Onward
  <2>2. CASE ~wv.alive
    BY <1>0, <1>1, <1>2, <2>2 DEF RequestQuit
  <2> QED
    BY <2>1, <2>2
<1>3. ASSUME WatchdogFires PROVE FlowInv' /\ Onward
  BY <1>0, <1>1, <1>3 DEF WatchdogFires
<1>4. ASSUME QuitForce PROVE FlowInv' /\ Onward
  <2>1. wv' \in View
    BY <1>0, <1>4, ViewType, ViewNames DEF QuitForce
  <2> QED
    BY <1>1, <1>4, <2>1 DEF QuitForce
<1>5. ASSUME QuitCommit PROVE FlowInv' /\ Onward
  <2>1. wv' \in View
    BY <1>0, <1>5, ViewType, ViewNames DEF QuitCommit
  <2>2. CASE phase = "preparing"
    <3>1. CleanerTo("commit", "lock") /\ phase' = "cleaning" /\ cleaners["commit"].pc = "idle"
      BY <1>5, <2>2 DEF QuitCommit, FlowInv, PhaseInv
    <3>2. /\ cleaners' \in [Cleaners -> Cleaning] /\ cleaners'["commit"].pc = "lock"
          /\ \A d \in Cleaners \ {"commit"} : cleaners'[d].pc = cleaners[d].pc
      BY <1>0, <3>1, CleanerToType, CleanerNames
    <3>3. FlowInv'
      BY <1>5, <2>1, <3>1, <3>2 DEF QuitCommit, FlowInv, FlowType, PhaseInv
    <3>4. Onward
      BY <1>5, <3>1, <3>2 DEF QuitCommit, Onward, ptyVars
    <3> QED
      BY <3>3, <3>4
  <2>3. CASE phase # "preparing"
    <3>1. UNCHANGED <<unix, pty, accepting, phase, cleaners, owner, marker, exit>>
      BY <1>5, <2>3 DEF QuitCommit, ptyVars
    <3> QED
      BY <2>1, <3>1 DEF FlowInv, FlowType, PhaseInv, Onward
  <2> QED
    BY <2>2, <2>3
<1> QED
  BY <1>2, <1>3, <1>4, <1>5

\* The webview's own flows, and the exit of the run loop.
LEMMA UpdateFlow ==
    ASSUME FlowInv,
           \/ Prepare \/ InstallUpdate \/ UpdateApplied \/ ResumePersistence \/ AppRestart
           \/ RunLoopExits
    PROVE  FlowInv' /\ Onward
<1>0. cleaners \in [Cleaners -> Cleaning] /\ wv \in View
  BY DEF FlowInv, FlowType
<1>1. ASSUME wv' \in View, UNCHANGED <<ptyVars, phase, cleaners, owner, exit>>,
             marker' \in {"running", "quit", "restart"}
      PROVE  FlowInv' /\ Onward
  BY <1>1 DEF FlowInv, FlowType, PhaseInv, Onward, ptyVars
<1>2. ASSUME Prepare PROVE FlowInv' /\ Onward
  <2>1. PICK saved \in BOOLEAN :
           /\ wv' = [wv EXCEPT !.prepared = saved,
                       !.quit = IF @ # "preparing" THEN @
                                ELSE IF saved THEN "committing" ELSE "forcing",
                       !.update = IF @ # "preparing" THEN @
                                  ELSE IF saved THEN "installing" ELSE "idle"]
           /\ marker' = IF saved THEN marker ELSE "running"
    BY <1>2 DEF Prepare
  <2>2. /\ IF wv.quit # "preparing" THEN wv.quit \in QuitStates
           ELSE (IF saved THEN "committing" ELSE "forcing") \in QuitStates
        /\ IF wv.update # "preparing" THEN wv.update \in UpdateStates
           ELSE (IF saved THEN "installing" ELSE "idle") \in UpdateStates
    BY <1>0, ViewNames DEF View
  <2>3. wv' \in View
    BY <1>0, <2>1, <2>2, ViewType
  <2> QED
    BY <1>1, <1>2, <2>1, <2>3 DEF Prepare, FlowInv, FlowType
<1>3. ASSUME InstallUpdate PROVE FlowInv' /\ Onward
  BY <1>0, <1>1, <1>3, ViewType, ViewNames DEF InstallUpdate, FlowInv, FlowType
<1>4. ASSUME UpdateApplied PROVE FlowInv' /\ Onward
  BY <1>0, <1>1, <1>4, ViewType, ViewNames DEF UpdateApplied, FlowInv, FlowType
<1>5. ASSUME ResumePersistence PROVE FlowInv' /\ Onward
  BY <1>0, <1>1, <1>5, ViewType, ViewNames DEF ResumePersistence, FlowInv, FlowType
<1>6. ASSUME NEW c \in {"restart", "exit"}, cleaners[c].pc = "idle", CleanerTo(c, "lock"),
             wv' \in View, UNCHANGED <<ptyVars, phase, owner, exit>>,
             marker' \in {"running", "quit", "restart"}
      PROVE  FlowInv' /\ Onward
  <2>1. /\ cleaners' \in [Cleaners -> Cleaning] /\ cleaners'[c].pc = "lock"
        /\ \A d \in Cleaners \ {c} : cleaners'[d].pc = cleaners[d].pc
    BY <1>0, <1>6, CleanerToType, CleanerNames
  <2> QED
    BY <1>6, <2>1, CleanerNames DEF FlowInv, FlowType, PhaseInv, Onward, ptyVars
<1>7. ASSUME AppRestart PROVE FlowInv' /\ Onward
  <2>1. wv' \in View
    BY <1>0, <1>7, ViewType, ViewNames DEF AppRestart
  <2> QED
    BY <1>1, <1>6, <1>7, <2>1 DEF AppRestart, FlowInv, FlowType
<1>8. ASSUME RunLoopExits PROVE FlowInv' /\ Onward
  BY <1>0, <1>6, <1>8 DEF RunLoopExits, FlowInv, FlowType
<1> QED
  BY <1>2, <1>3, <1>4, <1>5, <1>7, <1>8

\* What follows a cleanup that has ended, up to the end of the process.
LEMMA EndFlow ==
    ASSUME FlowInv,
           \/ CommitAfterCleanup \/ FinishClean \/ Relaunch \/ ProcessExits
           \/ \E c \in Cleaners : RequestExit(c)
    PROVE  FlowInv' /\ Onward
<1>0. /\ phase \in {"running", "preparing", "cleaning"} \cup Exiting
      /\ cleaners \in [Cleaners -> Cleaning] /\ wv \in View
      /\ marker \in {"running", "quit", "restart"} /\ exit \in {"no", "requested", "gone"}
      /\ \A c \in Cleaners : Cleaned(c) => cleaners[c].pc \in Finished
  BY DEF FlowInv, FlowType, Cleaned, Finished
<1>1. ASSUME NEW c \in Cleaners \ {"commit", "exit"}, RequestExit(c) PROVE FlowInv' /\ Onward
  <2>1. /\ cleaners' \in [Cleaners -> Cleaning] /\ cleaners'[c].pc = "done"
        /\ \A d \in Cleaners \ {c} : cleaners'[d].pc = cleaners[d].pc
    BY <1>0, <1>1, CleanerToType, CleanerNames DEF RequestExit
  <2>2. cleaners[c].pc \in Finished /\ "done" \in Finished /\ "commit" \in Cleaners
    BY <1>0, <1>1, CleanerNames DEF RequestExit, Finished
  <2>3. FlowInv'
    BY <1>1, <2>1, <2>2 DEF FlowInv, FlowType, PhaseInv, RequestExit
  <2>4. Onward
    BY <1>1, <2>1, <2>2 DEF Onward, RequestExit, ptyVars
  <2> QED
    BY <2>3, <2>4
<1>2. ASSUME CommitAfterCleanup PROVE FlowInv' /\ Onward
  <2>0. cleaners["commit"].pc \in {"verified", "failed"} /\ wv' \in View
    BY <1>0, <1>2, ViewType, ViewNames DEF CommitAfterCleanup, Cleaned
  <2>1. CASE cleaners["commit"].pc = "verified"
    <3>1. CleanerTo("commit", "database") /\ UNCHANGED <<phase, wv, exit>>
      BY <1>2, <2>1 DEF CommitAfterCleanup
    <3>2. /\ cleaners' \in [Cleaners -> Cleaning] /\ cleaners'["commit"].pc = "database"
          /\ \A d \in Cleaners \ {"commit"} : cleaners'[d].pc = cleaners[d].pc
      BY <1>0, <3>1, CleanerToType, CleanerNames
    <3>3. FlowInv'
      BY <1>2, <2>1, <3>1, <3>2 DEF CommitAfterCleanup, FlowInv, FlowType, PhaseInv
    <3>4. Onward
      BY <1>2, <2>1, <3>1, <3>2 DEF CommitAfterCleanup, Onward, Finished, ptyVars
    <3> QED
      BY <3>3, <3>4
  <2>2. CASE cleaners["commit"].pc = "failed"
    <3>1. /\ CleanerTo("commit", "done") /\ exit' = "requested"
          /\ phase' = IF phase = "exitingClean" THEN phase ELSE "exitingUnclean"
      BY <1>2, <2>2 DEF CommitAfterCleanup
    <3>2. /\ cleaners' \in [Cleaners -> Cleaning] /\ cleaners'["commit"].pc = "done"
          /\ \A d \in Cleaners \ {"commit"} : cleaners'[d].pc = cleaners[d].pc
      BY <1>0, <3>1, CleanerToType, CleanerNames
    <3>3. FlowInv'
      BY <1>2, <2>0, <3>1, <3>2 DEF CommitAfterCleanup, FlowInv, FlowType, PhaseInv, Exiting
    <3>4. Onward
      BY <1>2, <2>2, <3>1, <3>2, CleanerNames DEF CommitAfterCleanup, Onward, Finished, ptyVars
    <3> QED
      BY <3>3, <3>4
  <2> QED
    BY <2>0, <2>1, <2>2
<1>3. ASSUME FinishClean PROVE FlowInv' /\ Onward
  <2>1. PICK written \in BOOLEAN :
           /\ phase' = IF phase # "cleaning" THEN phase
                       ELSE IF written THEN "exitingClean" ELSE "exitingUnclean"
           /\ marker' = IF phase = "cleaning" /\ written THEN "quit" ELSE marker
           /\ wv' = IF wv.quit = "waiting"
                    THEN [wv EXCEPT !.quit = IF phase = "cleaning" /\ ~written
                                             THEN "forcing" ELSE "done"]
                    ELSE wv
    BY <1>3 DEF FinishClean
  <2>2. wv' \in View
    BY <1>0, <2>1, ViewType, ViewNames
  <2>3. /\ cleaners' \in [Cleaners -> Cleaning] /\ cleaners'["commit"].pc = "done"
        /\ \A d \in Cleaners \ {"commit"} : cleaners'[d].pc = cleaners[d].pc
    BY <1>0, <1>3, CleanerToType, CleanerNames DEF FinishClean
  <2>4. FlowInv'
    BY <1>0, <1>3, <2>1, <2>2, <2>3 DEF FinishClean, FlowInv, FlowType, PhaseInv, Exiting
  <2>5. Onward
    BY <1>3, <2>1, <2>3, CleanerNames DEF FinishClean, Onward, Finished, ptyVars
  <2> QED
    BY <2>4, <2>5
<1>4. ASSUME Relaunch \/ ProcessExits PROVE FlowInv' /\ Onward
  <2>1. exit # "no" \/ \E c \in Cleaners : cleaners[c].pc \in Finished
    BY <1>0, <1>4, CleanerNames DEF Relaunch, ProcessExits
  <2> QED
    BY <1>0, <1>4, <2>1 DEF Relaunch, ProcessExits, FlowInv, FlowType, PhaseInv, Onward, ptyVars
<1> QED
  BY <1>1, <1>2, <1>3, <1>4 DEF RequestExit

-----------------------------------------------------------------------------
(* The terminals while cleanups come and go.                               *)

Opening == {"permit", "created", "refused"}

\* What a terminal may do beside a cleanup: a handle in the hands of one
\* stays there, a flag that is set stays set, no dead shell runs again; and
\* the window's handler takes and drops.
Aside(r, n) ==
    /\ r.at = "absent" => n.at \in {"absent", "permit"} /\ (n.at = "permit" => accepting)
    /\ r.at \notin Opening \cup {"absent"} =>
          /\ \/ n.at = "dropped"
             \/ n.at = r.at /\ n.by = r.by
             \/ n.at = "drained" /\ n.by = "window"
          /\ n.shell = "running" => r.shell = "running"
          /\ r.stop => n.stop
    /\ n.at \in {"drained", "unverified"} =>
          (n.at = r.at /\ n.by = r.by) \/ (n.at = "drained" /\ n.by = "window")
    /\ n.at = "dropped" /\ n.shell = "running" =>
          ~unix \/ (r.at = "dropped" /\ r.shell = "running")

Beside ==
    /\ UNCHANGED <<unix, accepting, phase, cleaners, owner, exit>>
    /\ \A p \in Procs : Aside(pty[p], pty'[p])

LEMMA SetAside ==
    ASSUME RowInv, NEW p \in Procs, NEW n, Set(p, n), Aside(pty[p], n),
           UNCHANGED <<unix, accepting, phase, cleaners, owner, exit>>
    PROVE  Beside
<1>1. pty' = [pty EXCEPT ![p] = n] /\ pty \in [Procs -> Rows]
  BY DEF Set, RowInv
<1>2. \A q \in Procs \ {p} : pty'[q] = pty[q]
  BY <1>1
<1>3. \A q \in Procs \ {p} : Aside(pty[q], pty'[q])
  BY <1>2 DEF Aside, Opening
<1>4. pty'[p] = n
  BY <1>1
<1> QED
  BY <1>3, <1>4 DEF Beside

\* A spawn, a reader thread, an acknowledgement and a shell that ends.
LEMMA TerminalBeside ==
    ASSUME RowInv, NEW p \in Procs, UNCHANGED <<phase, cleaners, owner, exit>>,
           SpawnStep(p) \/ FailLate(p) \/ ReaderStep(p) \/ PtyAck(p) \/ ShellExits(p)
    PROVE  Beside
<1>0. pty[p] \in Rows /\ pty[p] \in Row
  BY DEF RowInv, Rows
<1>1. ASSUME SpawnStep(p) \/ FailLate(p) PROVE Beside
  <2>1. UNCHANGED <<unix, accepting>>
    BY <1>1 DEF SpawnStep, Create, Insert, Refuse, FailLate
  <2>2. PICK n \in Rows :
           /\ Set(p, n) /\ pty[p].at \in Opening /\ n.at \notin {"drained", "unverified"}
           /\ n.at = "dropped" => n.shell # "running"
    <3>1. CASE Create(p)
      <4>1. [pty[p] EXCEPT !.at = "created", !.shell = "running", !.reader = "reading"] \in Rows
        BY <1>0, <3>1 DEF Create, Rows, Row, Kept, Places
      <4>2. [pty[p] EXCEPT !.at = "dropped", !.tab = NoTab, !.cancelled = FALSE] \in Rows
        BY <1>0, <3>1 DEF Create, Rows, Row, Kept, Places
      <4>3. /\ [pty[p] EXCEPT !.at = "created", !.shell = "running", !.reader = "reading"].at = "created"
            /\ [pty[p] EXCEPT !.at = "dropped", !.tab = NoTab, !.cancelled = FALSE].at = "dropped"
            /\ [pty[p] EXCEPT !.at = "dropped", !.tab = NoTab, !.cancelled = FALSE].shell = "none"
        BY <1>0, <3>1 DEF Create, Rows, Kept, Row
      <4> QED
        BY <3>1, <4>1, <4>2, <4>3 DEF Create, Opening
    <3>2. CASE Insert(p)
      <4>1. \A at \in {"mapped", "refused"} :
               [pty[p] EXCEPT !.at = at] \in Rows /\ [pty[p] EXCEPT !.at = at].at = at
        BY <1>0, <3>2 DEF Insert, Rows, Row, Kept, Places
      <4> QED
        BY <3>2, <4>1 DEF Insert, Opening
    <3>3. CASE Refuse(p)
      <4>1. /\ Killed(pty[p]) \in Rows /\ Killed(pty[p]).at = "dropped"
            /\ Killed(pty[p]).shell # "running"
        BY <1>0, KilledRow
      <4> DEFINE s == Survived(pty[p], "mapped")
                 kept == [s EXCEPT !.tab = IF Session(@) = {} THEN @ ELSE NoTab]
      <4>2. s \in Rows /\ s.at = "mapped"
        <5>1. pty[p].by # "window"
          BY <1>0, <3>3 DEF Refuse, Rows, Kept
        <5> QED
          BY <1>0, <5>1, SurvivedRow
      <4> HIDE DEF s
      <4>3. kept \in Rows /\ kept.at = "mapped"
        BY <4>2 DEF Rows, Row, Kept
      <4> USE DEF s
      <4> QED
        BY <3>3, <4>1, <4>3 DEF Refuse, Opening
    <3>4. CASE FailLate(p)
      <4>1. PICK reader \in {"none", "reading"} :
               Set(p, [pty[p] EXCEPT !.at = "leaked", !.tab = NoTab, !.cancelled = FALSE,
                                     !.shell = "running", !.reader = reader])
        BY <3>4 DEF FailLate
      <4> DEFINE leaked == [pty[p] EXCEPT !.at = "leaked", !.tab = NoTab, !.cancelled = FALSE,
                                          !.shell = "running", !.reader = reader]
      <4>2. leaked \in Rows /\ leaked.at = "leaked" /\ pty[p].at = "permit"
        BY <1>0, <3>4 DEF FailLate, Rows, Row, Kept, Places
      <4> QED
        BY <4>1, <4>2 DEF Opening
    <3> QED
      BY <1>1, <3>1, <3>2, <3>3, <3>4 DEF SpawnStep
  <2>3. Aside(pty[p], n)
    BY <2>2 DEF Aside, Opening
  <2> QED
    BY <2>1, <2>2, <2>3, SetAside
<1>2. ASSUME NEW n, Set(p, n), UNCHANGED <<unix, accepting>>, n.at = pty[p].at, n.by = pty[p].by,
             n.stop = pty[p].stop, n.shell \in {pty[p].shell, "dead"}
      PROVE  Beside
  <2>1. Aside(pty[p], n)
    BY <1>2 DEF Aside, Opening
  <2> QED
    BY <1>2, <2>1, SetAside
<1>3. ASSUME WaitUntilResumed(p) PROVE Beside
  <2>1. PICK s \in {"paused", "reading", "stopped"} : Set(p, [pty[p] EXCEPT !.reader = s])
    BY <1>3 DEF WaitUntilResumed
  <2> DEFINE n == [pty[p] EXCEPT !.reader = s]
  <2>2. n.at = pty[p].at /\ n.by = pty[p].by /\ n.stop = pty[p].stop /\ n.shell = pty[p].shell
    BY <1>0 DEF Row
  <2> QED
    BY <1>2, <1>3, <2>1, <2>2 DEF WaitUntilResumed
<1>4. ASSUME Read(p) PROVE Beside
  <2>1. CASE \E k \in 1..ReadMax : Set(p, [pty[p] EXCEPT !.out = @ + k, !.unacked = @ + k])
    <3>1. PICK k \in 1..ReadMax : Set(p, [pty[p] EXCEPT !.out = @ + k, !.unacked = @ + k])
      BY <2>1
    <3> DEFINE n == [pty[p] EXCEPT !.out = @ + k, !.unacked = @ + k]
    <3>2. n.at = pty[p].at /\ n.by = pty[p].by /\ n.stop = pty[p].stop /\ n.shell = pty[p].shell
      BY <1>0 DEF Row
    <3> QED
      BY <1>2, <1>4, <3>1, <3>2 DEF Read
  <2>2. CASE Set(p, [pty[p] EXCEPT !.reader = "stopped"])
    <3> DEFINE n == [pty[p] EXCEPT !.reader = "stopped"]
    <3>1. n.at = pty[p].at /\ n.by = pty[p].by /\ n.stop = pty[p].stop /\ n.shell = pty[p].shell
      BY <1>0 DEF Row
    <3> QED
      BY <1>2, <1>4, <2>2, <3>1 DEF Read
  <2> QED
    BY <1>4, <2>1, <2>2 DEF Read
<1>5. ASSUME PtyAck(p) PROVE Beside
  <2>1. PICK k \in 1..pty[p].unacked :
           Set(p, [pty[p] EXCEPT !.unacked = @ - k,
                       !.out = IF pty[p].at = "mapped" THEN @ - k ELSE @])
    BY <1>5 DEF PtyAck
  <2> DEFINE n == [pty[p] EXCEPT !.unacked = @ - k,
                       !.out = IF pty[p].at = "mapped" THEN @ - k ELSE @]
  <2>2. n.at = pty[p].at /\ n.by = pty[p].by /\ n.stop = pty[p].stop /\ n.shell = pty[p].shell
    BY <1>0 DEF Row
  <2> QED
    BY <1>2, <1>5, <2>1, <2>2 DEF PtyAck
<1>6. ASSUME ShellExits(p) PROVE Beside
  <2> DEFINE n == [pty[p] EXCEPT !.shell = "dead"]
  <2>1. n.at = pty[p].at /\ n.by = pty[p].by /\ n.stop = pty[p].stop /\ n.shell = "dead"
    BY <1>0 DEF Row
  <2> QED
    BY <1>2, <1>6, <2>1 DEF ShellExits
<1> QED
  BY <1>1, <1>3, <1>4, <1>5, <1>6 DEF ReaderStep

\* The window's handler kills what it took, and drops it.
LEMMA WindowBeside ==
    ASSUME RowInv, NEW p \in Procs, WindowKills(p)
    PROVE  RowInv' /\ Beside
<1>0. /\ pty[p] \in Rows /\ pty[p].at = "drained" /\ pty[p].by = "window"
      /\ UNCHANGED <<unix, accepting, phase, cleaners, owner, exit>>
  BY DEF RowInv, WindowKills, Held, exitVars
<1>1. failures' \in 0..MaxFailures
  BY TerminalAssumption DEF RowInv, WindowKills, Unverified
<1>2. ASSUME NEW n \in Rows, Set(p, n), n.at = "dropped", n.stop,
             n.shell = "running" => pty[p].shell = "running" /\ ~unix
      PROVE  RowInv' /\ Beside
  <2>1. Aside(pty[p], n)
    BY <1>0, <1>2 DEF Aside, Opening
  <2> QED
    BY <1>0, <1>1, <1>2, <2>1, SetRow, SetAside DEF RowInv
<1>3. CASE Set(p, Killed(pty[p]))
  BY <1>0, <1>2, <1>3, KilledRow
<1>4. CASE Unverified /\ Set(p, Survived(pty[p], "dropped"))
  BY <1>0, <1>2, <1>4, SurvivedRow DEF Unverified
<1> QED
  BY <1>3, <1>4 DEF WindowKills

\* A tab opened or closed, a webview reloaded or gone.
LEMMA TabBeside ==
    ASSUME RowInv, UNCHANGED <<phase, cleaners, owner, exit>>,
           (\E t \in Tabs : BeginSpawn(t) \/ PtyKill(t)) \/ ReloadWebview \/ WindowDestroyed
    PROVE  Beside
<1>0. \A p \in Procs : pty[p] \in Rows /\ pty[p] \in Row
  BY DEF RowInv, Rows
<1>k. ASSUME NEW p \in Procs, pty[p].at = "mapped"
      PROVE  Aside(pty[p], Killed(pty[p])) /\ Aside(pty[p], Survived(pty[p], "mapped"))
  <2>1. /\ Killed(pty[p]).at = "dropped" /\ Killed(pty[p]).shell # "running" /\ Killed(pty[p]).stop
    BY <1>0, KilledRow
  <2>2. LET s == Survived(pty[p], "mapped")
        IN  s.at = "mapped" /\ s.by = pty[p].by /\ s.shell = pty[p].shell /\ s.stop
    <3>1. pty[p].by # "window"
      BY <1>0, <1>k DEF Rows, Kept
    <3> QED
      BY <1>0, <3>1, SurvivedRow
  <2> QED
    BY <1>k, <2>1, <2>2 DEF Aside, Opening
<1>a. \A p \in Procs : Aside(pty[p], pty[p])
  BY DEF Aside, Opening
<1>1. ASSUME NEW t \in Tabs, BeginSpawn(t) PROVE Beside
  <2>1. PICK p \in Procs : pty[p].at = "absent" /\ Set(p, [pty[p] EXCEPT !.at = "permit", !.tab = t])
    BY <1>1 DEF BeginSpawn
  <2> DEFINE n == [pty[p] EXCEPT !.at = "permit", !.tab = t]
  <2>2. n.at = "permit" /\ accepting
    BY <1>0, <1>1 DEF Row, BeginSpawn
  <2>3. Aside(pty[p], n)
    BY <2>1, <2>2 DEF Aside, Opening
  <2> QED
    BY <1>1, <2>1, <2>3, SetAside DEF BeginSpawn
<1>2. ASSUME NEW t \in Tabs, PtyKill(t) PROVE Beside
  <2>1. ASSUME NEW p \in Procs, p \in Pending(t)
        PROVE  Aside(pty[p], [pty[p] EXCEPT !.cancelled = TRUE])
    <3>1. [pty[p] EXCEPT !.cancelled = TRUE].at = pty[p].at /\ pty[p].at \in Opening
      BY <1>0, <2>1 DEF Row, Pending, InFlight, Opening
    <3> QED
      BY <3>1 DEF Aside, Opening
  <2>2. PICK survives \in SUBSET Session(t) :
           pty' = [p \in Procs |->
               IF p \in Pending(t) THEN [pty[p] EXCEPT !.cancelled = TRUE]
               ELSE IF p \in survives THEN Survived(pty[p], "mapped")
               ELSE IF p \in Session(t) THEN Killed(pty[p]) ELSE pty[p]]
    BY <1>2 DEF PtyKill
  <2>3. Session(t) \subseteq Mapped
    BY DEF Session
  <2>4. \A p \in Procs : Aside(pty[p], pty'[p])
    BY <1>k, <1>a, <2>1, <2>2, <2>3 DEF Mapped
  <2> QED
    BY <1>2, <2>4 DEF Beside, PtyKill
<1>3. ASSUME ReloadWebview PROVE Beside
  <2>1. ASSUME NEW p \in Procs PROVE Aside(pty[p], pty'[p])
    <3>1. pty'[p] = [pty[p] EXCEPT !.unacked = 0]
      BY <1>3 DEF ReloadWebview
    <3>2. /\ pty'[p].at = pty[p].at /\ pty'[p].by = pty[p].by
          /\ pty'[p].stop = pty[p].stop /\ pty'[p].shell = pty[p].shell
      BY <1>0, <3>1 DEF Row
    <3> QED
      BY <3>2 DEF Aside, Opening
  <2> QED
    BY <1>3, <2>1 DEF ReloadWebview, Beside
<1>4. ASSUME WindowDestroyed PROVE Beside
  <2>1. ASSUME NEW p \in Procs PROVE Aside(pty[p], pty'[p])
    <3>1. CASE pty[p].at = "mapped"
      <4>1. pty'[p] = [pty[p] EXCEPT !.at = "drained", !.by = "window"]
        BY <1>4, <3>1 DEF WindowDestroyed, Mapped
      <4>2. /\ pty'[p].at = "drained" /\ pty'[p].by = "window"
            /\ pty'[p].stop = pty[p].stop /\ pty'[p].shell = pty[p].shell
        BY <1>0, <4>1 DEF Row
      <4> QED
        BY <3>1, <4>2 DEF Aside, Opening
    <3>2. CASE pty[p].at # "mapped"
      BY <1>4, <1>a, <3>2 DEF WindowDestroyed, Mapped
    <3> QED
      BY <3>1, <3>2
  <2> QED
    BY <1>4, <2>1 DEF WindowDestroyed, Beside
<1> QED
  BY <1>1, <1>2, <1>3, <1>4

-----------------------------------------------------------------------------
(* The sweep.                                                              *)

\* Nobody can vouch for a shell whose spawn failed, or that the window took.
Loose(p) == pty[p].at = "leaked" \/ pty[p].by = "window"
Swept(p) == Running(p) => pty[p].stop \/ pty[p].at \in {"drained", "leaked"}

\* A handle is in the hands of a cleanup that is killing, or of the window.
HeldInv ==
    \A p \in Procs : pty[p].at \in {"drained", "unverified"} =>
        \/ pty[p].by \in Cleaners /\ cleaners[pty[p].by].pc = "kill"
        \/ pty[p].at = "drained" /\ pty[p].by = "window"
\* One path cleans up at a time, but for the run loop's own.
MutexInv == \A c \in Cleaners \ {"exit"} : cleaners[c].pc \in {"drain", "kill"} => owner = c
\* The gate is shut by whoever begins.
GateInv == \A c \in Cleaners : cleaners[c].pc \notin {"idle", "lock"} => ~accepting
\* Once a map was taken nothing is being opened, and a shell that runs was
\* told to stop or is about to be.
SweptInv ==
    \A c \in Cleaners : cleaners[c].pc \in Finished \cup {"kill"} =>
        InFlight = {} /\ \A p \in Procs : Swept(p)
\* Without the run loop's cleanup nobody puts anything back during a kill,
MapInv ==
    cleaners["exit"].pc = "idle" =>
        \A c \in Cleaners : cleaners[c].pc = "kill" => Mapped = {}
\* all that runs after one was told to stop,
StopInv ==
    cleaners["exit"].pc = "idle" =>
        \A c \in Cleaners : cleaners[c].pc \in Finished =>
            \A p \in Procs : Running(p) => pty[p].stop \/ Loose(p)
\* and nothing runs after one that was verified.
QuietInv ==
    /\ cleaners["exit"].pc = "idle"
    /\ cleaners["commit"].pc \in {"verified", "database"} \/ phase = "exitingClean"
    => \A p \in Procs : Running(p) => Loose(p)
\* On Unix every kill ends its shell.
LostInv == unix => \A p \in Procs : Running(p) => pty[p].at # "dropped"
\* Nobody asks for the exit before some cleanup has ended.
AskedInv == exit # "no" => \E c \in Cleaners : cleaners[c].pc \in Finished

SweepInv ==
    /\ HeldInv /\ MutexInv /\ GateInv /\ SweptInv
    /\ MapInv /\ StopInv /\ QuietInv /\ LostInv /\ AskedInv

\* Steps that leave the terminals alone keep it.
LEMMA SweepOnward == ASSUME FlowInv, SweepInv, Onward PROVE SweepInv'
<1>0. \A c \in Cleaners :
         /\ cleaners'[c].pc \in Finished => cleaners[c].pc \in Finished
         /\ cleaners[c].pc \in Finished => cleaners'[c].pc \in Finished
         /\ cleaners'[c].pc \in {"drain", "kill"} => cleaners'[c].pc = cleaners[c].pc
         /\ cleaners[c].pc = "kill" => cleaners'[c].pc = "kill"
         /\ cleaners'[c].pc = "idle" => cleaners[c].pc = "idle"
         /\ cleaners'[c].pc \notin {"idle", "lock"} => cleaners[c].pc \notin {"idle", "lock"}
  BY DEF Onward, Finished
<1>1. /\ UNCHANGED <<unix, pty, accepting, owner>>
      /\ "exit" \in Cleaners /\ "commit" \in Cleaners
  BY CleanerNames DEF Onward
<1>2. HeldInv' /\ MutexInv' /\ GateInv'
  BY <1>0, <1>1 DEF SweepInv, HeldInv, MutexInv, GateInv
<1>3. SweptInv' /\ MapInv' /\ StopInv'
  BY <1>0, <1>1 DEF SweepInv, SweptInv, Swept, MapInv, StopInv, Running, InFlight, Mapped, Loose
<1>4. QuietInv' /\ LostInv'
  BY <1>0, <1>1 DEF SweepInv, QuietInv, LostInv, Running, Loose, Onward
<1>5. AskedInv'
  BY <1>0 DEF SweepInv, AskedInv, Onward
<1> QED
  BY <1>2, <1>3, <1>4, <1>5 DEF SweepInv

\* What is left of a shell that runs on beside a cleanup.
Left(r, n) ==
    /\ r.shell = "running" /\ (r.stop => n.stop)
    /\ \/ n.at = r.at /\ n.by = r.by
       \/ n.by = "window" /\ (n.at = "drained" \/ (n.at = "dropped" /\ n.stop))

\* So do the terminals, which no longer open once the gate is shut.
LEMMA SweepBeside == ASSUME RowInv, RowInv', PhaseInv, SweepInv, Beside PROVE SweepInv'
<1>0. /\ UNCHANGED <<unix, accepting, phase, cleaners, owner, exit>>
      /\ \A p \in Procs : Aside(pty[p], pty'[p])
      /\ \A p \in Procs : pty[p] \in Rows /\ pty'[p] \in Rows
  BY DEF Beside, RowInv
<1>1. HeldInv' /\ MutexInv' /\ GateInv' /\ AskedInv' /\ LostInv'
  <2>1. HeldInv'
    BY <1>0 DEF SweepInv, HeldInv, Aside
  <2>2. LostInv'
    BY <1>0 DEF SweepInv, LostInv, Running, Aside
  <2> QED
    BY <1>0, <2>1, <2>2 DEF SweepInv, MutexInv, GateInv, AskedInv
<1>2. ASSUME ~accepting, InFlight = {}
      PROVE  /\ InFlight' = {} /\ Mapped' \subseteq Mapped
             /\ \A p \in Procs : pty'[p].shell = "running" => Left(pty[p], pty'[p])
  <2>1. ASSUME NEW p \in Procs
        PROVE  /\ pty'[p].at \notin Opening /\ (pty'[p].at = "mapped" => pty[p].at = "mapped")
               /\ pty'[p].shell = "running" => Left(pty[p], pty'[p])
    <3>1. pty[p].at \notin Opening
      BY <1>2 DEF InFlight, Opening
    <3>2. Aside(pty[p], pty'[p])
      BY <1>0
    <3>3. CASE pty[p].at = "absent"
      <4>1. pty'[p].at = "absent"
        BY <1>2, <3>2, <3>3 DEF Aside
      <4>2. pty'[p].shell = "none"
        BY <1>0, <4>1 DEF Rows, Kept
      <4> QED
        BY <4>1, <4>2 DEF Opening
    <3>4. CASE pty[p].at # "absent"
      <4>1. pty'[p].at = "dropped" /\ pty'[p].shell = "running"
               => pty'[p].by = "window" /\ pty'[p].stop
        BY <1>0 DEF Rows, Kept
      <4> QED
        BY <3>1, <3>2, <3>4, <4>1 DEF Aside, Opening, Left
    <3> QED
      BY <3>3, <3>4
  <2> QED
    BY <2>1 DEF InFlight, Mapped, Running, Opening
<1>3. ASSUME NEW c \in Cleaners, cleaners[c].pc \in Finished \cup {"kill"}
      PROVE  ~accepting /\ InFlight = {}
  BY <1>3 DEF SweepInv, SweptInv, GateInv, Finished
<1>4. SweptInv' /\ StopInv'
  BY <1>0, <1>2, <1>3 DEF SweepInv, SweptInv, Swept, StopInv, Running, Loose, Left
<1>5. MapInv'
  BY <1>0, <1>2, <1>3 DEF SweepInv, MapInv
<1>6. QuietInv'
  <2>1. cleaners["commit"].pc \in {"verified", "database"} \/ phase = "exitingClean"
          => cleaners["commit"].pc \in Finished /\ "commit" \in Cleaners
    BY CleanerNames DEF PhaseInv, Finished
  <2> QED
    BY <1>0, <1>2, <1>3, <2>1 DEF SweepInv, QuietInv, Running, Loose, Left
<1> QED
  BY <1>1, <1>4, <1>5, <1>6 DEF SweepInv

\* A cleanup begins: the gate is shut before anything is taken.
LEMMA LockStep ==
    ASSUME RowInv, FlowInv, SweepInv, NEW c \in Cleaners, LockCleanup(c)
    PROVE  FlowInv' /\ SweepInv'
<1>0. /\ cleaners \in [Cleaners -> Cleaning] /\ "commit" \in Cleaners /\ "exit" \in Cleaners
      /\ owner \in Cleaners \cup {Nobody} /\ Nobody \notin Cleaners
  BY CleanerNames DEF FlowInv, FlowType, Cleaners, Nobody
<1>1. /\ cleaners[c].pc = "lock" /\ (owner = Nobody \/ c = "exit")
      /\ owner' = IF c = "exit" THEN owner ELSE c
      /\ accepting' = FALSE
      /\ UNCHANGED <<unix, pty, phase, wv, marker, exit>>
  BY DEF LockCleanup
<1>2. /\ cleaners' \in [Cleaners -> Cleaning] /\ cleaners'[c].pc = "drain"
      /\ \A d \in Cleaners \ {c} : cleaners'[d].pc = cleaners[d].pc
  BY <1>0, CleanerToType, CleanerNames DEF LockCleanup
<1>3. FlowInv'
  BY <1>0, <1>1, <1>2 DEF FlowInv, FlowType, PhaseInv
<1>4. HeldInv' /\ MutexInv' /\ GateInv'
  BY <1>0, <1>1, <1>2 DEF SweepInv, HeldInv, MutexInv, GateInv
<1>5. SweptInv' /\ MapInv' /\ StopInv' /\ QuietInv' /\ LostInv' /\ AskedInv'
  BY <1>0, <1>1, <1>2 DEF SweepInv, SweptInv, Swept, MapInv, StopInv, QuietInv, LostInv, AskedInv,
                          Running, Loose, InFlight, Mapped, Finished
<1> QED
  BY <1>3, <1>4, <1>5 DEF SweepInv

\* It takes the map once no terminal is being opened.
LEMMA DrainStep ==
    ASSUME RowInv, FlowInv, SweepInv, NEW c \in Cleaners, DrainSessions(c)
    PROVE  FlowInv' /\ SweepInv'
<1>0. /\ cleaners \in [Cleaners -> Cleaning] /\ "commit" \in Cleaners /\ "exit" \in Cleaners
      /\ "kill" \in CleanerStates /\ "kill" \notin Finished
  BY CleanerNames DEF FlowInv, FlowType, Finished
<1>1. /\ cleaners[c].pc = "drain" /\ InFlight = {}
      /\ UNCHANGED <<unix, accepting, owner, phase, wv, marker, exit>>
  BY DEF DrainSessions
<1>2. /\ cleaners' \in [Cleaners -> Cleaning] /\ cleaners'[c].pc = "kill"
      /\ \A d \in Cleaners \ {c} : cleaners'[d].pc = cleaners[d].pc
  BY <1>0 DEF DrainSessions, Cleaning
<1>3. ASSUME NEW p \in Procs
      PROVE  /\ pty'[p].stop = pty[p].stop /\ pty'[p].shell = pty[p].shell
             /\ pty[p].at = "mapped" => pty'[p].at = "drained" /\ pty'[p].by = c
             /\ pty[p].at # "mapped" => pty'[p].at = pty[p].at /\ pty'[p].by = pty[p].by
             /\ pty[p].at \notin Opening /\ (pty[p].by = "window" => pty[p].at # "mapped")
             /\ pty[p].shell = "running" =>
                   pty[p].at \in {"mapped", "drained", "leaked"} \/ pty[p].stop
  <2>1. pty[p] \in Row /\ Kept(pty[p])
    BY DEF RowInv, Rows
  <2>2. pty'[p] = IF pty[p].at = "mapped" THEN [pty[p] EXCEPT !.at = "drained", !.by = c] ELSE pty[p]
    BY DEF DrainSessions, Mapped
  <2>3. pty[p].at \notin Opening
    BY <1>1 DEF InFlight, Opening
  <2>4. pty[p].shell = "running" =>
           pty[p].at \in {"mapped", "drained", "leaked"} \/ pty[p].stop
    BY <2>1, <2>3 DEF Kept, Row, Places, Opening
  <2>5. pty[p].by = "window" => pty[p].at # "mapped"
    BY <2>1 DEF Kept
  <2> QED
    BY <2>1, <2>2, <2>3, <2>4, <2>5 DEF Row
<1>4. FlowInv'
  BY <1>0, <1>1, <1>2 DEF FlowInv, FlowType, PhaseInv
<1>5. HeldInv' /\ MutexInv' /\ GateInv'
  BY <1>0, <1>1, <1>2, <1>3 DEF SweepInv, HeldInv, MutexInv, GateInv
<1>6. InFlight' = {} /\ Mapped' = {} /\ \A p \in Procs : Swept(p)'
  BY <1>3 DEF InFlight, Mapped, Swept, Running, Opening
<1>7. SweptInv' /\ MapInv'
  BY <1>6 DEF SweptInv, MapInv
<1>8. StopInv' /\ QuietInv' /\ LostInv' /\ AskedInv'
  BY <1>0, <1>1, <1>2, <1>3 DEF SweepInv, StopInv, QuietInv, LostInv, AskedInv, Running, Loose,
                                Finished
<1> QED
  BY <1>4, <1>5, <1>7, <1>8 DEF SweepInv

\* It kills what it took, or learns that it could not.
LEMMA KillStep ==
    ASSUME RowInv, FlowInv, SweepInv, NEW c \in Cleaners, NEW p \in Procs, KillDrained(c, p)
    PROVE  FlowInv' /\ SweepInv'
<1>1. UNCHANGED <<unix, accepting, phase, cleaners, owner, wv, marker, exit>>
  BY DEF KillDrained, exitVars
<1>2. pty[p].at = "drained" /\ cleaners[c].pc = "kill" /\ pty[p].by = c
  BY DEF KillDrained, Held
<1>3. \A q \in Procs \ {p} : pty'[q] = pty[q]
  BY DEF KillDrained, Set, RowInv
<1>4. /\ pty'[p].stop /\ (pty'[p].shell = "running" => pty[p].shell = "running")
      /\ \/ pty'[p].at = "dropped" /\ pty'[p].shell # "running"
         \/ pty'[p].at = "unverified" /\ pty'[p].by = c
  <2>1. pty[p] \in Rows /\ pty \in [Procs -> Rows]
    BY DEF RowInv
  <2>2. CASE Set(p, Killed(pty[p]))
    <3>1. pty'[p] = Killed(pty[p])
      BY <2>1, <2>2 DEF Set
    <3> QED
      BY <2>1, <3>1, KilledRow
  <2>3. CASE Set(p, Survived(pty[p], "unverified"))
    <3>1. pty'[p] = Survived(pty[p], "unverified")
      BY <2>1, <2>3 DEF Set
    <3> QED
      BY <1>2, <2>1, <3>1, SurvivedRow, WindowIsNone
  <2> QED
    BY <2>2, <2>3 DEF KillDrained
<1>5. FlowInv'
  BY <1>1 DEF FlowInv, FlowType, PhaseInv
<1>6. HeldInv' /\ MutexInv' /\ GateInv' /\ AskedInv'
  BY <1>1, <1>2, <1>3, <1>4 DEF SweepInv, HeldInv, MutexInv, GateInv, AskedInv
<1>7. InFlight' \subseteq InFlight /\ Mapped' \subseteq Mapped
  BY <1>3, <1>4 DEF InFlight, Mapped
<1>8. \A q \in Procs : Swept(q) => Swept(q)'
  BY <1>3, <1>4 DEF Swept, Running
<1>9. SweptInv' /\ MapInv'
  BY <1>1, <1>7, <1>8 DEF SweepInv, SweptInv, MapInv
<1>10. StopInv' /\ QuietInv' /\ LostInv'
  <2>1. ~Loose(p)
    BY <1>2, WindowIsNone DEF Loose
  <2> QED
    BY <1>1, <1>3, <1>4, <2>1 DEF SweepInv, StopInv, QuietInv, LostInv, Running, Loose
<1> QED
  BY <1>5, <1>6, <1>9, <1>10 DEF SweepInv

\* And it ends, or goes over what is left once more.
LEMMA EndStep ==
    ASSUME RowInv, FlowInv, SweepInv, NEW c \in Cleaners, EndPass(c)
    PROVE  FlowInv' /\ SweepInv'
<1> DEFINE survivors == Held(c, "unverified")
           again == survivors # {} /\ c # "exit" /\ cleaners[c].attempt = 1
<1>0. /\ cleaners \in [Cleaners -> Cleaning] /\ "commit" \in Cleaners /\ "exit" \in Cleaners
      /\ owner \in Cleaners \cup {Nobody} /\ Nobody \notin Cleaners
  BY CleanerNames DEF FlowInv, FlowType, Cleaners, Nobody
<1>1. /\ cleaners[c].pc = "kill" /\ Held(c, "drained") = {}
      /\ pty' = [p \in Procs |-> IF p \in survivors
                   THEN [pty[p] EXCEPT !.at = "mapped", !.by = Nobody] ELSE pty[p]]
      /\ cleaners' = [cleaners EXCEPT ![c] =
             IF again THEN [pc |-> "drain", attempt |-> 2]
             ELSE [pc |-> IF survivors = {} THEN "verified" ELSE "failed", attempt |-> 1]]
      /\ owner' = IF owner = c /\ ~again THEN Nobody ELSE owner
      /\ UNCHANGED <<unix, accepting, phase, wv, marker, exit>>
  BY DEF EndPass
<1>2. ASSUME NEW p \in Procs
      PROVE  /\ pty'[p].stop = pty[p].stop /\ pty'[p].shell = pty[p].shell
             /\ p \in survivors => /\ pty[p].at = "unverified" /\ pty[p].stop
                                   /\ pty'[p].at = "mapped" /\ ~Loose(p)
             /\ p \notin survivors => pty'[p] = pty[p]
  <2>1. pty[p] \in Row /\ Kept(pty[p])
    BY DEF RowInv, Rows
  <2>2. p \in survivors => pty[p].at = "unverified"
    BY DEF Held
  <2>3. pty'[p] = IF p \in survivors THEN [pty[p] EXCEPT !.at = "mapped", !.by = Nobody] ELSE pty[p]
    BY <1>1
  <2>4. p \in survivors => ~Loose(p)
    BY <2>1, <2>2 DEF Loose, Kept
  <2> QED
    BY <2>1, <2>2, <2>3, <2>4 DEF Row, Kept
<1>3. /\ cleaners' \in [Cleaners -> Cleaning]
      /\ cleaners'[c].pc = IF again THEN "drain" ELSE IF survivors = {} THEN "verified" ELSE "failed"
      /\ \A d \in Cleaners \ {c} : cleaners'[d].pc = cleaners[d].pc
  <2>1. /\ [pc |-> "drain", attempt |-> 2] \in Cleaning
        /\ [pc |-> IF survivors = {} THEN "verified" ELSE "failed", attempt |-> 1] \in Cleaning
    BY CleanerNames DEF Cleaning
  <2> QED
    BY <1>0, <1>1, <2>1
<1>4. FlowInv'
  BY <1>0, <1>1, <1>3 DEF FlowInv, FlowType, PhaseInv
<1>5. \A d \in Cleaners \ {"exit"} :
         c # "exit" /\ cleaners[d].pc \in {"drain", "kill"} => d = c
  BY <1>1 DEF SweepInv, MutexInv
<1>6. HeldInv'
  <2>1. ASSUME NEW p \in Procs, pty'[p].at \in {"drained", "unverified"}
        PROVE  \/ pty'[p].by \in Cleaners /\ cleaners'[pty'[p].by].pc = "kill"
               \/ pty'[p].at = "drained" /\ pty'[p].by = "window"
    <3>1. p \notin survivors /\ pty'[p] = pty[p]
      BY <1>2, <2>1
    <3>2. pty[p].by # c
      BY <1>1, <2>1, <3>1 DEF Held
    <3> QED
      BY <1>3, <2>1, <3>1, <3>2 DEF SweepInv, HeldInv
  <2> QED
    BY <2>1 DEF HeldInv
<1>7. MutexInv'
  BY <1>0, <1>1, <1>3 DEF SweepInv, MutexInv
<1>8. GateInv'
  BY <1>0, <1>1, <1>3 DEF SweepInv, GateInv
<1>9. ~accepting /\ InFlight = {} /\ \A p \in Procs : Swept(p)
  BY <1>1 DEF SweepInv, SweptInv, GateInv
<1>10. InFlight' = {} /\ \A p \in Procs : Swept(p)'
  BY <1>2, <1>9 DEF InFlight, Swept, Running
<1>11. MapInv' /\ SweptInv'
  BY <1>0, <1>1, <1>3, <1>5, <1>10 DEF MapInv, SweptInv
<1>12. ASSUME cleaners["exit"].pc = "idle"
       PROVE  \A p \in Procs : Running(p) => pty[p].stop \/ Loose(p)
  <2>1. ASSUME NEW p \in Procs, Running(p), ~pty[p].stop, ~Loose(p) PROVE FALSE
    <3>1. pty[p].at = "drained"
      BY <1>9, <2>1 DEF Swept, Loose
    <3>2. /\ pty[p].by \in Cleaners /\ cleaners[pty[p].by].pc = "kill"
      BY <2>1, <3>1 DEF SweepInv, HeldInv, Loose
    <3>3. pty[p].by = c
      BY <1>1, <1>5, <1>12, <3>2
    <3> QED
      BY <1>1, <3>1, <3>3 DEF Held
  <2> QED
    BY <2>1
<1>13. cleaners'["exit"].pc = "idle" => cleaners["exit"].pc = "idle"
  BY <1>0, <1>3
<1>14. StopInv' /\ LostInv'
  <2>1. ASSUME NEW p \in Procs
        PROVE  /\ Running(p)' => Running(p)
               /\ pty'[p].stop = pty[p].stop
               /\ Loose(p) => Loose(p)'
               /\ pty[p].at # "dropped" => pty'[p].at # "dropped"
    <3>1. CASE p \in survivors
      BY <1>2, <3>1 DEF Running, Loose
    <3>2. CASE p \notin survivors
      BY <1>2, <3>2 DEF Running, Loose
    <3> QED
      BY <3>1, <3>2
  <2>2. unix' = unix
    BY <1>1
  <2>3. StopInv'
    BY <1>12, <1>13, <2>1 DEF StopInv
  <2>4. LostInv'
    BY <2>1, <2>2 DEF SweepInv, LostInv
  <2> QED
    BY <2>3, <2>4
<1>15. QuietInv'
  <2>1. ASSUME cleaners["exit"].pc = "idle", c = "commit", survivors = {}
        PROVE  \A p \in Procs : Running(p) => Loose(p)
    <3>1. ASSUME NEW p \in Procs, Running(p), ~Loose(p) PROVE FALSE
      <4>1. pty[p] \in Row /\ Kept(pty[p])
        BY DEF RowInv, Rows
      <4>2. p \notin Mapped /\ p \notin InFlight
        BY <1>1, <1>9, <2>1 DEF SweepInv, MapInv
      <4>3. pty[p].at \in {"drained", "unverified"}
        BY <3>1, <4>1, <4>2 DEF Mapped, InFlight, Running, Loose, Kept, Row, Places
      <4>4. /\ pty[p].by \in Cleaners /\ cleaners[pty[p].by].pc = "kill"
        BY <3>1, <4>3 DEF SweepInv, HeldInv, Loose
      <4>5. pty[p].by = c
        BY <1>1, <1>5, <2>1, <4>4
      <4> QED
        BY <1>1, <2>1, <4>3, <4>5 DEF Held
    <3> QED
      BY <3>1
  <2>2. phase' = phase /\ "commit" \in Cleaners
    BY <1>0, <1>1
  <2>3. cleaners'["commit"].pc \in {"verified", "database"} =>
           \/ cleaners["commit"].pc \in {"verified", "database"}
           \/ c = "commit" /\ survivors = {}
    BY <1>0, <1>3
  <2> QED
    BY <1>2, <1>13, <2>1, <2>2, <2>3 DEF SweepInv, QuietInv, Running, Loose
<1>16. AskedInv'
  BY <1>0, <1>1, <1>3 DEF SweepInv, AskedInv, Finished
<1> QED
  BY <1>4, <1>6, <1>7, <1>8, <1>11, <1>14, <1>15, <1>16 DEF SweepInv

-----------------------------------------------------------------------------
(* The theorems.                                                           *)

IInv == RowInv /\ FlowInv /\ SweepInv

\* The application starts with no terminal and nobody cleaning up.
LEMMA ExitInit == Init => IInv
<1> SUFFICES ASSUME Init PROVE IInv
  OBVIOUS
<1>1. RowInv
  BY NewRow, TerminalAssumption DEF Init, PtyInit, RowInv
<1>2. \A p \in Procs : pty[p].at = "absent" /\ pty[p].shell = "none"
  BY DEF Init, PtyInit, NewTerminal
<1>3. \A c \in Cleaners : cleaners[c].pc = "idle"
  BY DEF Init
<1>4. FlowInv
  <2>1. [pc |-> "idle", attempt |-> 1] \in Cleaning /\ "commit" \in Cleaners
    BY CleanerNames DEF Cleaning
  <2>2. wv \in View
    BY ViewNames DEF Init, View
  <2> QED
    BY <1>3, <2>1, <2>2 DEF Init, FlowInv, FlowType, PhaseInv
<1>5. SweepInv
  BY <1>2, <1>3, CleanerNames DEF Init, SweepInv, HeldInv, MutexInv, GateInv, SweptInv, MapInv,
                              StopInv, QuietInv, LostInv, AskedInv, Running, Finished
<1> QED
  BY <1>1, <1>4, <1>5 DEF IInv

\* Every step keeps terminals, flows and the sweep in order.
LEMMA ExitStep == IInv /\ [Next]_vars => IInv'
<1> SUFFICES ASSUME IInv, [Next]_vars PROVE IInv'
  OBVIOUS
<1>0. RowInv /\ FlowInv /\ SweepInv /\ PhaseInv
  BY DEF IInv, FlowInv
<1>a. ASSUME FlowInv', Onward, UNCHANGED failures PROVE IInv'
  BY <1>0, <1>a, SweepOnward DEF IInv, RowInv, Onward
<1>b. ASSUME RowInv', Beside, wv' \in View, UNCHANGED marker PROVE IInv'
  <2>1. FlowInv'
    BY <1>0, <1>b DEF FlowInv, FlowType, PhaseInv, Beside
  <2> QED
    BY <1>0, <1>b, <2>1, SweepBeside DEF IInv
<1>v. wv \in View
  BY <1>0 DEF FlowInv, FlowType
<1>1. ASSUME NEW c \in Cleaners, Cleanup(c) PROVE IInv'
  <2>1. CASE LockCleanup(c)
    <3>1. RowInv'
      BY <1>0, <2>1 DEF RowInv, LockCleanup
    <3> QED
      BY <1>0, <2>1, <3>1, LockStep DEF IInv
  <2>2. CASE DrainSessions(c)
    BY <1>0, <2>2, SweepRows, DrainStep DEF IInv
  <2>3. ASSUME NEW p \in Procs, KillDrained(c, p) PROVE IInv'
    BY <1>0, <2>3, SweepRows, KillStep DEF IInv
  <2>4. CASE EndPass(c)
    BY <1>0, <2>4, SweepRows, EndStep DEF IInv
  <2>5. CASE RequestExit(c)
    BY <1>0, <1>a, <2>5, EndFlow DEF RequestExit, ptyVars
  <2> QED
    BY <1>1, <2>1, <2>2, <2>3, <2>4, <2>5 DEF Cleanup
<1>2. ASSUME NEW p \in Procs, Terminal(p) \/ Acknowledge(p) PROVE IInv'
  <2>1. (WindowKills(p) \/ SpawnStep(p) \/ ReaderStep(p) \/ PtyAck(p)) /\ UNCHANGED exitVars
    BY <1>2 DEF Terminal, Acknowledge, WindowKills
  <2>2. RowInv' /\ Beside
    BY <1>0, <2>1, SpawnRows, ReaderRows, TerminalBeside, WindowBeside DEF exitVars
  <2> QED
    BY <1>b, <1>v, <2>1, <2>2 DEF exitVars
<1>3. CASE CommitAfterCleanup \/ FinishClean \/ Relaunch \/ ProcessExits
  BY <1>0, <1>a, <1>3, EndFlow DEF CommitAfterCleanup, FinishClean, Relaunch, ProcessExits, ptyVars
<1>4. CASE WatchdogFires \/ RequestQuit \/ QuitCommit \/ QuitForce
  BY <1>0, <1>a, <1>4, QuitFlow DEF WatchdogFires, RequestQuit, QuitCommit, QuitForce, ptyVars
<1>5. CASE \/ Prepare \/ InstallUpdate \/ UpdateApplied \/ ResumePersistence \/ AppRestart
           \/ RunLoopExits
  BY <1>0, <1>a, <1>5, UpdateFlow DEF Prepare, InstallUpdate, UpdateApplied, ResumePersistence,
                                      AppRestart, RunLoopExits, ptyVars
<1>6. ASSUME ReloadWebview \/ WindowDestroyed PROVE IInv'
  <2>1. RowInv'
    BY <1>0, <1>6, WebviewRows
  <2>2. Beside
    BY <1>0, <1>6, TabBeside DEF ReloadWebview, WindowDestroyed
  <2>3. wv' \in View
    <3>1. CASE ReloadWebview
      BY <1>v, <3>1, ViewType, ViewNames DEF ReloadWebview
    <3>2. CASE WindowDestroyed
      BY <3>2, ViewNames DEF WindowDestroyed, View
    <3> QED
      BY <1>6, <3>1, <3>2
  <2> QED
    BY <1>6, <1>b, <2>1, <2>2, <2>3 DEF ReloadWebview, WindowDestroyed
<1>7. ASSUME NEW t \in Tabs, NewTab(t) PROVE IInv'
  BY <1>0, <1>7, <1>b, <1>v, TabRows, TabBeside DEF NewTab, exitVars
<1>8. ASSUME Gesture PROVE IInv'
  <2>1. UNCHANGED <<phase, cleaners, owner, wv, marker, exit>>
    BY <1>8 DEF Gesture
  <2>2. CASE \E t \in Tabs : PtyKill(t)
    BY <1>0, <1>b, <1>v, <2>1, <2>2, TabRows, TabBeside
  <2>3. CASE \E p \in Procs : ShellExits(p) \/ FailLate(p)
    BY <1>0, <1>b, <1>v, <2>1, <2>3, SpawnRows, ReaderRows, TerminalBeside
  <2> QED
    BY <1>8, <2>2, <2>3 DEF Gesture
<1>9. CASE UNCHANGED vars
  <2>1. UNCHANGED <<unix, pty, accepting, failures, phase, cleaners, owner, wv, marker, exit>>
    BY <1>9 DEF vars, ptyVars, exitVars
  <2>2. RowInv' /\ FlowInv'
    BY <1>0, <2>1 DEF RowInv, FlowInv, FlowType, PhaseInv
  <2>3. Onward
    BY <2>1 DEF Onward
  <2> QED
    BY <1>a, <2>1, <2>2, <2>3
<1> QED
  BY <1>1, <1>2, <1>3, <1>4, <1>5, <1>6, <1>7, <1>8, <1>9 DEF Next, Webview

LEMMA ExitInvariant == Spec => []IInv
BY ExitInit, ExitStep, PTL DEF Spec

\* Every variable of the exit and of the terminals has its type.
THEOREM ExitTypes == Spec => []TypeOK
<1>1. IInv => TypeOK
  <2> SUFFICES ASSUME IInv PROVE TypeOK
    OBVIOUS
  <2>1. \A p \in Procs : pty[p] \in Row
    BY DEF IInv, RowInv, Rows
  <2>2. ASSUME NEW p \in Procs
        PROVE  /\ pty[p].at \in Places /\ pty[p].tab \in Tabs \cup {NoTab}
               /\ pty[p].by \in Cleaners \cup {"window", Nobody}
               /\ pty[p].shell \in {"none", "running", "dead"}
               /\ pty[p].reader \in {"none", "reading", "paused", "stopped"}
               /\ pty[p].out \in Nat /\ pty[p].unacked \in Nat
    BY <2>1 DEF Row
  <2>3. \A c \in Cleaners : cleaners[c].pc \in CleanerStates /\ cleaners[c].attempt \in 1..2
    BY DEF IInv, FlowInv, FlowType, Cleaning
  <2>4. wv.quit \in QuitStates /\ wv.update \in UpdateStates
    BY DEF IInv, FlowInv, FlowType, View
  <2> QED
    BY <2>2, <2>3, <2>4 DEF TypeOK, IInv, RowInv, FlowInv, FlowType
<1> QED
  BY <1>1, ExitInvariant, PTL

\* The handle of a shell that runs is never lost, however tabs are opened and
\* closed, kills fail and cleanups overlap, but by the handler of a destroyed
\* window whose kill was not verified.
THEOREM HandlesKept == Spec => []HandleKept
<1>1. IInv => HandleKept
  BY DEF IInv, RowInv, Rows, Kept, SweepInv, LostInv, HandleKept, Running
<1> QED
  BY <1>1, ExitInvariant, PTL

\* No shell is left behind unnoticed when the process is gone.
THEOREM NothingOrphaned == Spec => []NoOrphans
<1>1. IInv => NoOrphans
  <2> SUFFICES ASSUME IInv, exit = "gone", NEW p \in Procs, Running(p)
               PROVE  \/ pty[p].stop \/ pty[p].at = "leaked"
                      \/ /\ pty[p].at = "drained"
                         /\ cleaners["exit"].pc # "idle" \/ pty[p].by = "window"
    BY DEF NoOrphans
  <2>1. PICK c \in Cleaners : cleaners[c].pc \in Finished
    BY DEF IInv, SweepInv, AskedInv
  <2> QED
    BY <2>1 DEF IInv, SweepInv, SweptInv, Swept, StopInv, Loose
<1> QED
  BY <1>1, ExitInvariant, PTL

\* A quit recorded as clean has verified that nothing runs that it could know
\* of, and lets nothing new start.
THEOREM CleanMeansVerified == Spec => []CleanQuitIsVerified
<1>1. IInv => CleanQuitIsVerified
  <2> SUFFICES ASSUME IInv, phase = "exitingClean"
               PROVE  /\ ~accepting /\ InFlight = {}
                      /\ cleaners["exit"].pc = "idle" => \A p \in Procs : Running(p) =>
                            pty[p].at = "leaked" \/ TakenByWindow(p)
    BY DEF CleanQuitIsVerified
  <2>1. cleaners["commit"].pc = "done" /\ "commit" \in Cleaners
    BY CleanerNames DEF IInv, FlowInv, PhaseInv
  <2>2. ~accepting /\ InFlight = {}
    BY <2>1 DEF IInv, SweepInv, GateInv, SweptInv, Finished
  <2>3. \A p \in Procs : Loose(p) => pty[p].at = "leaked" \/ TakenByWindow(p)
    BY DEF IInv, RowInv, Rows, Kept, Loose, TakenByWindow
  <2>4. cleaners["exit"].pc = "idle" => \A p \in Procs : Running(p) => Loose(p)
    BY DEF IInv, SweepInv, QuietInv
  <2> QED
    BY <2>2, <2>3, <2>4
<1> QED
  BY <1>1, ExitInvariant, PTL

\* A forced exit is not made clean by a late commit, nor a clean one forced.
THEOREM DecisionKept == Spec => DecisionStands
<1> DEFINE Stands == /\ phase = "exitingUnclean" => phase' = phase /\ (marker' = "quit" => marker = "quit")
                     /\ phase = "exitingClean" => phase' = phase
<1>1. ASSUME Next PROVE Stands
  <2>1. ASSUME NEW c \in Cleaners, Cleanup(c) PROVE Stands
    BY <2>1 DEF Cleanup, LockCleanup, DrainSessions, KillDrained, EndPass, RequestExit, exitVars
  <2>2. ASSUME NEW p \in Procs, Terminal(p) \/ Acknowledge(p) PROVE Stands
    BY <2>2 DEF Terminal, WindowKills, Acknowledge, exitVars
  <2>3. CASE CommitAfterCleanup \/ Relaunch \/ ProcessExits
    BY <2>3 DEF CommitAfterCleanup, Relaunch, ProcessExits
  <2>4. CASE FinishClean
    BY <2>4 DEF FinishClean
  <2>5. CASE WatchdogFires \/ RequestQuit \/ QuitCommit \/ QuitForce
    BY <2>5 DEF WatchdogFires, RequestQuit, QuitCommit, QuitForce, Forced, Exiting
  <2>6. CASE Prepare \/ InstallUpdate \/ UpdateApplied \/ ResumePersistence
    BY <2>6 DEF Prepare, InstallUpdate, UpdateApplied, ResumePersistence
  <2>7. CASE AppRestart \/ RunLoopExits \/ ReloadWebview \/ WindowDestroyed
    BY <2>7 DEF AppRestart, RunLoopExits, ReloadWebview, WindowDestroyed
  <2>8. CASE (\E t \in Tabs : NewTab(t)) \/ Gesture
    BY <2>8 DEF NewTab, Gesture, exitVars
  <2> QED
    BY <1>1, <2>1, <2>2, <2>3, <2>4, <2>5, <2>6, <2>7, <2>8 DEF Next, Webview
<1>2. [Next]_vars => [Stands]_vars
  BY <1>1
<1> QED
  BY <1>2, PTL DEF Spec, DecisionStands

\* Every way to a clean marker leads through the barrier.
BarrierInv ==
    /\ \/ marker # "running" \/ phase = "cleaning" \/ wv.quit = "committing"
       \/ wv.update \in {"installing", "restarting"}
    => passed

LEMMA BarrierStep == FlowType /\ BarrierInv /\ [Next]_vars => BarrierInv'
<1> SUFFICES ASSUME wv \in View, BarrierInv, [Next]_vars PROVE BarrierInv'
  BY DEF FlowType
<1>0. ASSUME UNCHANGED <<phase, wv, marker, passed>> PROVE BarrierInv'
  BY <1>0 DEF BarrierInv
<1>1. ASSUME NEW c \in Cleaners, Cleanup(c) PROVE BarrierInv'
  BY <1>0, <1>1 DEF Cleanup, LockCleanup, DrainSessions, KillDrained, EndPass, RequestExit, exitVars
<1>2. ASSUME NEW p \in Procs, Terminal(p) \/ Acknowledge(p) PROVE BarrierInv'
  BY <1>0, <1>2 DEF Terminal, WindowKills, Acknowledge, exitVars
<1>3. CASE Relaunch \/ ProcessExits \/ RunLoopExits
  BY <1>0, <1>3 DEF Relaunch, ProcessExits, RunLoopExits
<1>4. CASE CommitAfterCleanup
  BY <1>4 DEF CommitAfterCleanup, BarrierInv, View
<1>5. CASE FinishClean
  BY <1>5 DEF FinishClean, BarrierInv, View
<1>6. CASE WatchdogFires \/ RequestQuit \/ QuitCommit \/ QuitForce
  <2>1. UNCHANGED <<marker, passed>>
    BY <1>6 DEF WatchdogFires, RequestQuit, QuitCommit, QuitForce
  <2>2. phase' = "cleaning" => phase = "cleaning" \/ wv.quit = "committing"
    BY <1>6 DEF WatchdogFires, RequestQuit, QuitCommit, QuitForce, Forced
  <2>3. (wv'.quit = "committing" => wv.quit = "committing") /\ wv'.update = wv.update
    BY <1>6 DEF WatchdogFires, RequestQuit, QuitCommit, QuitForce, View
  <2> QED
    BY <2>1, <2>2, <2>3 DEF BarrierInv
<1>7. CASE Prepare
  BY <1>7 DEF Prepare, BarrierInv, View
<1>8. CASE InstallUpdate \/ UpdateApplied \/ ResumePersistence \/ AppRestart
  <2>1. UNCHANGED <<phase, passed>> /\ wv'.quit = wv.quit
    BY <1>8 DEF InstallUpdate, UpdateApplied, ResumePersistence, AppRestart, View
  <2>2. wv'.update \in {"installing", "restarting"} => wv.update \in {"installing", "restarting"}
    BY <1>8 DEF InstallUpdate, UpdateApplied, ResumePersistence, AppRestart, View
  <2>3. marker' # "running" => marker # "running" \/ wv.update = "restarting"
    BY <1>8 DEF InstallUpdate, UpdateApplied, ResumePersistence, AppRestart
  <2> QED
    BY <2>1, <2>2, <2>3 DEF BarrierInv
<1>9. CASE ReloadWebview \/ WindowDestroyed
  <2>1. UNCHANGED <<phase, marker, passed>>
    BY <1>9 DEF ReloadWebview, WindowDestroyed
  <2>2. wv'.quit = "idle" /\ wv'.update = "idle"
    <3>1. CASE ReloadWebview
      <4>1. wv' = [wv EXCEPT !.quit = "idle", !.update = "idle", !.prepared = FALSE]
        BY <3>1 DEF ReloadWebview
      <4> QED
        BY <4>1 DEF View
    <3>2. CASE WindowDestroyed
      BY <3>2 DEF WindowDestroyed
    <3> QED
      BY <1>9, <3>1, <3>2
  <2> QED
    BY <2>1, <2>2 DEF BarrierInv
<1>10. CASE (\E t \in Tabs : NewTab(t)) \/ Gesture
  BY <1>0, <1>10 DEF NewTab, Gesture, exitVars
<1>11. CASE UNCHANGED vars
  BY <1>0, <1>11 DEF vars, exitVars
<1> QED
  BY <1>1, <1>2, <1>3, <1>4, <1>5, <1>6, <1>7, <1>8, <1>9, <1>10, <1>11 DEF Next, Webview

\* The workspace is marked clean only in a process that passed the barrier.
THEOREM BarrierFirst == Spec => []MarkerNeedsBarrier
<1>1. Init => BarrierInv
  BY DEF Init, BarrierInv
<1>2. IInv => FlowType
  BY DEF IInv, FlowInv
<1>3. BarrierInv => MarkerNeedsBarrier
  BY DEF BarrierInv, MarkerNeedsBarrier
<1> QED
  BY <1>1, <1>2, <1>3, BarrierStep, ExitInvariant, PTL DEF Spec
=============================================================================
