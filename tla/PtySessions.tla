---------------------------- MODULE PtySessions ----------------------------
(***************************************************************************)
(* Terminals: the admission of new ones and the map of sessions            *)
(* (pty/mod.rs), and for each its shell, its reader thread and the         *)
(* back-pressure between the two and the webview (pty/session.rs).         *)
(*                                                                         *)
(* What matters of a session is where its only cleanup handle is: whoever  *)
(* loses it leaves a process behind.  A kill that reports success is taken *)
(* to end the shell.  The platform decides two things: only on Windows can *)
(* a kill fail to be verified (Unix sends a hang-up and reports success),  *)
(* and only on Unix does the reader poll; on Windows it blocks in its read *)
(* until there is output or the handle, and with it the pseudoconsole, is  *)
(* dropped.  At most MaxFailures kills fail.                               *)
(***************************************************************************)
EXTENDS Integers, FiniteSets

CONSTANTS
    Tabs,
    NoTab,          \* the tab of a session kept under a cleanup key
    MaxProcs,       \* terminals ever created
    HighWatermark,  \* unacknowledged output that pauses the reader
    ReadMax,        \* output of one read
    Talkative,      \* terminals whose shell produces output
    MaxFailures

ASSUME TerminalAssumption ==
    /\ MaxProcs \in Nat \ {0} /\ HighWatermark \in Nat \ {0} /\ ReadMax \in Nat \ {0}
    /\ MaxFailures \in Nat /\ NoTab \notin Tabs

Procs == 1..MaxProcs

VARIABLES
    unix,        \* the platform of this build; it never changes
    accepting,   \* the admission gate
    pty,         \* per terminal: its handle, shell, reader and flow control
    failures     \* kills that could not be verified so far

ptyVars == <<unix, accepting, pty, failures>>

(* `at` is the place of the handle: nowhere yet, a spawn permit, a created *)
(* process, one whose insertion was refused, the map of sessions, the      *)
(* hands of the path `by` (to be killed, not verified), or dropped.  The   *)
(* shell of a spawn that failed late is leaked: it never had a handle.     *)
Places == {"absent", "permit", "created", "refused", "mapped", "drained", "unverified", "dropped",
           "leaked"}
NewTerminal ==
    [at |-> "absent", tab |-> NoTab, by |-> "nobody", cancelled |-> FALSE, shell |-> "none",
     reader |-> "none", out |-> 0, unacked |-> 0, stop |-> FALSE]

PtyInit ==
    /\ unix \in BOOLEAN
    /\ accepting = TRUE
    /\ pty = [p \in Procs |-> NewTerminal]
    /\ failures = 0

\* Wrong on purpose: the permit is given back once the process is created.
InFlight_Early == {p \in Procs : pty[p].at = "permit"}
\* Wrong on purpose: a creation that fails does not give its permit back.
InFlight_Leaks ==
    {p \in Procs : \/ pty[p].at \in {"permit", "created", "refused"}
                   \/ pty[p].at = "dropped" /\ pty[p].shell = "none"}
InFlight == {p \in Procs : pty[p].at \in {"permit", "created", "refused"}}
Pending(t) == {p \in InFlight : pty[p].tab = t}
Mapped == {p \in Procs : pty[p].at = "mapped"}
Session(t) == {p \in Mapped : pty[p].tab = t}
Running(p) == pty[p].shell = "running"
Set(p, row) == pty' = [pty EXCEPT ![p] = row]

\* Wrong on purpose: acknowledgements of a stopped session still count.
Survived_KeepsAcks(row, at) == [row EXCEPT !.stop = TRUE, !.at = at, !.out = 0]
(* kill_verified: the reader is told to stop first, whatever comes of it,  *)
(* and from then on nobody looks at the output that is outstanding.        *)
Survived(row, at) == [row EXCEPT !.stop = TRUE, !.at = at, !.out = 0, !.unacked = 0]
Killed(row) ==
    [Survived(row, "dropped") EXCEPT !.tab = NoTab, !.by = "nobody", !.cancelled = FALSE,
                                     !.shell = IF @ = "running" THEN "dead" ELSE @]
Unverified == ~unix /\ failures < MaxFailures /\ failures' = failures + 1

-----------------------------------------------------------------------------
(* Opening a tab.                                                          *)

\* Wrong on purpose: a terminal is admitted while the process exits.
BeginSpawn_Ungated(t) ==
    /\ Pending(t) = {} /\ Session(t) = {}
    /\ \E p \in Procs :
         /\ pty[p].at = "absent" /\ \A q \in 1..(p - 1) : pty[q].at # "absent"
         /\ Set(p, [pty[p] EXCEPT !.at = "permit", !.tab = t])
    /\ UNCHANGED <<unix, accepting, failures>>
BeginSpawn(t) ==
    /\ accepting /\ Pending(t) = {} /\ Session(t) = {}
    /\ \E p \in Procs :
         /\ pty[p].at = "absent" /\ \A q \in 1..(p - 1) : pty[q].at # "absent"
         /\ Set(p, [pty[p] EXCEPT !.at = "permit", !.tab = t])
    /\ UNCHANGED <<unix, accepting, failures>>

(* The permit is looked at before the process is created, maybe long       *)
(* before: a gate or a tab closed meanwhile does not stop the creation.    *)
Create(p) ==
    /\ pty[p].at = "permit"
    /\ \/ Set(p, [pty[p] EXCEPT !.at = "created", !.shell = "running", !.reader = "reading"])
       \/ Set(p, [pty[p] EXCEPT !.at = "dropped", !.tab = NoTab, !.cancelled = FALSE])
    /\ UNCHANGED <<unix, accepting, failures>>

(* Once the shell runs a pipe or a thread may still fail to be made, before *)
(* or after its reader thread: the spawn fails and the shell is not killed. *)
FailLate(p) ==
    /\ pty[p].at = "permit"
    /\ \E reader \in {"none", "reading"} :
         Set(p, [pty[p] EXCEPT !.at = "leaked", !.tab = NoTab, !.cancelled = FALSE,
                               !.shell = "running", !.reader = reader])
    /\ UNCHANGED <<unix, accepting, failures>>

Insert(p) ==
    /\ pty[p].at = "created"
    /\ Set(p, [pty[p] EXCEPT !.at =
           IF accepting /\ ~pty[p].cancelled /\ Session(pty[p].tab) = {} THEN "mapped"
           ELSE "refused"])
    /\ UNCHANGED <<unix, accepting, failures>>

\* Wrong on purpose: the handle of an unverified kill is dropped.
Refuse_Drops(p) ==
    /\ pty[p].at = "refused"
    /\ \/ Set(p, Killed(pty[p])) /\ UNCHANGED failures
       \/ Unverified /\ Set(p, Survived(pty[p], "dropped"))
    /\ UNCHANGED <<unix, accepting>>

(* Kill first; what could not be verified is kept for a later cleanup,     *)
(* under a key of its own when the tab's is taken.  The permit goes last.  *)
Refuse(p) ==
    /\ pty[p].at = "refused"
    /\ \/ Set(p, Killed(pty[p])) /\ UNCHANGED failures
       \/ /\ Unverified
          /\ Set(p, [Survived(pty[p], "mapped") EXCEPT !.tab =
                        IF Session(@) = {} THEN @ ELSE NoTab])
    /\ UNCHANGED <<unix, accepting>>

(* pty_kill: closing a tab, in one hold of the admission lock: a terminal  *)
(* still being created is cancelled, one that exists is killed or stays.   *)
PtyKill(t) ==
    /\ Pending(t) # {} \/ Session(t) # {}
    /\ \E survives \in SUBSET Session(t) :
         /\ IF survives = {} THEN UNCHANGED failures ELSE Unverified
         /\ pty' = [p \in Procs |->
               IF p \in Pending(t) THEN [pty[p] EXCEPT !.cancelled = TRUE]
               ELSE IF p \in survives THEN Survived(pty[p], "mapped")
               ELSE IF p \in Session(t) THEN Killed(pty[p]) ELSE pty[p]]
    /\ UNCHANGED <<unix, accepting>>

ShellExits(p) ==
    /\ Running(p)
    /\ Set(p, [pty[p] EXCEPT !.shell = "dead"])
    /\ UNCHANGED <<unix, accepting, failures>>

-----------------------------------------------------------------------------
(* The reader thread.  It looks at the watermark before each read, and     *)
(* when paused looks again every quarter of a second: the low watermark    *)
(* only decides whether an acknowledgement wakes it at once.               *)

(* Every copy of the terminal's other end is gone. *)
EndOfFile(p) == IF unix THEN pty[p].shell = "dead" ELSE pty[p].at \in {"dropped", "leaked"}

\* The read returns; on Unix it is a poll, which looks at the flag by itself.
ReadReturns(p) == unix \/ EndOfFile(p) \/ (Running(p) /\ p \in Talkative)

\* Wrong on purpose: a paused reader does not look at the flag.
WaitUntilResumed_Deaf(p) ==
    /\ \/ /\ pty[p].reader = "reading" /\ ~pty[p].stop /\ pty[p].out >= HighWatermark
          /\ Set(p, [pty[p] EXCEPT !.reader = "paused"])
       \/ /\ pty[p].reader = "paused" /\ ~pty[p].stop /\ pty[p].out < HighWatermark
          /\ Set(p, [pty[p] EXCEPT !.reader = "reading"])
       \/ /\ pty[p].reader = "reading" /\ pty[p].stop /\ ReadReturns(p)
          /\ Set(p, [pty[p] EXCEPT !.reader = "stopped"])
    /\ UNCHANGED <<unix, accepting, failures>>

WaitUntilResumed(p) ==
    /\ \/ /\ pty[p].reader = "reading" /\ ~pty[p].stop /\ pty[p].out >= HighWatermark
          /\ Set(p, [pty[p] EXCEPT !.reader = "paused"])
       \/ /\ pty[p].reader = "paused" /\ ~pty[p].stop /\ pty[p].out < HighWatermark
          /\ Set(p, [pty[p] EXCEPT !.reader = "reading"])
       \/ /\ pty[p].reader = "paused" \/ (pty[p].reader = "reading" /\ ReadReturns(p))
          /\ pty[p].stop
          /\ Set(p, [pty[p] EXCEPT !.reader = "stopped"])
    /\ UNCHANGED <<unix, accepting, failures>>

Read(p) ==
    /\ pty[p].reader = "reading" /\ ~pty[p].stop /\ pty[p].out < HighWatermark
    /\ \/ /\ Running(p) /\ p \in Talkative
          /\ \E n \in 1..ReadMax :
               Set(p, [pty[p] EXCEPT !.out = @ + n, !.unacked = @ + n])
       \/ EndOfFile(p) /\ Set(p, [pty[p] EXCEPT !.reader = "stopped"])
    /\ UNCHANGED <<unix, accepting, failures>>

(* An acknowledgement for a session that is not in the map is dropped.     *)
PtyAck(p) ==
    /\ pty[p].unacked > 0
    /\ \E n \in 1..pty[p].unacked :
         Set(p, [pty[p] EXCEPT !.unacked = @ - n,
                     !.out = IF pty[p].at = "mapped" THEN @ - n ELSE @])
    /\ UNCHANGED <<unix, accepting, failures>>

SpawnStep(p) == Create(p) \/ Insert(p) \/ Refuse(p)
ReaderStep(p) == WaitUntilResumed(p) \/ Read(p)
=============================================================================
