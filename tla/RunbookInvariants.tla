------------------------- MODULE RunbookInvariants -------------------------
(***************************************************************************)
(* Why the safety properties of a run hold: what every position of the     *)
(* engine says of the rows, of the coordinator's entry, of the checklist in*)
(* memory and of the registries.  Together with the types these parts are  *)
(* inductive; none of them is alone.                                       *)
(***************************************************************************)
EXTENDS RunbookProperties

\* Where a shell command, or a manual action, is on its way through an attempt.
AtShell == {"request", "approval", "approved", "start", "terminal"}
AtManual == {"manualStart", "manualOpen", "manual", "manualTarget"}

\* Where the engine abandons a run, and where it ends one in good order.
Aborting == {"abort", "abortSteps", "abortFinalize"}
Ending == {"finishCancel", "finishMark", "wrapUp", "finalize"}

\* The phase of step eng.i is under way.  (A request made by a discovery probe
\* has no phase under way, and is refused.)
OnStep ==
    \/ eng.pc \in (AtShell \ {"request"}) \cup AtManual \cup {"dispatch", "settle"}
    \/ (eng.pc = "request" /\ coord.active # 0)

\* A phase of step eng.i ended without a conclusion, and the operator decides or
\* is about to.
Deciding == eng.pc \in {"decide", "deciding"} /\ ~eng.tail
Paused ==
    \/ eng.pc \in {"declineStep", "declineRun", "driftRun", "driftAttempt", "policy"}
    \/ Deciding
    \/ (eng.pc = "settleRun" /\ eng.result \in {"failed", "unknown"})

(* The run's row: nobody but the engine moves it while there is one, and where
   the engine is says where the row is. *)
RowInv ==
    /\ db.run = "created" => eng.pc \in {"register", "off"}
    /\ db.run \in Terminal => eng.pc \in {"exit", "off"}
    /\ db.run = "interrupted" => eng.pc = "off"
    /\ eng.pc = "launch" \/ (eng.pc = "register" /\ eng.mode = "resume") => db.run = "ready"
    /\ eng.pc \in {"probe", "next", "begin", "dispatch", "request", "approved", "start",
                   "terminal", "manualStart", "manualOpen", "manualTarget", "driftRun",
                   "settle", "settleRun", "assess", "summary"} => db.run = "running"
    /\ eng.pc \in {"approval", "declineStep", "declineRun"} => db.run = "waiting_approval"
    /\ eng.pc = "driftAttempt" => db.run = "paused"
    /\ eng.pc \in {"manual", "policy"} => db.run = "waiting_operator"
    /\ Deciding => db.run \in {"paused", "waiting_operator"}

(* The engine's own locals: a resumed step whose outcome is uncertain is never
   left but for the end of the run, an end has a status, and a phase that is to
   be settled has a result. *)
EngineInv ==
    /\ eng.tail => eng.pc \in {"decide", "deciding", "exit"} \cup Ending \cup Aborting
    /\ eng.tail /\ eng.pc \in {"decide", "deciding"} => db.run = "running"
    /\ eng.ending # "none" => eng.pc \in {"summary", "exit"} \cup Ending \cup Aborting
    /\ eng.pc \in {"wrapUp", "finalize"} => eng.ending # "none"
    /\ eng.pc = "finishMark" => eng.ending = "cancelled"
    /\ eng.pc = "summary" => eng.ending \in {"none", "failed"}
    /\ eng.pc \in {"register", "launch", "probe"} => eng.i = 1 /\ eng.phase = "check"
    /\ eng.pc \in {"manualTarget", "settle"} => eng.result \in PhaseResult(eng.phase)
    /\ eng.pc = "settleRun" => eng.result \in {"compliant", "verified", "failed", "unknown"}
    /\ ~env.up => eng.pc = "off"

(* The coordinator's entry: its status follows the engine's position too, and so
   do the cursors, here and in the rows. *)
CoordInv ==
    /\ eng.pc \in {"probe", "next", "begin", "dispatch", "request", "approved", "start",
                   "terminal", "manualStart", "manualTarget", "settle", "assess"}
          => coord.run = "running"
    /\ eng.pc = "summary" /\ eng.ending = "none" => coord.run = "running"
    /\ eng.pc = "settleRun" /\ eng.result \in {"compliant", "verified"}
          => coord.run = "running"
    /\ eng.pc = "settleRun" /\ eng.result \in {"failed", "unknown"}
          => coord.run = "waiting_operator"
    /\ eng.pc = "approval" => coord.run = "waiting_approval"
    /\ eng.pc \in {"declineStep", "declineRun", "driftRun", "driftAttempt"}
          => coord.run = "paused"
    /\ eng.pc \in {"manualOpen", "manual", "policy"} => coord.run = "waiting_operator"
    /\ Deciding => coord.run = db.run
    /\ eng.pc \in {"launch", "probe"} => coord.active = 0
    /\ OnStep => /\ coord.active = eng.i /\ coord.phase = eng.phase
                 /\ db.active = eng.i /\ db.phase = eng.phase
    /\ Paused => coord.active = eng.i /\ db.active = eng.i

(* The step that is worked on. *)
StepInv ==
    /\ OnStep => db.step[eng.i] = StatusOfPhase(eng.phase)
    /\ eng.pc = "declineStep" => db.step[eng.i] \in InPhase
    /\ eng.pc \in {"declineRun", "policy"} => db.step[eng.i] = "paused"
    /\ eng.pc \in {"driftRun", "driftAttempt"} => db.step[eng.i] = "unknown"
    /\ Deciding => db.step[eng.i] \in {"paused", "unknown"}
    /\ eng.pc = "settleRun" => db.step[eng.i] = StatusAfter(eng.result)
    /\ eng.pc = "assess" => db.step[eng.i] = "needs_action" /\ Kinds(eng.i)["apply"] = "none"
    /\ eng.pc = "summary" => Settled(eng.i)

\* The engine has read the rows, and has not begun to move them behind its list.
Loaded == eng.pc \notin {"off", "register", "abortSteps", "abortFinalize", "exit"}

\* The coordinator's step statuses are kept up with the rows.
Followed == Loaded /\ eng.pc \notin {"abort", "declineStep"} \cup Ending

(* The three copies of the checklist. *)
CopyInv ==
    /\ db.run = "created" => \A s \in Steps : db.step[s] = "pending"
    /\ eng.pc = "register" => \A s \in Steps : eng.list[s] = "pending"
    /\ Loaded => eng.list = db.step
    /\ Followed => coord.step = db.step
    /\ eng.pc = "declineStep" => coord.step = [db.step EXCEPT ![eng.i] = "paused"]

(* An attempt that the engine follows is of its step and its phase. *)
AttemptInv ==
    /\ eng.pc \in AtShell \cup AtManual =>
          db.attempt.step = eng.i /\ db.attempt.phase = eng.phase /\ eng.open
    /\ eng.pc \in AtShell /\ eng.phase = "apply" => Kinds(eng.i)["apply"] = "shell"
    /\ eng.pc \in AtManual => Kinds(eng.i)[eng.phase] = "manual"

(* A typed apply is an apply that was started, and that is known to the rows and,
   once they are restored, to the engine's own copy: what it writes over the
   column later does not lower it. *)
ChangeInv ==
    /\ db.run = "created" => \A s \in Steps : ~db.applyStarted[s]
    /\ db.attempt.status = "running" /\ db.attempt.phase = "apply"
          => db.applyStarted[db.attempt.step]
    /\ eng.pc = "manualOpen" /\ eng.phase = "apply" => db.applyStarted[eng.i]
    /\ \A s \in Steps :
          /\ hist.mutated[s] => db.applyStarted[s]
          /\ db.applyStarted[s] => Kinds(s)["apply"] \in {"shell", "manual"}
          /\ db.applyStarted[s] /\ Kinds(s)["apply"] = "shell" =>
                db.changed[s] /\ (eng.pc \notin {"off", "register"} => eng.chg[s])

\* A step worked on, with nothing of the steps after it begun.
InOrder ==
    OnStep \/ Paused \/ eng.pc \in {"begin", "settleRun", "assess", "summary"}

(* Before the engine's step everything is settled, after it nothing is begun. *)
OrderInv ==
    /\ ChecklistInOrder
    /\ \A s \in Steps : db.step[s] # "blocked"
    /\ eng.pc \notin {"off", "exit"} => \A t \in Steps : t < eng.i => Settled(t)
    /\ InOrder => \A s \in Steps : s > eng.i => db.step[s] = "pending"
    /\ eng.pc \in {"launch", "probe", "next"} /\ eng.mode = "new" =>
          \A s \in Steps : s >= eng.i => db.step[s] = "pending"

(* A lease or an attestation is waited for where the engine says.  An attestation
   can still be sent for a run that was abandoned; its step is not checked off. *)
LeaseInv ==
    /\ io.pty # "none" =>
          \/ eng.pc = "terminal"
          \/ (eng.pc \in Aborting \cup {"exit"} /\ db.attempt.status \notin InFlight)
    /\ io.manual # "none" => eng.pc \in {"manualOpen", "manual", "exit"} \cup Aborting
    /\ io.manual # "none" => eng.i \in Steps /\ db.step[eng.i] \notin Checked
    /\ eng.pc \in {"manualOpen", "manual"} =>
          io.manual \in {"waiting"} \cup PhaseResult(eng.phase)

\* The results that say something of the target.
Telling == {"noncompliant", "compliant", "verified"}

\* A phase is due, and nothing of it has reached the terminal or the operator.
NotHanded ==
    \/ eng.pc \in {"begin", "dispatch", "request", "approval", "approved", "start",
                   "manualStart", "manualOpen"}
    \/ (eng.pc = "terminal" /\ io.pty = "leased")

(* What the engine was told is what was last seen of the step's target. *)
EvidenceInv ==
    /\ eng.pc = "terminal" /\ io.pty \in Telling => hist.verdict[eng.i] = io.pty
    /\ eng.pc \in {"manualOpen", "manual"} /\ io.manual \in Telling =>
          hist.verdict[eng.i] = io.manual
    /\ eng.pc \in {"manualTarget", "settle"} /\ eng.result \in Telling =>
          hist.verdict[eng.i] = eng.result
    /\ eng.phase = "apply" /\ NotHanded => hist.verdict[eng.i] = "noncompliant"

(* A positive outcome of a step, and of the run, rests on it. *)
EarnedInv ==
    /\ SuccessIsEarned
    /\ eng.pc \notin {"off", "register"} => \A s \in Steps :
          db.step[s] = "remediated_verified" => eng.chg[s]
    /\ eng.pc \in {"wrapUp", "finalize"} /\ eng.ending = "succeeded" =>
          \A s \in Steps : def.step[s].required => db.step[s] \in Checked

\* Approved, and not yet handed over.
Granted == db.approval = "approved" /\ db.attempt.status = "intent"

(* An approval that was given is used at once, withdrawn, or lost with the
   process: no other position of the engine holds one. *)
GrantInv ==
    /\ Granted => db.run \in Active
    /\ Granted /\ env.up =>
          eng.pc \in {"approved", "start", "abort", "driftRun", "driftAttempt"}
    /\ Granted /\ eng.pc = "driftRun" => eng.open
    /\ eng.pc \in {"approved", "start"} =>
          db.approval = "approved" /\ db.attempt.status # "waiting_approval"

RunInv ==
    /\ RowInv /\ EngineInv /\ CoordInv /\ StepInv /\ CopyInv /\ AttemptInv
    /\ ChangeInv /\ OrderInv /\ LeaseInv /\ EvidenceInv /\ EarnedInv /\ GrantInv
    /\ ReportDescribesRun
=============================================================================
