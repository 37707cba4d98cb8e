------------------------ MODULE AgentContractProofs ------------------------
(***************************************************************************)
(* The two sides of an agent run, with everything that travels between     *)
(* them, implement the contract about the operator's terminal.  By the     *)
(* inductive invariant only the newest gate's command can be asked,        *)
(* cleared or offered; every older one is settled, taken or was withdrawn. *)
(***************************************************************************)
EXTENDS AgentProofs

-----------------------------------------------------------------------------
(* Where a command is.                                                     *)

Past(g) == IF g \in settled THEN "settled" ELSE IF g \in taken THEN "taken" ELSE "idle"
Cleared(g) == run.gates = g /\ run.pc = "dispatch"

LEMMA Elsewhere ==
    ASSUME AgentInv
    PROVE  /\ \A g : Offered(g) => g = run.gates /\ g \notin taken /\ run.pc \in Away
           /\ \A g : g # run.gates => CommandNow(g) = Past(g)
<1>1. ASSUME NEW g, Offered(g)
      PROVE  g = run.gates /\ g \notin taken /\ run.pc \in Away
  <2>1. CASE ui.job = "preflight" /\ ui.jobGate = g
    BY <2>1 DEF AgentInv, TokenInv
  <2>2. CASE \E i \in DOMAIN chan : chan[i].t = "run" /\ chan[i].gate = g
    <3>1. PICK i \in DOMAIN chan : Told(i) /\ chan[i].gate = g
      BY <2>2 DEF Told
    <3> QED
      BY <3>1 DEF AgentInv, TokenInv
  <2> QED
    BY <1>1, <2>1, <2>2 DEF Offered
<1>2. ASSUME NEW g, g # run.gates
      PROVE  CommandNow(g) = Past(g)
  BY <1>1, <1>2 DEF CommandNow, Past, Waiting
<1> QED
  BY <1>1, <1>2

LEMMA ElsewhereNext ==
    ASSUME AgentInv'
    PROVE  /\ \A g : Offered(g)' => g = run'.gates /\ g \notin taken' /\ run'.pc \in Away
           /\ \A g : g # run'.gates => CommandNow(g)' = Past(g)'
<1>1. ASSUME NEW g, Offered(g)'
      PROVE  g = run'.gates /\ g \notin taken' /\ run'.pc \in Away
  <2>1. CASE ui'.job = "preflight" /\ ui'.jobGate = g
    BY <2>1 DEF AgentInv, TokenInv
  <2>2. CASE \E i \in DOMAIN chan' : chan'[i].t = "run" /\ chan'[i].gate = g
    <3>1. PICK i \in DOMAIN chan' : Told(i)' /\ chan'[i].gate = g
      BY <2>2 DEF Told
    <3> QED
      BY <3>1 DEF AgentInv, TokenInv
  <2> QED
    BY <1>1, <2>1, <2>2 DEF Offered
<1>2. ASSUME NEW g, g # run'.gates
      PROVE  CommandNow(g)' = Past(g)'
  BY <1>1, <1>2 DEF CommandNow, Past, Waiting
<1> QED
  BY <1>1, <1>2

LEMMA NewestGate == ASSUME AgentInv, run.gates > 0 PROVE run.gates \in Gates
<1>1. /\ run.gates \in Nat /\ run.commands \in Nat /\ run.commands <= MaxWork
      /\ run.gates <= run.commands + events /\ events \in Nat /\ events <= MaxEvents
      /\ MaxWork \in Nat /\ MaxEvents \in Nat
  BY Numbers, Bounds, RunFields DEF AgentInv, CountInv, Counted
<1> QED
  BY <1>1 DEF Gates

-----------------------------------------------------------------------------
(* Kinds of steps of the contract.                                         *)

LEMMA StepStutters ==
    ASSUME Bound' <=> Bound, \A g \in Gates : CommandNow(g)' = CommandNow(g)
    PROVE  UNCHANGED Contract!vars
<1>1. [g \in Gates |-> CommandNow(g)]' = [g \in Gates |-> CommandNow(g)]
  OBVIOUS
<1>2. Bound' = Bound
  BY DEF Bound, Following
<1> QED
  BY <1>1, <1>2 DEF Contract!vars

\* Nobody follows the run afterwards.
LEMMA LetsGo ==
    ASSUME ~Bound', UNCHANGED <<taken, settled>>
    PROVE  [Contract!Next]_(Contract!vars)
<1>1. \A g : CommandNow(g)' = Past(g)
  BY DEF CommandNow, Past
<1>2. CASE ~Bound
  <2>1. \A g : CommandNow(g) = Past(g)
    BY <1>2 DEF CommandNow, Past
  <2> QED
    BY <1>1, <1>2, <2>1, StepStutters
<1>3. CASE Bound
  <2>1. \A g : Past(g) = IF CommandNow(g) \in Contract!Before THEN "idle" ELSE CommandNow(g)
    BY DEF CommandNow, Past, Contract!Before
  <2> DEFINE com == [g \in Gates |-> CommandNow(g)]
  <2>2. com' = [g \in Gates |-> IF com[g] \in Contract!Before THEN "idle" ELSE com[g]]
    BY <1>1, <2>1
  <2>3. Bound /\ Bound' = FALSE
    <3>1. Bound' \in BOOLEAN
      BY DEF Bound, Following
    <3> QED
      BY <1>3, <3>1
  <2> QED
    BY <2>2, <2>3 DEF Contract!Next, Contract!End
<1> QED
  BY <1>2, <1>3

\* One command moves while the panel follows.
LEMMA CommandMoves ==
    ASSUME NEW h \in Gates, Bound, Bound',
           \A g \in Gates : g # h => CommandNow(g)' = CommandNow(g),
           \/ CommandNow(h) \in Contract!Before /\ CommandNow(h)' = "idle"
           \/ CommandNow(h) = "asked" /\ CommandNow(h)' = "cleared"
           \/ CommandNow(h) = "cleared" /\ CommandNow(h)' = "offered"
           \/ CommandNow(h) = "offered" /\ CommandNow(h)' = "taken"
           \/ /\ \A g \in Gates : CommandNow(g) \in {"idle", "settled"}
              /\ CommandNow(h)' = "asked"
    PROVE  Contract!Next
<1> DEFINE com == [g \in Gates |-> CommandNow(g)]
<1>1. com' = [com EXCEPT ![h] = CommandNow(h)']
  OBVIOUS
<1>2. com[h] = CommandNow(h) /\ \A g \in Gates : com[g] = CommandNow(g)
  OBVIOUS
<1>3. Bound' = Bound
  BY DEF Bound, Following
<1>4. Contract!Live(h)
  BY <1>1, <1>2 DEF Contract!Live, Contract!Ask, Contract!Withdraw, Contract!Move
<1> QED
  BY <1>3, <1>4 DEF Contract!Next

LEMMA CommandSettles ==
    ASSUME NEW h \in Gates, Bound' <=> Bound,
           \A g \in Gates : g # h => CommandNow(g)' = CommandNow(g),
           CommandNow(h) = "taken", CommandNow(h)' = "settled"
    PROVE  Contract!Next
<1> DEFINE com == [g \in Gates |-> CommandNow(g)]
<1>1. com' = [com EXCEPT ![h] = "settled"] /\ com[h] = "taken"
  OBVIOUS
<1>2. Bound' = Bound
  BY DEF Bound, Following
<1>3. Contract!Settle(h)
  BY <1>1, <1>2 DEF Contract!Settle, Contract!Move
<1> QED
  BY <1>3 DEF Contract!Next

\* A step that leaves every command where it is.
LEMMA NothingMoves ==
    ASSUME UNCHANGED <<taken, settled>>, Bound' <=> Bound, run'.gates = run.gates,
           run'.pc = run.pc \/ {run.pc, run'.pc} \cap {"waiting", "dispatch"} = {},
           \A g \in Gates : Offered(g)' <=> Offered(g)
    PROVE  UNCHANGED Contract!vars
<1>1. \A g \in Gates : CommandNow(g)' = CommandNow(g)
  BY DEF CommandNow, Waiting
<1> QED
  BY <1>1, StepStutters

\* Nor does reading or telling of anything but a command to run.
LEMMA StillOffered ==
    ASSUME ui'.job = ui.job, ui'.jobGate = ui.jobGate,
           chan' = chan
           \/ (\E types : Grows(chan, chan', types) /\ "run" \notin types)
           \/ (Shifts(1) /\ 1 \in DOMAIN chan /\ chan[1].t # "run")
    PROVE  \A g \in Gates : Offered(g)' <=> Offered(g)
<1> DEFINE In(c, g) == \E i \in DOMAIN c : c[i].t = "run" /\ c[i].gate = g
<1>1. CASE chan' = chan
  BY <1>1 DEF Offered
<1>2. ASSUME NEW types, Grows(chan, chan', types), "run" \notin types
      PROVE  \A g \in Gates : Offered(g)' <=> Offered(g)
  <2>1. \A g : In(chan', g) => In(chan, g)
    BY <1>2 DEF Grows
  <2>2. \A g : In(chan, g) => In(chan', g)
    BY <1>2 DEF Grows
  <2> QED
    BY <2>1, <2>2 DEF Offered
<1>3. CASE Shifts(1) /\ 1 \in DOMAIN chan /\ chan[1].t # "run"
  <2>1. \A g : In(chan', g) => In(chan, g)
    BY <1>3 DEF Shifts
  <2>2. ASSUME NEW g, NEW i \in DOMAIN chan, chan[i].t = "run", chan[i].gate = g
        PROVE  In(chan', g)
    <3>1. i - 1 \in DOMAIN chan' /\ (i - 1) + 1 = i
      BY <1>3, <2>2 DEF Shifts
    <3>2. chan'[i - 1] = chan[i]
      BY <1>3, <3>1 DEF Shifts
    <3> QED
      BY <2>2, <3>1, <3>2
  <2>3. \A g : In(chan, g) => In(chan', g)
    BY <2>2
  <2> QED
    BY <2>1, <2>3 DEF Offered
<1> QED
  BY <1>1, <1>2, <1>3

-----------------------------------------------------------------------------
(* The panel's steps.                                                      *)

LEMMA BoundKept ==
    ASSUME UNCHANGED target, ui'.state = ui.state
    PROVE  Bound' <=> Bound
  BY DEF Bound, Following

\* The panel lets go of the run.
LEMMA StoppingMaps ==
    ASSUME AgentInv, NEW rest, Stopping(rest), UNCHANGED <<taken, settled>>
    PROVE  [Contract!Next]_(Contract!vars)
<1>1. ui'.state = "retired"
  BY RetiredRow, Bounds DEF Stopping
<1> QED
  BY <1>1, LetsGo DEF Bound, Following

LEMMA ReceiveMaps ==
    ASSUME AgentInv, AgentInv', Receive
    PROVE  [Contract!Next]_(Contract!vars)
<1>1. UNCHANGED <<taken, settled>> /\ chan # <<>> /\ Read
  BY DEF Receive, Drop, Mismatch, ShowGate, RunCommand, FenceArrives, DeliveredArrives,
         CheckpointArrives, EndArrives, Arrives, History
<1>2. /\ Shifts(1) /\ UNCHANGED <<run, target>> /\ 1 \in DOMAIN chan /\ Head(chan) = chan[1]
  BY <1>1, HeadRead
<1>3. ui \in UiRow /\ run.gates \in Nat
  BY Bounds
<1>4. CASE Drop
  BY <1>1, <1>2, <1>4, LetsGo DEF Drop, Bound, Following
<1>5. CASE Mismatch \/ FenceArrives
  BY <1>1, <1>5, StoppingMaps DEF Mismatch, FenceArrives
<1>6. CASE EndArrives
  <2>1. ui'.state = "ended"
    <3>1. ui' = [Retired EXCEPT !.state = "ended", !.job = ui.job, !.jobGate = ui.jobGate]
      BY <1>6 DEF EndArrives
    <3>2. Retired \in UiRow
      BY <1>3, RetiredRow
    <3> QED
      BY <3>1, <3>2 DEF UiRow
  <2> QED
    BY <1>1, <2>1, LetsGo DEF Bound, Following
<1>7. CASE ShowGate \/ DeliveredArrives \/ CheckpointArrives
  <2>1. chan[1].t # "run"
    BY <1>2, <1>7 DEF ShowGate, DeliveredArrives, CheckpointArrives, Arrives
  <2>2. ui'.job = ui.job /\ ui'.jobGate = ui.jobGate /\ ui'.state = ui.state
    BY <1>3, <1>7 DEF ShowGate, DeliveredArrives, CheckpointArrives, UiRow
  <2>3. \A g \in Gates : Offered(g)' <=> Offered(g)
    BY <1>2, <2>1, <2>2, StillOffered
  <2> QED
    BY <1>1, <1>2, <2>2, <2>3, BoundKept, NothingMoves
<1>8. CASE RunCommand
  <2>1. /\ chan[1].t = "run" /\ Told(1)
    BY <1>2, <1>8 DEF RunCommand, Arrives, Told
  <2>2. ui' = [ui EXCEPT !.card = NoCard, !.job = "preflight", !.jobGate = chan[1].gate]
    BY <1>2, <1>8 DEF RunCommand
  <2>3. ui'.job = "preflight" /\ ui'.jobGate = chan[1].gate /\ ui'.state = ui.state
    BY <1>3, <2>2 DEF UiRow
  <2>4. chan[1].gate = run.gates
    BY <1>2, <2>1 DEF AgentInv, TokenInv
  <2>5. Offered(run.gates) /\ Offered(run.gates)'
    BY <1>2, <2>1, <2>3, <2>4 DEF Offered
  <2>6. \A g \in Gates : Offered(g)' <=> Offered(g)
    BY <1>2, <2>5, Elsewhere, ElsewhereNext
  <2> QED
    BY <1>1, <1>2, <2>3, <2>6, BoundKept, NothingMoves
<1> QED
  BY <1>4, <1>5, <1>6, <1>7, <1>8 DEF Receive

\* Steps that touch neither the channel nor the command.
LEMMA AsideMaps ==
    ASSUME UNCHANGED <<run, chan, target, taken, settled>>,
           ui'.state = ui.state, ui'.job = ui.job, ui'.jobGate = ui.jobGate
    PROVE  [Contract!Next]_(Contract!vars)
<1>1. \A g \in Gates : Offered(g)' <=> Offered(g)
  BY StillOffered
<1> QED
  BY <1>1, BoundKept, NothingMoves

LEMMA OperatorMaps ==
    ASSUME AgentInv,
           \/ \E says \in {"run", "skip", "stop"} : Answer(says)
           \/ Stop \/ TargetChanges
           \/ \E mode \in Mode : SetMode(mode)
           \/ \E s \in Steers : Steer(s)
    PROVE  [Contract!Next]_(Contract!vars)
<1>1. ui \in UiRow
  BY Bounds
<1>2. ASSUME NEW says, Answer(says)
      PROVE  [Contract!Next]_(Contract!vars)
  <2>1. UNCHANGED <<run, chan, target, taken, settled>>
    BY <1>2, BackendKept DEF Answer, History
  <2>2. CASE ~target
    BY <1>2, <2>1, <2>2, StoppingMaps DEF Answer
  <2>3. CASE target
    <3>1. ui' = ui \/ ui' = [ui EXCEPT !.card = NoCard]
      BY <1>2, <2>3 DEF Answer
    <3> QED
      BY <1>1, <2>1, <3>1, AsideMaps DEF UiRow
  <2> QED
    BY <2>2, <2>3
<1>3. CASE Stop
  BY <1>3, StoppingMaps DEF Stop, History
<1>4. CASE TargetChanges
  <2>1. target' = FALSE /\ UNCHANGED <<taken, settled>>
    BY <1>4 DEF TargetChanges, History
  <2> QED
    BY <2>1, LetsGo DEF Bound
<1>5. ASSUME NEW mode, SetMode(mode)
      PROVE  [Contract!Next]_(Contract!vars)
  BY <1>5, AsideMaps DEF SetMode, SetPermissionMode, History
<1>6. ASSUME NEW s \in Steers, Steer(s)
      PROVE  [Contract!Next]_(Contract!vars)
  <2>1. UNCHANGED <<run, chan, target, taken, settled>> /\ ui' = [ui EXCEPT !.steers[s] = "queued"]
    BY <1>6, BackendKept DEF Steer, History
  <2>2. ui'.state = ui.state /\ ui'.job = ui.job /\ ui'.jobGate = ui.jobGate
    BY <1>1, <2>1 DEF UiRow
  <2> QED
    BY <2>1, <2>2, AsideMaps
<1> QED
  BY <1>2, <1>3, <1>4, <1>5, <1>6

LEMMA CallsMap ==
    ASSUME AgentInv, AnswersArrive \/ ResultsArrive \/ SteersArrive \/ CallFails \/ DeliverCancel
    PROVE  [Contract!Next]_(Contract!vars)
<1>1. ui \in UiRow
  BY Bounds
<1>2. CASE AnswersArrive \/ ResultsArrive \/ DeliverCancel
  BY <1>2, AsideMaps
  DEF AnswersArrive, ResultsArrive, DeliverAnswer, DeliverResult, DeliverCancel, AiCancel, Quiet, History
<1>3. CASE SteersArrive
  <2>1. PICK call \in calls : DeliverSteer(call)
    BY <1>3 DEF SteersArrive
  <2>2. /\ UNCHANGED <<run, chan, target, taken, settled>>
        /\ ui' = ui \/ ui' = [ui EXCEPT !.steers[call.steer] = "undelivered"]
    BY <2>1 DEF DeliverSteer, Quiet, History
  <2>3. ui'.state = ui.state /\ ui'.job = ui.job /\ ui'.jobGate = ui.jobGate
    BY <1>1, <2>2 DEF UiRow
  <2> QED
    BY <2>2, <2>3, AsideMaps
<1>4. CASE CallFails
  <2>1. UNCHANGED <<run, chan, target, taken, settled>>
    BY <1>4, BackendKept DEF CallFails, Quiet, History
  <2>2. CASE Following
    BY <1>4, <2>1, <2>2, StoppingMaps DEF CallFails
  <2>3. CASE ~Following
    <3>1. UNCHANGED ui
      BY <1>4, <2>3 DEF CallFails
    <3> QED
      BY <2>1, <3>1, AsideMaps
  <2> QED
    BY <2>2, <2>3
<1> QED
  BY <1>2, <1>3, <1>4

LEMMA TerminalMaps ==
    ASSUME AgentInv, AgentInv',
           \/ \E outcome \in {"notStarted", "refused"} : PreflightFails(outcome)
           \/ Type
           \/ \E outcome \in {"completed", "unknown"} : CommandEnds(outcome)
    PROVE  [Contract!Next]_(Contract!vars)
<1>0. PICK h : h = run.gates
  OBVIOUS
<1>1. UNCHANGED <<run, chan, target>> /\ ui.job \in {"preflight", "typed"}
  BY BackendKept DEF PreflightFails, Type, CommandEnds
<1>2. /\ ui.jobGate = h /\ h > 0 /\ run.pc \in Away /\ Following
      /\ (h \in taken) = (ui.job = "typed") /\ \A i \in DOMAIN chan : ~Told(i)
  BY <1>0, <1>1 DEF AgentInv, TokenInv
<1>3. h \in Gates /\ ui \in UiRow /\ settled \subseteq taken
  BY <1>0, <1>2, NewestGate, Bounds
<1>4. \A g \in Gates : g # h => CommandNow(g) = Past(g) /\ CommandNow(g)' = Past(g)'
  BY <1>0, <1>1, Elsewhere, ElsewhereNext
<1>5. ~Waiting(h)' /\ run'.pc # "dispatch"
  BY <1>1, <1>2 DEF Waiting, Away
<1>6. ui.job = "preflight" /\ Bound => CommandNow(h) = "offered"
  BY <1>2, <1>3 DEF CommandNow, Offered
<1>7. ASSUME NEW outcome \in {"notStarted", "refused"}, PreflightFails(outcome)
      PROVE  [Contract!Next]_(Contract!vars)
  <2>1. /\ UNCHANGED <<taken, settled>> /\ ui.job = "preflight"
        /\ ui' = [ui EXCEPT !.job = "none", !.jobGate = 0]
    BY <1>7 DEF PreflightFails, Report, History
  <2>2. ui'.state = ui.state /\ ui'.job = "none"
    BY <1>3, <2>1 DEF UiRow
  <2>3. CASE ~Bound
    BY <1>1, <2>1, <2>2, <2>3, BoundKept, LetsGo
  <2>4. CASE Bound
    <3>1. ~Offered(h)'
      BY <1>1, <1>2, <2>2 DEF Offered, Told
    <3>2. Bound'
      BY <1>1, <2>2, <2>4, BoundKept
    <3>3. CommandNow(h)' = "idle"
      BY <1>2, <1>3, <1>5, <2>1, <3>1 DEF CommandNow
    <3>4. \A g \in Gates : g # h => CommandNow(g)' = CommandNow(g)
      BY <1>4, <2>1 DEF Past
    <3> QED
      BY <1>3, <1>6, <2>1, <2>4, <3>2, <3>3, <3>4, CommandMoves DEF Contract!Before
  <2> QED
    BY <2>3, <2>4
<1>8. CASE Type
  <2>1. CASE ~CanWrite
    <3>1. Stopping(calls) /\ UNCHANGED <<taken, settled>>
      BY <1>8, <2>1 DEF Type, History
    <3> QED
      BY <3>1, StoppingMaps
  <2>2. CASE CanWrite
    <3>1. /\ ui.job = "preflight" /\ ui' = [ui EXCEPT !.job = "typed"]
          /\ taken' = taken \cup {h} /\ settled' = settled
      BY <1>2, <1>8, <2>2 DEF Type
    <3>2. ui'.state = ui.state
      BY <1>3, <3>1 DEF UiRow
    <3>3. Bound /\ Bound'
      BY <1>1, <2>2, <3>2 DEF CanWrite, Bound, Following
    <3>4. CommandNow(h)' = "taken"
      BY <1>2, <1>3, <3>1 DEF CommandNow
    <3>5. \A g \in Gates : g # h => CommandNow(g)' = CommandNow(g)
      BY <1>4, <3>1 DEF Past
    <3> QED
      BY <1>3, <1>6, <3>1, <3>3, <3>4, <3>5, CommandMoves
  <2> QED
    BY <2>1, <2>2
<1>9. ASSUME NEW outcome \in {"completed", "unknown"}, CommandEnds(outcome)
      PROVE  [Contract!Next]_(Contract!vars)
  <2>1. /\ taken' = taken /\ ui.job = "typed" /\ settled' \in {settled, settled \cup {h}}
        /\ ui' = [ui EXCEPT !.job = "none", !.jobGate = 0]
    BY <1>2, <1>9 DEF CommandEnds, Report
  <2>2. ui'.state = ui.state
    BY <1>3, <2>1 DEF UiRow
  <2>3. Bound' <=> Bound
    BY <1>1, <2>2, BoundKept
  <2>4. \A g \in Gates : CommandNow(g) = Past(g) /\ CommandNow(g)' = Past(g)'
    BY <1>2, <1>4, <2>1 DEF CommandNow, Past
  <2>5. \A g \in Gates : g # h => Past(g)' = Past(g)
    BY <2>1 DEF Past
  <2>6. CASE settled' = settled
    <3>1. \A g \in Gates : CommandNow(g)' = CommandNow(g)
      BY <2>1, <2>4, <2>6 DEF Past
    <3> QED
      BY <2>3, <3>1, StepStutters
  <2>7. CASE settled' # settled
    <3>1. h \notin settled /\ h \in settled' /\ h \in taken
      BY <1>2, <2>1, <2>7
    <3>2. CommandNow(h) = "taken" /\ CommandNow(h)' = "settled"
      BY <3>1 DEF CommandNow
    <3> QED
      BY <1>3, <2>3, <2>4, <2>5, <3>2, CommandSettles
  <2> QED
    BY <2>6, <2>7
<1> QED
  BY <1>7, <1>8, <1>9

-----------------------------------------------------------------------------
(* The loop's steps.                                                       *)

\* While no command is asked or cleared, telling of other things moves none.
LEMMA TellingMaps ==
    ASSUME UNCHANGED panel, run'.gates = run.gates,
           {run.pc, run'.pc} \cap {"waiting", "dispatch"} = {},
           NEW types, Grows(chan, chan', types), "run" \notin types
    PROVE  [Contract!Next]_(Contract!vars)
<1>1. UNCHANGED <<ui, target, taken, settled>>
  BY PanelKept
<1>2. \A g \in Gates : Offered(g)' <=> Offered(g)
  BY <1>1, StillOffered
<1> QED
  BY <1>1, <1>2, BoundKept, NothingMoves

LEMMA EndsTells ==
    ASSUME AgentInv, UNCHANGED panel, run.pc \notin {"waiting", "dispatch"},
           Ends \/ EndsWith(run.steers, Fence)
    PROVE  [Contract!Next]_(Contract!vars)
<1>1. run \in RunRow /\ chan \in Seq(Event) /\ run.steers \in SUBSET Steers
  BY Bounds, RunFields
<1>2. EndingRow(run.steers) /\ Grows(chan, chan', Telling \cup {"fence"})
  <2>1. CASE Ends
    <3>1. EndingRow(run.steers) /\ Grows(chan, chan', Telling)
      BY <1>1, <2>1, EndsQuietly DEF Ends
    <3> QED
      BY <3>1 DEF Grows
  <2>2. CASE EndsWith(run.steers, Fence)
    BY <1>1, <2>2, EndsFenced
  <2> QED
    BY <2>1, <2>2
<1>3. "run" \notin Telling \cup {"fence"}
  BY DEF Telling
<1> QED
  BY <1>2, <1>3, TellingMaps DEF EndingRow

LEMMA EarlyMaps ==
    ASSUME AgentInv, UNCHANGED panel, EarlyStep
    PROVE  [Contract!Next]_(Contract!vars)
<1>1. Early_
  BY EarlyMoves DEF AgentInv
<1>2. "run" \notin Telling
  BY DEF Telling
<1> QED
  BY <1>1, <1>2, TellingMaps DEF Early_, Early

LEMMA OpenGateMaps ==
    ASSUME AgentInv, AgentInv', UNCHANGED panel, OpenGate, ~reg.cancelled
    PROVE  [Contract!Next]_(Contract!vars)
<1>1. UNCHANGED <<ui, target, taken, settled>>
  BY PanelKept
<1>2. /\ run \in RunRow /\ run.gates \in Nat /\ run.pc = "gate"
      /\ run'.gates = run.gates + 1 /\ run'.pc = "waiting"
  BY Bounds DEF OpenGate, Only, RunRow
<1>3. PICK h : h = run.gates + 1
  OBVIOUS
<1>4. h \in Gates
  <2>1. /\ run'.gates \in Nat /\ run'.commands \in Nat /\ run'.commands <= MaxWork
        /\ run'.gates <= run'.commands + events' /\ events' \in Nat /\ events' <= MaxEvents
    BY DEF AgentInv, WorldType, CountInv, Counted, RunRow
  <2> QED
    BY <1>2, <1>3, <2>1, Numbers DEF Gates
<1>5. CASE ~Bound
  BY <1>1, <1>5, LetsGo, BoundKept
<1>6. CASE Bound
  <2>1. taken \ settled = {}
    BY <1>2, <1>6 DEF AgentInv, TakenInv, Bound, Away
  <2>2. \A g : ~Offered(g) /\ ~Offered(g)'
    BY <1>2, Elsewhere, ElsewhereNext DEF Away
  <2>3. \A g \in Gates : CommandNow(g) \in {"idle", "settled"}
    BY <1>2, <2>1, <2>2 DEF CommandNow, Waiting
  <2>4. h \notin taken /\ h \notin settled
    <3>1. \A g \in taken : g \in Nat /\ g <= run.gates
      BY DEF AgentInv, TakenInv, WorldType
    <3> QED
      BY <1>2, <1>3, <3>1, Bounds
  <2>5. Bound'
    BY <1>1, <1>6, BoundKept
  <2>6. CommandNow(h)' = "asked"
    BY <1>1, <1>2, <1>3, <2>2, <2>4, <2>5 DEF CommandNow, Waiting
  <2>7. \A g \in Gates : g # h => CommandNow(g)' = CommandNow(g)
    BY <1>1, <1>2, <1>3, <2>1, <2>2 DEF CommandNow, Waiting
  <2> QED
    BY <1>4, <1>6, <2>3, <2>5, <2>6, <2>7, CommandMoves
<1> QED
  BY <1>5, <1>6

\* The wait for the answer ends: cleared, or withdrawn.
LEMMA GateLeavesMaps ==
    ASSUME AgentInv, AgentInv', UNCHANGED panel, GateCloses \/ GateAnswered
    PROVE  [Contract!Next]_(Contract!vars)
<1>1. UNCHANGED <<ui, target, taken, settled>>
  BY PanelKept
<1>2. /\ run \in RunRow /\ chan \in Seq(Event) /\ run.gates \in Nat /\ run.pc = "waiting"
      /\ run.steers \in SUBSET Steers
  BY Bounds, RunFields DEF GateCloses, GateAnswered, Only
<1>3. run'.gates = run.gates /\ run'.pc # "waiting"
  <2>1. CASE Ends
    <3>1. EndingRow(run.steers)
      BY <1>2, <2>1, EndsQuietly DEF Ends
    <3> QED
      BY <3>1 DEF EndingRow
  <2>2. CASE run' = Answered
    BY <1>2, <2>2 DEF Answered, RunRow
  <2>3. ASSUME NEW verdict,
               run' = [run EXCEPT !.verdict = verdict,
                          !.pc = IF StillRuns(verdict) THEN "dispatch" ELSE "gate"]
        PROVE  run'.gates = run.gates /\ run'.pc # "waiting"
    <3> DEFINE pc == IF StillRuns(verdict) THEN "dispatch" ELSE "gate"
    <3>1. pc # "waiting"
      OBVIOUS
    <3>2. run' = [run EXCEPT !.verdict = verdict, !.pc = pc]
      BY <2>3
    <3> HIDE DEF pc
    <3> QED
      BY <1>2, <3>1, <3>2 DEF RunRow
  <2> QED
    BY <2>1, <2>2, <2>3 DEF GateCloses, GateAnswered
<1>4. PICK h : h = run.gates
  OBVIOUS
<1>5. h \in Gates /\ h \notin taken /\ settled \subseteq taken
  <2>1. run.gates > 0 /\ run.gates \notin taken
    BY <1>2 DEF AgentInv, GateInv, TakenInv
  <2> QED
    BY <1>4, <2>1, NewestGate, Bounds
<1>6. CASE ~Bound
  BY <1>1, <1>6, LetsGo, BoundKept
<1>7. CASE Bound
  <2>1. Bound'
    BY <1>1, <1>7, BoundKept
  <2>2. ~Offered(h) /\ CommandNow(h) = "asked"
    BY <1>2, <1>4, <1>5, <1>7, Elsewhere DEF CommandNow, Waiting, Away
  <2>3. CommandNow(h)' \in {"cleared", "idle"}
    <3>1. ~Offered(h)'
      <4>1. chan' = chan \/ run'.pc = "ending"
        <5>1. Ends => run'.pc = "ending"
          BY <1>2, EndsQuietly DEF Ends, EndingRow
        <5> QED
          BY <5>1 DEF GateCloses, GateAnswered
      <4>2. CASE chan' = chan
        BY <1>1, <2>2, <4>2 DEF Offered
      <4>3. CASE run'.pc = "ending"
        <5>1. Ends
          BY <1>2, <4>3 DEF GateCloses, GateAnswered, Answered, RunRow
        <5>2. Grows(chan, chan', Telling)
          BY <1>2, <5>1, EndsQuietly DEF Ends
        <5>3. "run" \notin Telling
          BY DEF Telling
        <5> QED
          BY <1>1, <1>5, <2>2, <5>2, <5>3, StillOffered
      <4> QED
        BY <4>1, <4>2, <4>3
    <3> QED
      BY <1>1, <1>3, <1>5, <2>1, <3>1 DEF CommandNow, Waiting
  <2>4. \A g \in Gates : g # h => CommandNow(g)' = CommandNow(g)
    BY <1>1, <1>3, <1>4, Elsewhere, ElsewhereNext DEF Past
  <2> QED
    BY <1>5, <1>7, <2>1, <2>2, <2>3, <2>4, CommandMoves DEF Contract!Before
<1> QED
  BY <1>6, <1>7

LEMMA DispatchMaps ==
    ASSUME AgentInv, AgentInv', UNCHANGED panel, Dispatch
    PROVE  [Contract!Next]_(Contract!vars)
<1> DEFINE e == [t |-> "run", gate |-> run.gates]
<1>1. UNCHANGED <<ui, target, taken, settled>>
  BY PanelKept
<1>2. /\ run \in RunRow /\ chan \in Seq(Event) /\ run.gates \in Nat /\ run.pc = "dispatch"
      /\ run'.gates = run.gates /\ run'.pc = "executing" /\ chan' = Append(chan, e)
  BY Bounds DEF Dispatch, Only, To, Tell, RunRow
<1>3. PICK h : h = run.gates
  OBVIOUS
<1>4. h \in Gates /\ h \notin taken /\ settled \subseteq taken
  <2>1. run.gates > 0 /\ run.gates \notin taken
    BY <1>2 DEF AgentInv, GateInv, TakenInv
  <2> QED
    BY <1>3, <2>1, NewestGate, Bounds
<1>5. CASE ~Bound
  BY <1>1, <1>5, LetsGo, BoundKept
<1>6. CASE Bound
  <2>1. Bound'
    BY <1>1, <1>6, BoundKept
  <2>2. CommandNow(h) = "cleared"
    BY <1>2, <1>3, <1>4, <1>6, Elsewhere DEF CommandNow, Waiting, Away
  <2>3. Offered(h)'
    <3>1. e \in Event /\ e.t = "run" /\ e.gate = h
      BY <1>2, <1>3, Events
    <3> HIDE DEF e
    <3>2. Len(chan) + 1 \in DOMAIN chan' /\ chan'[Len(chan) + 1] = e
      BY <1>2, <3>1, Appended
    <3> QED
      BY <3>1, <3>2 DEF Offered
  <2>4. CommandNow(h)' = "offered"
    BY <1>1, <1>4, <2>1, <2>3 DEF CommandNow
  <2>5. \A g \in Gates : g # h => CommandNow(g)' = CommandNow(g)
    BY <1>1, <1>2, <1>3, Elsewhere, ElsewhereNext DEF Past
  <2> QED
    BY <1>4, <1>6, <2>1, <2>2, <2>4, <2>5, CommandMoves
<1> QED
  BY <1>5, <1>6

\* A command that is awaited no longer, or a run that is over, moves nothing:
\* what was taken stays taken.
LEMMA AfterwardsMaps ==
    ASSUME AgentInv, UNCHANGED panel,
           TerminalReports \/ (\E stopped \in BOOLEAN : TerminalLost(stopped)) \/ Finish
    PROVE  [Contract!Next]_(Contract!vars)
<1>1. run \in RunRow /\ chan \in Seq(Event)
  BY Bounds
<1>2. CASE Ends \/ EndsWith(run.steers, Fence)
  <2>1. run.pc \notin {"waiting", "dispatch"}
    BY DEF TerminalReports, TerminalLost, Finish, Only
  <2> QED
    BY <1>2, <2>1, EndsTells
<1>3. CASE TerminalReports /\ ~EndsWith(run.steers, Fence)
  <2>1. run.pc = "executing" /\ run' = Answered /\ chan' = chan
    BY <1>3 DEF TerminalReports, Only
  <2>2. run'.pc = "batch" /\ run'.gates = run.gates
    BY <1>1, <2>1 DEF Answered, RunRow
  <2>3. Grows(chan, chan', {})
    BY <1>1, <2>1, GrowsNot
  <2> QED
    BY <2>1, <2>2, <2>3, TellingMaps
<1>4. CASE Finish
  <2> DEFINE e == [t |-> "end"]
  <2>1. run.pc = "ending" /\ run' = [run EXCEPT !.pc = "ended"] /\ chan' = Append(chan, e)
    BY <1>4 DEF Finish, Only, To, Tell
  <2>2. run'.pc = "ended" /\ run'.gates = run.gates
    BY <1>1, <2>1 DEF RunRow
  <2>3. e \in Event /\ e.t \in {"end"}
    BY Events
  <2> HIDE DEF e
  <2>4. Grows(chan, chan', {"end"})
    BY <1>1, <2>1, <2>3, GrowsByOne
  <2> QED
    BY <2>1, <2>2, <2>4, TellingMaps
<1> QED
  BY <1>2, <1>3, <1>4 DEF TerminalLost

LEMMA LoopMaps ==
    ASSUME AgentInv, AgentInv', Loop
    PROVE  [Contract!Next]_(Contract!vars)
<1>1. UNCHANGED panel
  BY DEF Loop
<1>2. \/ EarlyStep \/ (OpenGate /\ ~reg.cancelled) \/ Finish \/ GateCloses \/ GateAnswered
      \/ Dispatch \/ TerminalReports \/ \E stopped \in BOOLEAN : TerminalLost(stopped)
  BY DEF Loop, LoopStep, EarlyStep
<1> QED
  BY <1>1, <1>2, EarlyMaps, OpenGateMaps, GateLeavesMaps, DispatchMaps, AfterwardsMaps

LEMMA StartMaps ==
    ASSUME AgentInv, Start
    PROVE  [Contract!Next]_(Contract!vars)
<1>1. PICK mode \in StartModes : StartArrives(mode)
  BY DEF Start
<1>2. UNCHANGED panel /\ chan' = chan /\ run.pc = "starting" /\ run' = [run EXCEPT !.pc = "setup"]
  BY <1>1 DEF StartArrives, Quiet, History, panel, Register, Only, To
<1>3. run \in RunRow /\ chan \in Seq(Event)
  BY Bounds
<1>4. run'.pc = "setup" /\ run'.gates = run.gates /\ Grows(chan, chan', {})
  BY <1>2, <1>3, GrowsNot DEF RunRow
<1> QED
  BY <1>2, <1>4, TellingMaps

-----------------------------------------------------------------------------
LEMMA InitMaps == Init => Contract!Init
<1> SUFFICES ASSUME Init
             PROVE  Contract!Init
  OBVIOUS
<1>1. /\ chan = <<>> /\ taken = {} /\ settled = {} /\ target = TRUE
      /\ run.pc = "starting" /\ ui.state = "following" /\ ui.job = "none"
  BY DEF Init, RunInit
<1>2. \A g : ~Offered(g)
  BY <1>1 DEF Offered
<1>3. \A g \in Gates : CommandNow(g) = "idle"
  BY <1>1, <1>2 DEF CommandNow, Waiting
<1>4. Bound = TRUE
  BY <1>1 DEF Bound, Following
<1> QED
  BY <1>3, <1>4 DEF Contract!Init

LEMMA NextMaps == AgentInv /\ AgentInv' /\ [Next]_vars => [Contract!Next]_(Contract!vars)
<1> SUFFICES ASSUME AgentInv, AgentInv', [Next]_vars
             PROVE  [Contract!Next]_(Contract!vars)
  OBVIOUS
<1>1. CASE UNCHANGED vars
  <2>1. UNCHANGED <<run, chan, ui, target, taken, settled>>
    BY <1>1 DEF vars, backend, panel
  <2> QED
    BY <2>1, AsideMaps
<1>2. CASE Next
  <2>1. \/ Start \/ Loop \/ Receive
        \/ AnswersArrive \/ ResultsArrive \/ SteersArrive \/ CallFails \/ DeliverCancel
        \/ \/ \E says \in {"run", "skip", "stop"} : Answer(says)
           \/ Stop \/ TargetChanges
           \/ \E mode \in Mode : SetMode(mode)
           \/ \E s \in Steers : Steer(s)
        \/ \/ \E outcome \in {"notStarted", "refused"} : PreflightFails(outcome)
           \/ Type
           \/ \E outcome \in {"completed", "unknown"} : CommandEnds(outcome)
    BY <1>2 DEF Next, Spontaneous
  <2> QED
    BY <2>1, StartMaps, LoopMaps, ReceiveMaps, CallsMap, OperatorMaps, TerminalMaps
<1> QED
  BY <1>1, <1>2

\* Every run of the backend, the panel and the terminal, however events and
\* calls overtake one another, is a run of the contract: one command at a
\* time, asked, cleared, offered and typed once, none asked while one that
\* was typed may still own the terminal, and none typed once the panel has
\* let go of the run or the terminal is no longer its own.
THEOREM CommandContractKept == Spec => KeepsCommandContract
  BY AgentInvariant, InitMaps, NextMaps, PTL DEF Spec, KeepsCommandContract, Contract!Spec
=============================================================================
