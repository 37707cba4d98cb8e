---------------------------- MODULE AgentProofs ----------------------------
(***************************************************************************)
(* What holds of every agent run: for any number of rounds, commands,      *)
(* messages and events, any ceiling and any commands put forward.  The     *)
(* inductive invariant says where the one command in hand is: asked about, *)
(* cleared, on its way to the panel, in the terminal, or on its way back.  *)
(***************************************************************************)
EXTENDS AgentProperties, SequenceTheorems, FiniteSetTheorems, TLAPS

Kind == {"readiness", "permission"}
Says == {"run", "skip", "stop"}
Verdict == {"unasked", "read", "sensitive"}

Event ==
    [t : {"gate"}, gate : Nat, kind : Kind] \cup [t : {"run"}, gate : Nat]
    \cup [t : {"delivered", "checkpoint"}, steers : SUBSET Steers]
    \cup [t : {"fence", "end"}]
Call ==
    [t : {"answer"}, gate : Nat, says : Says] \cup [t : {"result"}, gate : Nat, outcome : Outcome]
    \cup [t : {"steer"}, steer : Steers] \cup [t : {"cancel", "failed"}]

Inner == {"round", "batch", "assessing", "gate", "waiting", "dispatch", "executing"}
\* The command has left the backend.
Away == {"executing", "ending", "ended"}

RunRow ==
    [pc : {"starting", "setup", "top", "guard", "ending", "ended"} \cup Inner,
     iteration : Nat, budget : Nat, queued : SUBSET Steers, steers : SUBSET Steers,
     sent : SUBSET Steers, trimmed : BOOLEAN, commands : Nat, gates : Nat,
     cmd : Proposals \cup {NoCommand}, verdict : Verdict, kind : Kind \cup {"none"}]
RegRow ==
    [mode : {"absent"} \cup Mode, mail : SUBSET Steers, open : BOOLEAN,
     gate : {"none", "waiting", "dropped"} \cup Says,
     pty : {"none", "waiting", "dropped"} \cup Outcome, cancelled : BOOLEAN]
UiRow ==
    [state : {"following", "retired", "ended"},
     card : [gate : Nat, kind : Kind \cup {"none"}], job : {"none", "preflight", "typed"},
     jobGate : Nat, saved : SUBSET Steers,
     steers : [Steers -> {"none", "queued", "delivered", "undelivered"}]]

WorldType ==
    /\ run \in RunRow /\ reg \in RegRow /\ chan \in Seq(Event) /\ ui \in UiRow
    /\ seen \subseteq Steers /\ modes \subseteq Mode \cup {"absent"} /\ smart \in Verdict
    /\ calls \subseteq Call /\ taken \subseteq Nat /\ settled \subseteq taken
    /\ clicked \subseteq Nat /\ events \in Nat /\ target \in BOOLEAN

-----------------------------------------------------------------------------
(* Bounds: rounds, messages, modes and gates.                              *)

\* A gate whose answer the mode no longer honours will be asked again.
AsksAgain ==
    /\ run.pc = "waiting" /\ run.kind = "readiness"
    /\ ~PolicyAutoRuns(reg.mode, run.cmd, AssessmentForMode(run.verdict, reg.mode))

Counted ==
    /\ run.budget <= HardCap /\ run.iteration <= HardCap
    /\ run.pc \in Inner => run.iteration < run.budget
    /\ run.gates <= run.commands + events
    /\ run.pc \in {"assessing", "gate"} \/ AsksAgain => run.gates < run.commands + events

CountInv ==
    /\ Counted /\ run.commands <= MaxWork /\ events <= MaxEvents
    /\ Cardinality(reg.mail) <= MaxMail
    /\ reg.mode # "absent" => Rank(reg.mode) <= Rank(Ceiling)

-----------------------------------------------------------------------------
(* Gates: an answer that says run belongs to the gate that waits, and was  *)
(* clicked if that gate asks the operator.                                 *)

Asked == run.pc = "waiting" /\ run.kind = "permission"

GateInv ==
    /\ run.pc # "waiting" => reg.gate = "none"
    /\ run.pc = "waiting" => run.kind \in Kind
    /\ run.pc \in {"waiting", "dispatch"} => run.gates > 0
    /\ \A i \in DOMAIN chan : chan[i].t = "gate" =>
          chan[i].gate <= run.gates /\ (Asked /\ chan[i].gate = run.gates => chan[i].kind = "permission")
    /\ ui.card.gate <= run.gates
    /\ Asked /\ ui.card.gate = run.gates => ui.card.kind = "permission"
    /\ \A call \in calls : call.t = "answer" =>
          call.gate <= run.gates /\
          (Asked /\ call.gate = run.gates /\ call.says = "run" => run.gates \in clicked)
    /\ Asked /\ reg.gate = "run" => run.gates \in clicked

\* What the run remembers of the classifier's verdict is never more lenient.
Remembered ==
    run.pc \in {"gate", "waiting", "dispatch"} =>
        run.verdict = smart \/ (run.verdict = "unasked" /\ smart = "read")

VerdictInv == Remembered /\ NothingRunsUnasked

-----------------------------------------------------------------------------
(* The command in hand is in one place.                                    *)

Reported == reg.pty \in Outcome
Told(i) == i \in DOMAIN chan /\ chan[i].t = "run"
Result(call) == call \in calls /\ call.t = "result"

TokenInv ==
    /\ run.pc # "executing" => reg.pty = "none"
    /\ \A i \in DOMAIN chan : Told(i) =>
          /\ chan[i].gate = run.gates /\ run.gates > 0 /\ run.pc \in Away /\ ui.job = "none" /\ ~Reported
          /\ run.gates \notin taken /\ \A call \in calls : ~Result(call)
          /\ \A j \in DOMAIN chan : Told(j) => j = i
    /\ ui.job # "none" =>
          /\ Following /\ ui.jobGate = run.gates /\ run.gates > 0 /\ run.pc \in Away /\ ~Reported
          /\ (run.gates \in taken) = (ui.job = "typed") /\ \A call \in calls : ~Result(call)
    /\ ui.job = "none" => ui.jobGate = 0
    /\ \A call \in calls : Result(call) =>
          /\ call.gate = run.gates /\ run.pc \in Away /\ ~Reported
          /\ call.outcome = "completed" => run.gates \in settled
          /\ call.outcome = "notStarted" => run.gates \notin taken
          /\ \A other \in calls : Result(other) => other = call
    /\ reg.pty = "completed" => run.gates \in settled
    /\ reg.pty = "notStarted" => run.gates \notin taken

TakenInv ==
    /\ \A g \in taken : g > 0 /\ g <= run.gates
    /\ run.pc \in {"waiting", "dispatch"} => run.gates \notin taken
    /\ Following => \A g \in taken \ settled : g = run.gates /\ run.pc \in Away

-----------------------------------------------------------------------------
(* The end of the run, and what the panel learns of it.                    *)

EndInv ==
    /\ [t |-> "cancel"] \in calls \/ reg.cancelled => ~Following
    /\ \A i \in DOMAIN chan : chan[i].t = "end" => i = Len(chan) /\ run.pc = "ended"
    /\ ui.state = "ended" => run.pc = "ended"
    /\ Following /\ run.pc \in {"ending", "ended"} /\ (ui.job # "none" \/ \E i \in DOMAIN chan : Told(i))
          => \E i \in DOMAIN chan : chan[i].t = "fence"
    /\ NothingIsLeftBehind

-----------------------------------------------------------------------------
(* Messages to the running agent.                                          *)

DeliveredNow == {s \in Steers : ui.steers[s] = "delivered"}

\* Is s in one of the first n rounds the panel has yet to hear of?
Coming(c, s, n) == \E i \in 1 .. n : c[i].t = "delivered" /\ s \in c[i].steers

\* A panel that knows `known` and keeps `saved` will know `got` and keep
\* `sent` once it has read c.
Talk(c, got, known, saved, sent) ==
    /\ \A s \in Steers : s \in got <=> s \in known \/ Coming(c, s, Len(c))
    /\ \A i \in 1 .. Len(c) : c[i].t = "checkpoint" =>
          /\ \A s \in c[i].steers : s \in known \/ Coming(c, s, i)
          /\ (\A j \in 1 .. Len(c) : j > i => c[j].t # "checkpoint") => c[i].steers = sent
    /\ (\A i \in 1 .. Len(c) : c[i].t # "checkpoint") => saved = sent

MailInv ==
    /\ run.queued \subseteq run.steers /\ run.steers \ run.queued \subseteq seen
    /\ ~run.trimmed => seen = run.steers \ run.queued
    /\ run.queued # {} => run.pc = "round"
    /\ reg.mail \cap (run.steers \cup seen) = {}
    /\ \A s \in reg.mail \cup run.steers \cup seen : ui.steers[s] # "none"
    /\ \A call \in calls : call.t = "steer" =>
          /\ ui.steers[call.steer] # "none"
          /\ call.steer \notin reg.mail \cup run.steers \cup seen
    /\ run.pc \in {"ending", "ended"} /\ ~run.trimmed => run.sent = run.steers

ToldInv ==
    /\ DeliveredNow \subseteq seen /\ ui.saved \subseteq DeliveredNow
    /\ ui.state = "ended" =>
          DeliveredNow = seen /\ ui.saved = run.sent /\ (~run.trimmed => ui.saved = DeliveredNow)
    /\ Following => Talk(chan, seen, DeliveredNow, ui.saved, run.sent)

AgentInv ==
    /\ WorldType /\ CountInv /\ GateInv /\ VerdictInv /\ TokenInv /\ TakenInv /\ EndInv
    /\ MailInv /\ ToldInv

-----------------------------------------------------------------------------
(* Sequences of events.                                                    *)

LEMMA Appended ==
    ASSUME NEW c \in Seq(Event), NEW e \in Event, NEW d, d = Append(c, e)
    PROVE  /\ d \in Seq(Event) /\ Len(d) = Len(c) + 1 /\ Len(c) \in Nat
           /\ d[Len(c) + 1] = e /\ \A i \in 1 .. Len(c) : d[i] = c[i]
           /\ DOMAIN c = 1 .. Len(c) /\ DOMAIN d = 1 .. Len(d)
           /\ \A i \in 1 .. Len(c) : c[i] \in Event
  OBVIOUS

LEMMA Tailed ==
    ASSUME NEW c \in Seq(Event), c # <<>>, NEW d, d = Tail(c)
    PROVE  /\ d \in Seq(Event) /\ Len(c) \in Nat /\ Len(d) \in Nat /\ Len(c) = Len(d) + 1
           /\ Head(c) = c[1] /\ c[1] \in Event /\ \A i \in 1 .. Len(d) : d[i] = c[i + 1]
           /\ DOMAIN c = 1 .. Len(c) /\ DOMAIN d = 1 .. Len(d)
           /\ \A i \in 1 .. Len(c) : c[i] \in Event
  OBVIOUS

LEMMA Events ==
    /\ \A g \in Nat, k \in Kind : [t |-> "gate", gate |-> g, kind |-> k] \in Event
    /\ \A g \in Nat : [t |-> "run", gate |-> g] \in Event
    /\ \A q \in SUBSET Steers : /\ [t |-> "delivered", steers |-> q] \in Event
                                /\ [t |-> "checkpoint", steers |-> q] \in Event
    /\ [t |-> "fence"] \in Event /\ [t |-> "end"] \in Event
  BY DEF Event

LEMMA EventFields ==
    ASSUME NEW e \in Event
    PROVE  /\ e.t \in {"gate", "run", "delivered", "checkpoint", "fence", "end"}
           /\ e.t = "gate" => e.gate \in Nat /\ e.kind \in Kind
           /\ e.t = "run" => e.gate \in Nat
           /\ e.t \in {"delivered", "checkpoint"} => e.steers \subseteq Steers
  BY DEF Event

LEMMA CallFields ==
    ASSUME NEW call \in Call
    PROVE  /\ call.t \in {"answer", "result", "steer", "cancel", "failed"}
           /\ call.t = "answer" => call.gate \in Nat /\ call.says \in Says
           /\ call.t = "result" => call.gate \in Nat /\ call.outcome \in Outcome
           /\ call.t = "steer" => call.steer \in Steers
  BY DEF Call

LEMMA Calls ==
    /\ \A g \in Nat, s \in Says : [t |-> "answer", gate |-> g, says |-> s] \in Call
    /\ \A g \in Nat, o \in Outcome : [t |-> "result", gate |-> g, outcome |-> o] \in Call
    /\ \A s \in Steers : [t |-> "steer", steer |-> s] \in Call
    /\ [t |-> "cancel"] \in Call /\ [t |-> "failed"] \in Call
  BY DEF Call

\* Rounds not yet heard of, when one is added or one is read.
LEMMA ComingAppended ==
    ASSUME NEW c \in Seq(Event), NEW e \in Event, NEW d, d = Append(c, e), NEW s
    PROVE  /\ \A i \in 1 .. Len(c) : Coming(d, s, i) <=> Coming(c, s, i)
           /\ Coming(d, s, Len(d)) <=>
                 Coming(c, s, Len(c)) \/ (e.t = "delivered" /\ s \in e.steers)
<1>1. /\ Len(d) = Len(c) + 1 /\ Len(c) \in Nat
      /\ d[Len(c) + 1] = e /\ \A i \in 1 .. Len(c) : d[i] = c[i]
  BY Appended
<1>2. ASSUME NEW i \in 1 .. Len(c)
      PROVE  Coming(d, s, i) <=> Coming(c, s, i)
  BY <1>1 DEF Coming
<1>3. Coming(d, s, Len(d)) <=> Coming(d, s, Len(c)) \/ (e.t = "delivered" /\ s \in e.steers)
  BY <1>1 DEF Coming
<1>4. Coming(d, s, Len(c)) <=> Coming(c, s, Len(c))
  BY <1>1 DEF Coming
<1> QED
  BY <1>2, <1>3, <1>4

LEMMA ComingTailed ==
    ASSUME NEW c \in Seq(Event), c # <<>>, NEW d, d = Tail(c), NEW s
    PROVE  \A i \in 0 .. Len(d) :
              Coming(c, s, i + 1) <=>
                  Coming(d, s, i) \/ (Head(c).t = "delivered" /\ s \in Head(c).steers)
<1>1. /\ Len(c) \in Nat /\ Len(d) \in Nat /\ Len(c) = Len(d) + 1
      /\ Head(c) = c[1] /\ \A i \in 1 .. Len(d) : d[i] = c[i + 1]
  BY Tailed
<1> SUFFICES ASSUME NEW i \in 0 .. Len(d)
             PROVE  Coming(c, s, i + 1) <=>
                       Coming(d, s, i) \/ (c[1].t = "delivered" /\ s \in c[1].steers)
  BY <1>1
<1>2. ASSUME NEW j \in 1 .. (i + 1), c[j].t = "delivered", s \in c[j].steers, j # 1
      PROVE  Coming(d, s, i)
  <2>1. j - 1 \in 1 .. i /\ d[j - 1] = c[j]
    BY <1>1, <1>2
  <2> QED
    BY <1>2, <2>1 DEF Coming
<1>3. ASSUME NEW j \in 1 .. i, d[j].t = "delivered", s \in d[j].steers
      PROVE  Coming(c, s, i + 1)
  <2>1. j + 1 \in 1 .. (i + 1) /\ c[j + 1] = d[j]
    BY <1>1
  <2> QED
    BY <1>3, <2>1 DEF Coming
<1>4. c[1].t = "delivered" /\ s \in c[1].steers => Coming(c, s, i + 1)
  BY DEF Coming
<1>5. Coming(c, s, i + 1) => Coming(d, s, i) \/ (c[1].t = "delivered" /\ s \in c[1].steers)
  BY <1>2 DEF Coming
<1>6. Coming(d, s, i) => Coming(c, s, i + 1)
  BY <1>3 DEF Coming
<1> QED
  BY <1>4, <1>5, <1>6

-----------------------------------------------------------------------------
(* What the panel will know: each event told and each event read.          *)

LEMMA TalkTells ==
    ASSUME NEW c \in Seq(Event), NEW e \in Event, NEW d, d = Append(c, e),
           NEW got, NEW known, NEW saved, NEW sent, Talk(c, got, known, saved, sent),
           e.t \notin {"delivered", "checkpoint"}
    PROVE  Talk(d, got, known, saved, sent)
<1>1. /\ Len(d) = Len(c) + 1 /\ Len(c) \in Nat
      /\ d[Len(c) + 1] = e /\ \A i \in 1 .. Len(c) : d[i] = c[i]
  BY Appended
<1>2. \A s : /\ \A i \in 1 .. Len(c) : Coming(d, s, i) <=> Coming(c, s, i)
             /\ Coming(d, s, Len(d)) <=> Coming(c, s, Len(c))
  BY ComingAppended
<1>3. \A s \in Steers : s \in got <=> s \in known \/ Coming(d, s, Len(d))
  BY <1>2 DEF Talk
<1>4. ASSUME NEW i \in 1 .. Len(d), d[i].t = "checkpoint"
      PROVE  /\ \A s \in d[i].steers : s \in known \/ Coming(d, s, i)
             /\ (\A j \in 1 .. Len(d) : j > i => d[j].t # "checkpoint") => d[i].steers = sent
  <2>1. i \in 1 .. Len(c) /\ c[i] = d[i]
    BY <1>1, <1>4
  <2>2. \A s \in c[i].steers : s \in known \/ Coming(c, s, i)
    BY <1>4, <2>1 DEF Talk
  <2>3. (\A j \in 1 .. Len(c) : j > i => c[j].t # "checkpoint") => c[i].steers = sent
    BY <1>4, <2>1 DEF Talk
  <2>4. (\A j \in 1 .. Len(d) : j > i => d[j].t # "checkpoint")
            => \A j \in 1 .. Len(c) : j > i => c[j].t # "checkpoint"
    BY <1>1
  <2> QED
    BY <1>2, <2>1, <2>2, <2>3, <2>4
<1>5. (\A i \in 1 .. Len(d) : d[i].t # "checkpoint") => saved = sent
  BY <1>1 DEF Talk
<1> QED
  BY <1>3, <1>4, <1>5 DEF Talk

LEMMA TalkDelivers ==
    ASSUME NEW c \in Seq(Event), NEW q \in SUBSET Steers, NEW d,
           d = Append(c, [t |-> "delivered", steers |-> q]),
           NEW got, NEW known, NEW saved, NEW sent, Talk(c, got, known, saved, sent)
    PROVE  Talk(d, got \cup q, known, saved, sent)
<1> DEFINE e == [t |-> "delivered", steers |-> q]
<1>0. e \in Event /\ e.t = "delivered" /\ e.steers = q /\ d = Append(c, e)
  BY Events
<1> HIDE DEF e
<1>1. /\ Len(d) = Len(c) + 1 /\ Len(c) \in Nat
      /\ d[Len(c) + 1] = e /\ \A i \in 1 .. Len(c) : d[i] = c[i]
  BY <1>0, Appended
<1>2. \A s : /\ \A i \in 1 .. Len(c) : Coming(d, s, i) <=> Coming(c, s, i)
             /\ Coming(d, s, Len(d)) <=> Coming(c, s, Len(c)) \/ s \in q
  BY <1>0, ComingAppended
<1>3. \A s \in Steers : s \in got \cup q <=> s \in known \/ Coming(d, s, Len(d))
  BY <1>2 DEF Talk
<1>4. ASSUME NEW i \in 1 .. Len(d), d[i].t = "checkpoint"
      PROVE  /\ \A s \in d[i].steers : s \in known \/ Coming(d, s, i)
             /\ (\A j \in 1 .. Len(d) : j > i => d[j].t # "checkpoint") => d[i].steers = sent
  <2>1. i \in 1 .. Len(c) /\ c[i] = d[i]
    BY <1>0, <1>1, <1>4
  <2>2. \A s \in c[i].steers : s \in known \/ Coming(c, s, i)
    BY <1>4, <2>1 DEF Talk
  <2>3. (\A j \in 1 .. Len(c) : j > i => c[j].t # "checkpoint") => c[i].steers = sent
    BY <1>4, <2>1 DEF Talk
  <2>4. (\A j \in 1 .. Len(d) : j > i => d[j].t # "checkpoint")
            => \A j \in 1 .. Len(c) : j > i => c[j].t # "checkpoint"
    BY <1>1
  <2> QED
    BY <1>2, <2>1, <2>2, <2>3, <2>4
<1>5. (\A i \in 1 .. Len(d) : d[i].t # "checkpoint") => saved = sent
  BY <1>1 DEF Talk
<1> QED
  BY <1>3, <1>4, <1>5 DEF Talk

LEMMA TalkCheckpoints ==
    ASSUME NEW c \in Seq(Event), NEW kept \in SUBSET Steers, NEW d,
           d = Append(c, [t |-> "checkpoint", steers |-> kept]),
           NEW got, NEW known, NEW saved, NEW sent, Talk(c, got, known, saved, sent),
           kept \subseteq got
    PROVE  Talk(d, got, known, saved, kept)
<1> DEFINE e == [t |-> "checkpoint", steers |-> kept]
<1>0. e \in Event /\ e.t = "checkpoint" /\ e.steers = kept /\ d = Append(c, e)
  BY Events
<1> HIDE DEF e
<1>1. /\ Len(d) = Len(c) + 1 /\ Len(c) \in Nat
      /\ d[Len(c) + 1] = e /\ \A i \in 1 .. Len(c) : d[i] = c[i]
  BY <1>0, Appended
<1>2. \A s : /\ \A i \in 1 .. Len(c) : Coming(d, s, i) <=> Coming(c, s, i)
             /\ Coming(d, s, Len(d)) <=> Coming(c, s, Len(c))
  BY <1>0, ComingAppended
<1>3. \A s \in Steers : s \in got <=> s \in known \/ Coming(d, s, Len(d))
  BY <1>2 DEF Talk
<1>4. ASSUME NEW i \in 1 .. Len(d), d[i].t = "checkpoint"
      PROVE  /\ \A s \in d[i].steers : s \in known \/ Coming(d, s, i)
             /\ (\A j \in 1 .. Len(d) : j > i => d[j].t # "checkpoint") => d[i].steers = kept
  <2>1. CASE i = Len(d)
    BY <1>0, <1>1, <1>3, <2>1
  <2>2. CASE i # Len(d)
    <3>1. i \in 1 .. Len(c) /\ c[i] = d[i] /\ Len(d) > i /\ Len(d) \in 1 .. Len(d)
      BY <1>1, <2>2
    <3>2. \A s \in c[i].steers : s \in known \/ Coming(c, s, i)
      BY <1>4, <3>1 DEF Talk
    <3> QED
      BY <1>0, <1>1, <1>2, <3>1, <3>2
  <2> QED
    BY <2>1, <2>2
<1>5. (\A i \in 1 .. Len(d) : d[i].t # "checkpoint") => saved = kept
  BY <1>0, <1>1
<1> QED
  BY <1>3, <1>4, <1>5 DEF Talk

\* The panel hears of a round, keeps a transcript, or neither.
LEMMA TalkHears ==
    ASSUME NEW c \in Seq(Event), c # <<>>, NEW d, d = Tail(c),
           NEW got, NEW known, NEW saved, NEW sent, Talk(c, got, known, saved, sent),
           NEW now, NEW kept,
           \A s : s \in now <=> s \in known \/ (Head(c).t = "delivered" /\ s \in Head(c).steers),
           kept = IF Head(c).t = "checkpoint" THEN Head(c).steers ELSE saved
    PROVE  Talk(d, got, now, kept, sent)
<1>1. /\ Len(c) \in Nat /\ Len(d) \in Nat /\ Len(c) = Len(d) + 1
      /\ Head(c) = c[1] /\ c[1] \in Event /\ \A i \in 1 .. Len(d) : d[i] = c[i + 1]
  BY Tailed
<1>2. \A s : \A i \in 0 .. Len(d) :
          Coming(c, s, i + 1) <=>
              Coming(d, s, i) \/ (c[1].t = "delivered" /\ s \in c[1].steers)
  BY <1>1, ComingTailed
<1>3. ASSUME NEW s, NEW i \in 0 .. Len(d)
      PROVE  s \in now \/ Coming(d, s, i) <=> s \in known \/ Coming(c, s, i + 1)
  BY <1>1, <1>2
<1>4. \A s \in Steers : s \in got <=> s \in now \/ Coming(d, s, Len(d))
  <2> SUFFICES ASSUME NEW s \in Steers
               PROVE  s \in got <=> s \in now \/ Coming(d, s, Len(d))
    OBVIOUS
  <2>1. s \in now \/ Coming(d, s, Len(d)) <=> s \in known \/ Coming(c, s, Len(d) + 1)
    BY <1>1, <1>3
  <2> QED
    BY <1>1, <2>1 DEF Talk
<1>5. ASSUME NEW i \in 1 .. Len(d), d[i].t = "checkpoint"
      PROVE  /\ \A s \in d[i].steers : s \in now \/ Coming(d, s, i)
             /\ (\A j \in 1 .. Len(d) : j > i => d[j].t # "checkpoint") => d[i].steers = sent
  <2>1. i + 1 \in 1 .. Len(c) /\ c[i + 1] = d[i] /\ i \in 0 .. Len(d)
    BY <1>1, <1>5
  <2>2. \A s \in c[i + 1].steers : s \in known \/ Coming(c, s, i + 1)
    BY <1>5, <2>1 DEF Talk
  <2>3. (\A j \in 1 .. Len(c) : j > i + 1 => c[j].t # "checkpoint") => c[i + 1].steers = sent
    BY <1>5, <2>1 DEF Talk
  <2>4. ASSUME \A j \in 1 .. Len(d) : j > i => d[j].t # "checkpoint",
               NEW j \in 1 .. Len(c), j > i + 1
        PROVE  c[j].t # "checkpoint"
    <3>1. j - 1 \in 1 .. Len(d) /\ j - 1 > i /\ d[j - 1] = c[j]
      BY <1>1, <2>1, <2>4
    <3> QED
      BY <2>4, <3>1
  <2> QED
    BY <1>3, <2>1, <2>2, <2>3, <2>4
<1>6. ASSUME \A i \in 1 .. Len(d) : d[i].t # "checkpoint"
      PROVE  kept = sent
  <2>1. ASSUME NEW j \in 1 .. Len(c), j # 1
        PROVE  c[j].t # "checkpoint"
    <3>1. j - 1 \in 1 .. Len(d) /\ d[j - 1] = c[j]
      BY <1>1, <2>1
    <3> QED
      BY <1>6, <3>1
  <2>2. CASE c[1].t = "checkpoint"
    <3>1. 1 \in 1 .. Len(c) /\ \A j \in 1 .. Len(c) : j > 1 => c[j].t # "checkpoint"
      BY <1>1, <2>1
    <3> QED
      BY <1>1, <2>2, <3>1 DEF Talk
  <2>3. CASE c[1].t # "checkpoint"
    BY <1>1, <2>1, <2>3 DEF Talk
  <2> QED
    BY <2>2, <2>3
<1> QED
  BY <1>4, <1>5, <1>6 DEF Talk

LEMMA TalkKept ==
    ASSUME NEW c \in Seq(Event), c # <<>>, Head(c).t = "checkpoint",
           NEW got, NEW known, NEW saved, NEW sent, Talk(c, got, known, saved, sent)
    PROVE  Head(c).steers \subseteq known
<1>1. 1 \in 1 .. Len(c) /\ Head(c) = c[1]
  OBVIOUS
<1>2. \A s : ~Coming(c, s, 1)
  BY <1>1 DEF Coming
<1> QED
  BY <1>1, <1>2 DEF Talk

-----------------------------------------------------------------------------
(* The channel grows at its end.                                           *)

Grows(c, d, types) ==
    /\ c \in Seq(Event) /\ d \in Seq(Event) /\ Len(c) \in Nat /\ Len(d) \in Nat
    /\ Len(d) >= Len(c) /\ \A i \in 1 .. Len(c) : d[i] = c[i]
    /\ \A i \in 1 .. Len(d) : i > Len(c) => d[i].t \in types
    /\ DOMAIN c = 1 .. Len(c) /\ DOMAIN d = 1 .. Len(d)

Telling == {"delivered", "checkpoint"}

LEMMA GrowsNot == ASSUME NEW c \in Seq(Event), NEW types PROVE Grows(c, c, types)
  BY DEF Grows

LEMMA GrowsByOne ==
    ASSUME NEW c \in Seq(Event), NEW e \in Event, NEW d, d = Append(c, e), NEW types, e.t \in types
    PROVE  Grows(c, d, types)
  BY Appended DEF Grows

LEMMA GrowsOn ==
    ASSUME NEW c, NEW d, NEW e, NEW types, Grows(c, d, types), Grows(d, e, types)
    PROVE  Grows(c, e, types)
<1>1. \A i \in 1 .. Len(c) : i \in 1 .. Len(d) /\ e[i] = c[i]
  BY DEF Grows
<1>2. ASSUME NEW i \in 1 .. Len(e), i > Len(c)
      PROVE  e[i].t \in types
  <2>1. CASE i > Len(d)
    BY <2>1 DEF Grows
  <2>2. CASE ~(i > Len(d))
    <3>1. i \in 1 .. Len(d) /\ e[i] = d[i]
      BY <2>2 DEF Grows
    <3> QED
      BY <1>2, <3>1 DEF Grows
  <2> QED
    BY <2>1, <2>2
<1> QED
  BY <1>1, <1>2 DEF Grows

\* A checkpoint tells of messages the model has read, and no checkpoint
\* leaves the panel with what it keeps.
Tells(c, d, kept) ==
    \A got, known, saved :
        kept \subseteq got /\ Talk(c, got, known, saved, run.sent) => Talk(d, got, known, saved, kept)

LEMMA Checkpoints ==
    ASSUME NEW c \in Seq(Event), NEW kept \in SUBSET Steers, NEW d,
           d = c \o CheckpointOf(kept)
    PROVE  Grows(c, d, Telling) /\ Tells(c, d, kept)
<1> DEFINE e == [t |-> "checkpoint", steers |-> kept]
<1>1. e \in Event /\ e.t \in Telling
  BY Events DEF Telling
<1>2. CASE kept = run.sent
  <2>1. d = c
    BY <1>2 DEF CheckpointOf
  <2> QED
    BY <1>2, <2>1, GrowsNot DEF Tells
<1>3. CASE kept # run.sent
  <2>1. d = Append(c, e)
    BY <1>3, <1>1 DEF CheckpointOf
  <2>2. Grows(c, d, Telling)
    <3> HIDE DEF e
    <3> QED
      BY <1>1, <2>1, GrowsByOne
  <2>3. ASSUME NEW got, NEW known, NEW saved, kept \subseteq got,
               Talk(c, got, known, saved, run.sent)
        PROVE  Talk(d, got, known, saved, kept)
    BY <2>1, <2>3, TalkCheckpoints
  <2> QED
    BY <2>2, <2>3 DEF Tells
<1> QED
  BY <1>2, <1>3

\* The run's row when a run ends, whatever the reason.
EndingRow(steers) ==
    /\ run' \in RunRow /\ run'.pc = "ending" /\ run'.queued = {}
    /\ run'.steers = steers /\ run'.sent \subseteq steers
    /\ ~run'.trimmed => ~run.trimmed /\ run'.sent = steers
    /\ run'.gates = run.gates /\ run'.commands = run.commands
    /\ run'.iteration = run.iteration /\ run'.budget = run.budget

LEMMA EndsRow ==
    ASSUME run \in RunRow, NEW steers \in SUBSET Steers, NEW told, EndsWith(steers, told)
    PROVE  /\ EndingRow(steers) /\ run'.sent \in SUBSET Steers
           /\ chan' = chan \o told \o CheckpointOf(run'.sent)
<1>1. PICK kept \in SUBSET steers :
          /\ run' = [run EXCEPT !.pc = "ending", !.queued = {}, !.steers = steers, !.sent = kept,
                        !.trimmed = Trimmed(kept, steers),
                        !.cmd = NoCommand, !.verdict = "unasked", !.kind = "none"]
          /\ chan' = chan \o told \o CheckpointOf(kept)
  BY DEF EndsWith
<1> DEFINE trimmed == Trimmed(kept, steers)
           row == [pc |-> "ending", iteration |-> run.iteration, budget |-> run.budget,
                   queued |-> {}, steers |-> steers, sent |-> kept, trimmed |-> trimmed,
                   commands |-> run.commands, gates |-> run.gates,
                   cmd |-> NoCommand, verdict |-> "unasked", kind |-> "none"]
<1>2. /\ run.iteration \in Nat /\ run.budget \in Nat /\ run.commands \in Nat /\ run.gates \in Nat
      /\ run.trimmed \in BOOLEAN
  BY DEF RunRow
<1>3. trimmed \in BOOLEAN /\ (~trimmed => ~run.trimmed /\ kept = steers)
  BY <1>2 DEF Trimmed
<1> HIDE DEF trimmed
<1>4. run' = row
  BY <1>1 DEF RunRow, trimmed
<1>5. row \in RunRow
  BY <1>2, <1>3 DEF RunRow, Verdict, Kind, Inner
<1>6. run'.sent = kept /\ kept \in SUBSET Steers
  BY <1>4
<1>7. chan' = chan \o told \o CheckpointOf(run'.sent)
  BY <1>1, <1>6
<1>8. EndingRow(steers)
  BY <1>3, <1>4, <1>5 DEF EndingRow
<1> QED
  BY <1>6, <1>7, <1>8

LEMMA EndsQuietly ==
    ASSUME run \in RunRow, chan \in Seq(Event), NEW steers \in SUBSET Steers,
           EndsWith(steers, <<>>)
    PROVE  EndingRow(steers) /\ Grows(chan, chan', Telling) /\ Tells(chan, chan', run'.sent)
<1>1. EndingRow(steers) /\ run'.sent \in SUBSET Steers
  BY EndsRow
<1>2. chan' = chan \o CheckpointOf(run'.sent)
  <2>1. chan' = chan \o <<>> \o CheckpointOf(run'.sent)
    BY EndsRow
  <2>2. chan \o <<>> = chan
    OBVIOUS
  <2> QED
    BY <2>1, <2>2
<1> QED
  BY <1>1, <1>2, Checkpoints

LEMMA EndsFenced ==
    ASSUME run \in RunRow, chan \in Seq(Event), NEW steers \in SUBSET Steers,
           EndsWith(steers, Fence)
    PROVE  /\ EndingRow(steers) /\ Grows(chan, chan', Telling \cup {"fence"})
           /\ \E i \in DOMAIN chan' : chan'[i].t = "fence"
           /\ Tells(chan, chan', run'.sent)
<1> DEFINE fence == [t |-> "fence"]
           mid == Append(chan, fence)
           kept == run'.sent
<1>1. EndingRow(steers) /\ kept \in SUBSET Steers
  BY EndsRow
<1>2. fence \in Event /\ fence.t = "fence"
  BY Events
<1>3. chan \o Fence = mid
  BY <1>2 DEF Fence
<1>4. chan' = mid \o CheckpointOf(kept)
  BY <1>3, EndsRow
<1> HIDE DEF fence, kept
<1>5. /\ mid \in Seq(Event) /\ Len(mid) = Len(chan) + 1 /\ Len(chan) \in Nat
      /\ mid[Len(chan) + 1] = fence
  BY <1>2, Appended
<1>6. Grows(chan, mid, Telling \cup {"fence"})
  BY <1>2, GrowsByOne
<1>7. \A got, known, saved : Talk(chan, got, known, saved, run.sent)
                               => Talk(mid, got, known, saved, run.sent)
  BY <1>2, TalkTells
<1> HIDE DEF mid
<1>8. Grows(mid, chan', Telling) /\ Tells(mid, chan', kept)
  BY <1>1, <1>4, <1>5, Checkpoints
<1>9. Grows(mid, chan', Telling \cup {"fence"})
  BY <1>8 DEF Grows
<1>10. Grows(chan, chan', Telling \cup {"fence"})
  BY <1>6, <1>9, GrowsOn
<1>11. Len(mid) \in DOMAIN chan' /\ chan'[Len(mid)] = fence
  BY <1>5, <1>8 DEF Grows
<1>12. Tells(chan, chan', kept)
  BY <1>7, <1>8 DEF Tells
<1> QED
  BY <1>1, <1>2, <1>10, <1>11, <1>12 DEF kept

-----------------------------------------------------------------------------
(* The rounds of the loop: no command is asked about, cleared or away.     *)

Early == {"setup", "top", "guard", "round", "batch", "assessing", "gate"}

Early_ ==
    /\ run' \in RunRow /\ reg' \in RegRow /\ seen' \subseteq Steers /\ smart' \in Verdict
    /\ run.pc \in Early /\ run'.pc \in Early \cup {"ending"} /\ run'.gates = run.gates
    /\ reg'.gate = reg.gate /\ reg'.pty = reg.pty /\ reg'.cancelled = reg.cancelled
    /\ reg'.mode = reg.mode /\ reg'.mail \subseteq reg.mail /\ modes' = modes
    /\ Grows(chan, chan', Telling)

\* What is told of messages stays true, and none is lost or sent twice.
MailMoves ==
    /\ run'.queued \subseteq run'.steers /\ run'.steers \ run'.queued \subseteq seen'
    /\ ~run'.trimmed => seen' = run'.steers \ run'.queued
    /\ run'.queued # {} => run'.pc = "round"
    /\ reg'.mail \cap (run'.steers \cup seen') = {}
    /\ reg'.mail \cup run'.steers \cup seen' \subseteq reg.mail \cup run.steers \cup seen
    /\ run'.pc \in {"ending", "ended"} /\ ~run'.trimmed => run'.sent = run'.steers
    /\ seen \subseteq seen'
    /\ \A known, saved : Talk(chan, seen, known, saved, run.sent)
                           => Talk(chan', seen', known, saved, run'.sent)

LEMMA RunFields ==
    ASSUME run \in RunRow
    PROVE  /\ run = [pc |-> run.pc, iteration |-> run.iteration, budget |-> run.budget,
                     queued |-> run.queued, steers |-> run.steers, sent |-> run.sent, trimmed |-> run.trimmed,
                     commands |-> run.commands, gates |-> run.gates, cmd |-> run.cmd,
                     verdict |-> run.verdict, kind |-> run.kind]
           /\ run.iteration \in Nat /\ run.budget \in Nat /\ run.commands \in Nat /\ run.gates \in Nat
           /\ run.queued \in SUBSET Steers /\ run.steers \in SUBSET Steers
           /\ run.sent \in SUBSET Steers /\ run.trimmed \in BOOLEAN /\ run.cmd \in Proposals \cup {NoCommand}
           /\ run.verdict \in Verdict /\ run.kind \in Kind \cup {"none"}
  BY DEF RunRow

LEMMA Numbers == /\ MaxIterations \in Nat /\ MaxMail \in Nat /\ MaxWork \in Nat /\ MaxEvents \in Nat
                 /\ HardCap \in Nat /\ MaxIterations <= HardCap
  BY RunAssumption, PanelAssumption DEF HardCap

\* An end in the middle of a batch or of a round, with nothing of its own to say.
LEMMA EndsEarly ==
    ASSUME WorldType, CountInv, MailInv, run.pc \in Early, run.pc # "round", Ends,
           UNCHANGED <<reg, seen, modes, smart, events>>
    PROVE  Early_ /\ MailMoves /\ (Counted /\ Remembered)'
<1>1. run.steers \in SUBSET Steers /\ run \in RunRow /\ chan \in Seq(Event) /\ reg \in RegRow
  BY RunFields DEF WorldType
<1>2. EndingRow(run.steers) /\ Grows(chan, chan', Telling) /\ Tells(chan, chan', run'.sent)
  BY <1>1, EndsQuietly DEF Ends
<1>3. run.queued = {} /\ run.steers \subseteq seen /\ (~run.trimmed => seen = run.steers)
  BY DEF MailInv
<1>4. Early_
  BY <1>1, <1>2 DEF Early_, EndingRow, WorldType
<1>5. MailMoves
  BY <1>2, <1>3 DEF MailMoves, EndingRow, MailInv, Tells
<1>6. Counted'
  BY <1>2 DEF CountInv, Counted, EndingRow, AsksAgain, Inner
<1>7. Remembered'
  BY <1>2 DEF Remembered, EndingRow
<1> QED
  BY <1>4, <1>5, <1>6, <1>7

\* A step that says nothing and moves no message.
LEMMA StepsEarly ==
    ASSUME WorldType, CountInv, MailInv, run.pc \in Early, run.pc # "round",
           run' \in RunRow, run'.pc \in Early, run'.pc # "round",
           run'.gates = run.gates, run'.queued = run.queued, run'.steers = run.steers,
           run'.sent = run.sent, run'.trimmed = run.trimmed, smart' \in Verdict,
           UNCHANGED <<reg, chan, seen, modes>>
    PROVE  Early_ /\ MailMoves
<1>1. chan \in Seq(Event) /\ reg \in RegRow /\ seen \subseteq Steers
  BY DEF WorldType
<1>2. Grows(chan, chan', Telling)
  BY <1>1, GrowsNot
<1> QED
  BY <1>1, <1>2 DEF Early_, MailMoves, MailInv, Early
\* Every step of the loop up to a gate.
EarlyStep ==
    \/ SetUp \/ Top \/ Guard \/ RoundFails
    \/ \E rest \in SUBSET run.steers : Compact(rest)
    \/ \E tools \in BOOLEAN : RoundEnds(tools)
    \/ BatchEnds \/ BatchCancelled \/ FinishCall
    \/ \E cmd \in Proposals : CommandCall(cmd)
    \/ \E verdict \in {"unasked", "read", "sensitive"} : Assess(verdict)
    \/ (OpenGate /\ reg.cancelled)

LEMMA SetUpEarly ==
    ASSUME WorldType, CountInv, MailInv, SetUp, UNCHANGED panel
    PROVE  Early_ /\ MailMoves /\ (Counted /\ Remembered)'
<1>1. run.pc = "setup" /\ UNCHANGED <<reg, seen, modes, smart, events>> /\ run \in RunRow
  BY DEF SetUp, Only, RunUnchanged, panel, WorldType
<1>2. CASE Ends
  BY <1>1, <1>2, EndsEarly DEF Early
<1>3. CASE To("top") /\ UNCHANGED chan
  <2>1. run' = [run EXCEPT !.pc = "top"]
    BY <1>3 DEF To
  <2>2. run' \in RunRow /\ run'.pc = "top" /\ run'.gates = run.gates /\ run'.queued = run.queued
        /\ run'.steers = run.steers /\ run'.sent = run.sent /\ run'.trimmed = run.trimmed
        /\ run'.commands = run.commands /\ run'.budget = run.budget
        /\ run'.iteration = run.iteration
    BY <1>1, <2>1 DEF RunRow
  <2>3. Early_ /\ MailMoves
    BY <1>1, <1>3, <2>2, StepsEarly DEF Early, WorldType
  <2>4. (Counted /\ Remembered)'
    BY <1>1, <2>2 DEF CountInv, Counted, Remembered, AsksAgain, Inner
  <2> QED
    BY <2>3, <2>4
<1> QED
  BY <1>2, <1>3 DEF SetUp

LEMMA TopEarly ==
    ASSUME WorldType, CountInv, MailInv, Top, UNCHANGED panel
    PROVE  Early_ /\ MailMoves /\ (Counted /\ Remembered)'
<1>1. run.pc = "top" /\ UNCHANGED <<reg, seen, modes, smart, events>> /\ run \in RunRow
  BY DEF Top, Only, RunUnchanged, panel, WorldType
<1>2. CASE Ends
  BY <1>1, <1>2, EndsEarly DEF Early
<1>3. CASE To("guard") /\ UNCHANGED chan
  <2>1. run' = [run EXCEPT !.pc = "guard"]
    BY <1>3 DEF To
  <2>2. run' \in RunRow /\ run'.pc = "guard" /\ run'.gates = run.gates /\ run'.queued = run.queued
        /\ run'.steers = run.steers /\ run'.sent = run.sent /\ run'.trimmed = run.trimmed
        /\ run'.commands = run.commands /\ run'.budget = run.budget
        /\ run'.iteration = run.iteration
    BY <1>1, <2>1 DEF RunRow
  <2>3. Early_ /\ MailMoves
    BY <1>1, <1>3, <2>2, StepsEarly DEF Early, WorldType
  <2>4. (Counted /\ Remembered)'
    BY <1>1, <2>2 DEF CountInv, Counted, Remembered, AsksAgain, Inner
  <2> QED
    BY <2>3, <2>4
<1> QED
  BY <1>2, <1>3 DEF Top

LEMMA GuardEarly ==
    ASSUME WorldType, CountInv, MailInv, Guard, UNCHANGED panel
    PROVE  Early_ /\ MailMoves /\ (Counted /\ Remembered)'
<1>1. /\ run.pc = "guard" /\ UNCHANGED <<seen, modes, smart, events>> /\ run \in RunRow
      /\ reg \in RegRow /\ chan \in Seq(Event) /\ seen \subseteq Steers /\ smart \in Verdict
  BY DEF Guard, Only, RunUnchanged, panel, WorldType
<1>2. CASE Ends /\ UNCHANGED reg
  BY <1>1, <1>2, EndsEarly DEF Early
<1>3. CASE ~(Ends /\ UNCHANGED reg)
  <2> DEFINE queued == IF CanExtend THEN reg.mail ELSE {}
             budget == IF queued = {} THEN run.budget ELSE Extended
  <2>1. reg' = [reg EXCEPT !.mail = @ \ queued]
    BY <1>3 DEF Guard
  <2>2. IF run.iteration >= budget THEN Ends
        ELSE /\ run' = [run EXCEPT !.pc = "round", !.queued = queued,
                           !.budget = budget, !.steers = @ \cup queued]
             /\ UNCHANGED chan
    BY <1>3 DEF Guard
  <2>3. queued \subseteq reg.mail /\ queued \subseteq Steers
    BY <1>1 DEF RegRow
  <2>4. budget \in Nat /\ budget <= HardCap /\ (queued # {} => run.iteration < budget)
    BY <1>1, Numbers, RunFields DEF CountInv, Counted, CanExtend, Extended
  <2>5. run.queued = {} /\ run.steers \subseteq seen /\ (~run.trimmed => seen = run.steers)
    BY <1>1 DEF MailInv
  <2> HIDE DEF queued, budget
  <2>6. /\ reg' \in RegRow /\ reg'.gate = reg.gate /\ reg'.pty = reg.pty
        /\ reg'.cancelled = reg.cancelled /\ reg'.mode = reg.mode /\ reg'.mail = reg.mail \ queued
    BY <1>1, <2>1 DEF RegRow
  <2>7. CASE run.iteration >= budget
    <3>1. queued = {}
      BY <1>1, <2>4, <2>7, RunFields
    <3>2. reg' = reg
      BY <1>1, <2>1, <3>1 DEF RegRow
    <3> QED
      BY <1>3, <2>2, <2>7, <3>2
  <2>8. CASE ~(run.iteration >= budget)
    <3> DEFINE row == [pc |-> "round", iteration |-> run.iteration, budget |-> budget,
                       queued |-> queued, steers |-> run.steers \cup queued, sent |-> run.sent, trimmed |-> run.trimmed,
                       commands |-> run.commands, gates |-> run.gates,
                       cmd |-> run.cmd, verdict |-> run.verdict, kind |-> run.kind]
    <3>1. run' = row /\ chan' = chan
      BY <1>1, <2>2, <2>8 DEF RunRow
    <3>2. row \in RunRow
      BY <1>1, <2>3, <2>4, RunFields DEF RunRow, Inner
    <3>3. Grows(chan, chan', Telling)
      BY <1>1, <3>1, GrowsNot
    <3>4. Early_
      BY <1>1, <2>6, <3>1, <3>2, <3>3 DEF Early_, Early
    <3>5. MailMoves
      BY <1>1, <2>3, <2>5, <2>6, <3>1 DEF MailMoves, MailInv
    <3>6. Counted'
      BY <1>1, <2>4, <2>8, <3>1, RunFields DEF CountInv, Counted, AsksAgain, Inner
    <3>7. Remembered'
      BY <3>1 DEF Remembered
    <3> QED
      BY <3>4, <3>5, <3>6, <3>7
  <2> QED
    BY <2>7, <2>8
<1> QED
  BY <1>2, <1>3

LEMMA CompactEarly ==
    ASSUME WorldType, CountInv, MailInv, NEW rest \in SUBSET run.steers, Compact(rest), UNCHANGED panel
    PROVE  Early_ /\ MailMoves /\ (Counted /\ Remembered)'
<1>1. /\ run.pc = "guard" /\ UNCHANGED <<reg, seen, modes, smart, events>> /\ run \in RunRow
      /\ chan \in Seq(Event) /\ reg \in RegRow /\ seen \subseteq Steers /\ smart \in Verdict
  BY DEF Compact, Only, RunUnchanged, panel, WorldType
<1>2. run.queued = {} /\ run.steers \subseteq seen /\ run.steers \in SUBSET Steers
  BY <1>1, RunFields DEF MailInv
<1>3. PICK kept \in SUBSET rest :
          /\ run' = [run EXCEPT !.steers = rest, !.sent = kept, !.trimmed = TRUE]
          /\ chan' = chan \o CheckpointOf(kept)
  BY DEF Compact
<1>4. Grows(chan, chan', Telling) /\ Tells(chan, chan', kept)
  BY <1>1, <1>2, <1>3, Checkpoints
<1> DEFINE row == [pc |-> "guard", iteration |-> run.iteration, budget |-> run.budget,
                   queued |-> run.queued, steers |-> rest, sent |-> kept, trimmed |-> TRUE,
                   commands |-> run.commands, gates |-> run.gates,
                   cmd |-> run.cmd, verdict |-> run.verdict, kind |-> run.kind]
<1>5. run' = row
  BY <1>1, <1>3 DEF RunRow
<1>6. row \in RunRow
  BY <1>1, <1>2, RunFields DEF RunRow, Inner
<1>7. Early_
  BY <1>1, <1>4, <1>5, <1>6 DEF Early_, Early
<1>8. MailMoves
  BY <1>1, <1>2, <1>4, <1>5 DEF MailMoves, MailInv, Tells
<1>9. Counted'
  BY <1>1, <1>5 DEF CountInv, Counted, AsksAgain, Inner
<1>10. Remembered'
  BY <1>5 DEF Remembered
<1> QED
  BY <1>7, <1>8, <1>9, <1>10

LEMMA RoundFailsEarly ==
    ASSUME WorldType, CountInv, MailInv, RoundFails, UNCHANGED panel
    PROVE  Early_ /\ MailMoves /\ (Counted /\ Remembered)'
<1>1. /\ run.pc = "round" /\ UNCHANGED <<reg, seen, modes, smart, events>> /\ run \in RunRow
      /\ chan \in Seq(Event) /\ reg \in RegRow
  BY DEF RoundFails, Only, RunUnchanged, panel, WorldType
<1>2. Restored \in SUBSET Steers /\ Restored \subseteq seen /\ (~run.trimmed => Restored = seen)
  BY <1>1, RunFields DEF Restored, MailInv
<1>3. EndingRow(Restored) /\ Grows(chan, chan', Telling) /\ Tells(chan, chan', run'.sent)
  BY <1>1, <1>2, EndsQuietly DEF RoundFails
<1>4. Early_
  BY <1>1, <1>3 DEF Early_, EndingRow, WorldType, Early
<1>5. MailMoves
  <2>1. Restored \subseteq run.steers
    BY DEF Restored
  <2> QED
    BY <1>1, <1>2, <1>3, <2>1 DEF MailMoves, EndingRow, MailInv, Tells
<1>6. Counted'
  BY <1>1, <1>3 DEF CountInv, Counted, EndingRow, AsksAgain, Inner
<1>7. Remembered'
  BY <1>3 DEF Remembered, EndingRow
<1> QED
  BY <1>4, <1>5, <1>6, <1>7

LEMMA RoundEndsEarly ==
    ASSUME WorldType, CountInv, MailInv, NEW tools \in BOOLEAN, RoundEnds(tools), UNCHANGED panel
    PROVE  Early_ /\ MailMoves /\ (Counted /\ Remembered)'
<1> DEFINE delivered == IF run.queued = {} THEN <<>>
                        ELSE <<[t |-> "delivered", steers |-> run.queued]>>
           mid == chan \o delivered
           got == seen'
<1>1. /\ run.pc = "round" /\ UNCHANGED <<reg, modes, smart, events>> /\ run \in RunRow
      /\ chan \in Seq(Event) /\ reg \in RegRow /\ seen' = seen \cup run.queued
      /\ seen \subseteq Steers /\ smart \in Verdict
  BY DEF RoundEnds, Only, panel, WorldType
<1>2. \/ /\ run' = [run EXCEPT !.pc = "batch", !.queued = {}]
         /\ chan' = mid
      \/ EndsWith(run.steers, delivered)
      \/ \E kept \in SUBSET run.steers :
            /\ run' = [run EXCEPT !.pc = "top", !.queued = {}, !.sent = kept,
                          !.trimmed = Trimmed(kept, run.steers), !.iteration = @ + 1]
            /\ chan' = mid \o CheckpointOf(kept)
  BY DEF RoundEnds
<1>3. /\ got \in SUBSET Steers /\ run.queued \in SUBSET Steers /\ got = seen \cup run.queued
      /\ run.steers \subseteq got /\ run.steers \in SUBSET Steers
      /\ ~run.trimmed => got = run.steers
  BY <1>1, RunFields DEF MailInv
<1>4. /\ mid \in Seq(Event) /\ Grows(chan, mid, Telling)
      /\ \A known, saved : Talk(chan, seen, known, saved, run.sent)
                              => Talk(mid, got, known, saved, run.sent)
  <2>1. CASE run.queued = {}
    <3>1. mid = chan /\ got = seen
      BY <1>1, <1>3, <2>1
    <3> QED
      BY <1>1, <3>1, GrowsNot
  <2>2. CASE run.queued # {}
    <3> DEFINE e == [t |-> "delivered", steers |-> run.queued]
    <3>1. e \in Event /\ e.t \in Telling
      BY <1>3, Events DEF Telling
    <3>2. mid = Append(chan, e)
      BY <1>1, <2>2, <3>1
    <3> HIDE DEF mid, got
    <3>3. ASSUME NEW known, NEW saved, Talk(chan, seen, known, saved, run.sent)
          PROVE  Talk(mid, got, known, saved, run.sent)
      <4>1. Talk(mid, seen \cup run.queued, known, saved, run.sent)
        BY <1>1, <1>3, <3>2, <3>3, TalkDelivers
      <4> QED
        BY <1>3, <4>1
    <3> HIDE DEF e
    <3>4. mid \in Seq(Event) /\ Grows(chan, mid, Telling)
      BY <1>1, <3>1, <3>2, GrowsByOne, Appended
    <3> QED
      BY <3>3, <3>4
  <2> QED
    BY <2>1, <2>2
<1> HIDE DEF mid, got
<1>5. CASE /\ run' = [run EXCEPT !.pc = "batch", !.queued = {}]
           /\ chan' = mid
  <2> DEFINE row == [pc |-> "batch", iteration |-> run.iteration, budget |-> run.budget,
                     queued |-> {}, steers |-> run.steers, sent |-> run.sent, trimmed |-> run.trimmed,
                     commands |-> run.commands, gates |-> run.gates,
                     cmd |-> run.cmd, verdict |-> run.verdict, kind |-> run.kind]
  <2>1. run' = row /\ chan' = mid
    BY <1>1, <1>5 DEF RunRow
  <2>2. row \in RunRow
    BY <1>1, RunFields DEF RunRow, Inner
  <2>3. Early_
    BY <1>1, <1>3, <1>4, <2>1, <2>2 DEF Early_, Early
  <2>4. MailMoves
    BY <1>1, <1>3, <1>4, <2>1 DEF MailMoves, MailInv, got
  <2>5. Counted'
    BY <1>1, <2>1 DEF CountInv, Counted, AsksAgain, Inner
  <2>6. Remembered'
    BY <2>1 DEF Remembered
  <2> QED
    BY <2>3, <2>4, <2>5, <2>6
<1>6. CASE EndsWith(run.steers, delivered)
  <2>1. EndingRow(run.steers) /\ run'.sent \in SUBSET Steers
    BY <1>1, <1>3, <1>6, EndsRow
  <2>2. chan' = mid \o CheckpointOf(run'.sent)
    BY <1>1, <1>3, <1>6, EndsRow DEF mid
  <2>3. Grows(mid, chan', Telling) /\ Tells(mid, chan', run'.sent)
    BY <1>4, <2>1, <2>2, Checkpoints
  <2>4. Grows(chan, chan', Telling)
    BY <1>4, <2>3, GrowsOn
  <2>5. Early_
    BY <1>1, <1>3, <2>1, <2>4 DEF Early_, EndingRow, Early, got
  <2>6. \A known, saved : Talk(chan, seen, known, saved, run.sent)
                            => Talk(chan', seen', known, saved, run'.sent)
    BY <1>3, <1>4, <2>1, <2>3 DEF Tells, EndingRow, got
  <2>7. MailMoves
    BY <1>1, <1>3, <2>1, <2>6 DEF MailMoves, MailInv, EndingRow, got
  <2>8. Counted'
    BY <1>1, <2>1 DEF CountInv, Counted, EndingRow, AsksAgain, Inner
  <2>9. Remembered'
    BY <2>1 DEF Remembered, EndingRow
  <2> QED
    BY <2>5, <2>7, <2>8, <2>9
<1>7. ASSUME NEW kept \in SUBSET run.steers,
             run' = [run EXCEPT !.pc = "top", !.queued = {}, !.sent = kept,
                        !.trimmed = Trimmed(kept, run.steers), !.iteration = @ + 1],
             chan' = mid \o CheckpointOf(kept)
      PROVE  Early_ /\ MailMoves /\ (Counted /\ Remembered)'
  <2> DEFINE trimmed == Trimmed(kept, run.steers)
             row == [pc |-> "top", iteration |-> run.iteration + 1, budget |-> run.budget,
                     queued |-> {}, steers |-> run.steers, sent |-> kept, trimmed |-> trimmed,
                     commands |-> run.commands, gates |-> run.gates,
                     cmd |-> run.cmd, verdict |-> run.verdict, kind |-> run.kind]
  <2>1. trimmed \in BOOLEAN /\ (~trimmed => ~run.trimmed)
    BY <1>1, RunFields DEF Trimmed
  <2> HIDE DEF trimmed
  <2>2. run' = row
    BY <1>1, <1>7 DEF RunRow, trimmed
  <2>3. row \in RunRow /\ run.iteration + 1 \in Nat
    BY <1>1, <1>3, <2>1, RunFields DEF RunRow, Inner
  <2>4. Grows(mid, chan', Telling) /\ Tells(mid, chan', kept)
    BY <1>3, <1>4, <1>7, Checkpoints
  <2>5. Grows(chan, chan', Telling)
    BY <1>4, <2>4, GrowsOn
  <2>6. Early_
    BY <1>1, <1>3, <2>2, <2>3, <2>5 DEF Early_, Early, got
  <2>7. \A known, saved : Talk(chan, seen, known, saved, run.sent)
                            => Talk(chan', seen', known, saved, run'.sent)
    BY <1>3, <1>4, <2>2, <2>4 DEF Tells, got
  <2>8. MailMoves
    BY <1>1, <1>3, <2>1, <2>2, <2>7 DEF MailMoves, MailInv, got
  <2>9. Counted'
    <3>1. run.iteration + 1 <= HardCap
      BY <1>1, Numbers, RunFields DEF CountInv, Counted, Inner
    <3> QED
      BY <1>1, <2>2, <3>1 DEF CountInv, Counted, AsksAgain, Inner
  <2>10. Remembered'
    BY <2>2 DEF Remembered
  <2> QED
    BY <2>6, <2>8, <2>9, <2>10
<1> QED
  BY <1>2, <1>5, <1>6, <1>7

LEMMA BatchEndsEarly ==
    ASSUME WorldType, CountInv, MailInv, BatchEnds, UNCHANGED panel
    PROVE  Early_ /\ MailMoves /\ (Counted /\ Remembered)'
<1>1. /\ run.pc = "batch" /\ UNCHANGED <<reg, seen, modes, smart, events>> /\ run \in RunRow
      /\ chan \in Seq(Event) /\ reg \in RegRow /\ seen \subseteq Steers /\ smart \in Verdict
  BY DEF BatchEnds, Only, RunUnchanged, panel, WorldType
<1>2. /\ run.steers \subseteq seen /\ run.steers \in SUBSET Steers /\ run.queued = {}
      /\ ~run.trimmed => seen = run.steers
  BY <1>1, RunFields DEF MailInv
<1>3. PICK kept \in SUBSET run.steers :
          /\ run' = [run EXCEPT !.pc = "top", !.iteration = @ + 1, !.sent = kept,
                        !.trimmed = Trimmed(kept, run.steers)]
          /\ chan' = chan \o CheckpointOf(kept)
  BY DEF BatchEnds
<1>4. Grows(chan, chan', Telling) /\ Tells(chan, chan', kept)
  BY <1>1, <1>2, <1>3, Checkpoints
<1> DEFINE trimmed == Trimmed(kept, run.steers)
           row == [pc |-> "top", iteration |-> run.iteration + 1, budget |-> run.budget,
                   queued |-> run.queued, steers |-> run.steers, sent |-> kept, trimmed |-> trimmed,
                   commands |-> run.commands, gates |-> run.gates,
                   cmd |-> run.cmd, verdict |-> run.verdict, kind |-> run.kind]
<1>5. trimmed \in BOOLEAN /\ (~trimmed => ~run.trimmed)
  BY <1>1, RunFields DEF Trimmed
<1> HIDE DEF trimmed
<1>6. run' = row
  BY <1>1, <1>3 DEF RunRow, trimmed
<1>7. row \in RunRow
  BY <1>1, <1>2, <1>5, RunFields DEF RunRow, Inner
<1>8. Early_
  BY <1>1, <1>4, <1>6, <1>7 DEF Early_, Early
<1>9. MailMoves
  BY <1>1, <1>2, <1>4, <1>5, <1>6 DEF MailMoves, MailInv, Tells
<1>10. Counted'
  <2>1. run.iteration + 1 <= HardCap
    BY <1>1, Numbers, RunFields DEF CountInv, Counted, Inner
  <2> QED
    BY <1>1, <1>6, <2>1 DEF CountInv, Counted, AsksAgain, Inner
<1>11. Remembered'
  BY <1>6 DEF Remembered
<1> QED
  BY <1>8, <1>9, <1>10, <1>11

LEMMA CommandEarly ==
    ASSUME WorldType, CountInv, MailInv, NEW cmd \in Proposals, CommandCall(cmd), UNCHANGED panel
    PROVE  Early_ /\ MailMoves /\ (Counted /\ Remembered)'
<1> DEFINE pc == IF AsksClassifier(reg.mode, cmd) THEN "assessing" ELSE "gate"
           row == [pc |-> pc, iteration |-> run.iteration, budget |-> run.budget,
                   queued |-> run.queued, steers |-> run.steers, sent |-> run.sent, trimmed |-> run.trimmed,
                   commands |-> run.commands + 1, gates |-> run.gates,
                   cmd |-> cmd, verdict |-> "unasked", kind |-> run.kind]
<1>1. /\ run.pc = "batch" /\ UNCHANGED <<reg, chan, seen, modes, events>> /\ run \in RunRow
      /\ smart' = "unasked"
      /\ run' = [run EXCEPT !.cmd = cmd, !.commands = @ + 1, !.verdict = "unasked", !.pc = pc]
  BY DEF CommandCall, Only, panel, WorldType
<1>2. run' = row
  BY <1>1 DEF RunRow
<1>3. pc \in {"assessing", "gate"}
  OBVIOUS
<1> HIDE DEF pc
<1>4. row \in RunRow
  BY <1>1, <1>3, RunFields DEF RunRow, Inner, Verdict
<1>5. Early_ /\ MailMoves
  BY <1>1, <1>2, <1>3, <1>4, StepsEarly DEF Early, Verdict
<1>6. Counted'
  <2>1. run.gates < run.commands + 1 + events
    BY <1>1, RunFields DEF CountInv, Counted, WorldType
  <2> QED
    BY <1>1, <1>2, <1>3, <2>1, RunFields DEF CountInv, Counted, AsksAgain, Inner, WorldType
<1>7. Remembered'
  BY <1>1, <1>2 DEF Remembered
<1> QED
  BY <1>5, <1>6, <1>7

LEMMA AssessEarly ==
    ASSUME WorldType, CountInv, MailInv, NEW verdict \in {"unasked", "read", "sensitive"},
           Assess(verdict), UNCHANGED panel
    PROVE  Early_ /\ MailMoves /\ (Counted /\ Remembered)'
<1> DEFINE row == [pc |-> "gate", iteration |-> run.iteration, budget |-> run.budget,
                   queued |-> run.queued, steers |-> run.steers, sent |-> run.sent, trimmed |-> run.trimmed,
                   commands |-> run.commands, gates |-> run.gates,
                   cmd |-> run.cmd, verdict |-> verdict, kind |-> run.kind]
<1>1. /\ run.pc = "assessing" /\ UNCHANGED <<reg, chan, seen, modes, events>> /\ run \in RunRow
      /\ smart' = verdict /\ run' = [run EXCEPT !.pc = "gate", !.verdict = verdict]
  BY DEF Assess, Only, panel, WorldType
<1>2. run' = row
  BY <1>1 DEF RunRow
<1>3. row \in RunRow
  BY <1>1, RunFields DEF RunRow, Inner, Verdict
<1>4. Early_ /\ MailMoves
  BY <1>1, <1>2, <1>3, StepsEarly DEF Early, Verdict
<1>5. Counted'
  BY <1>1, <1>2 DEF CountInv, Counted, AsksAgain, Inner
<1>6. Remembered'
  BY <1>1, <1>2 DEF Remembered
<1> QED
  BY <1>4, <1>5, <1>6

LEMMA EarlyMoves ==
    ASSUME WorldType, CountInv, MailInv, EarlyStep, UNCHANGED panel
    PROVE  Early_ /\ MailMoves /\ (Counted /\ Remembered)'
<1>1. CASE BatchCancelled \/ FinishCall
  <2>1. run.pc = "batch" /\ Ends /\ UNCHANGED <<reg, seen, modes, smart, events>>
    BY <1>1 DEF BatchCancelled, FinishCall, Only, RunUnchanged, panel
  <2> QED
    BY <2>1, EndsEarly DEF Early
<1>2. CASE OpenGate /\ reg.cancelled
  <2>1. run.pc = "gate" /\ Ends /\ UNCHANGED <<reg, seen, modes, smart, events>>
    BY <1>2 DEF OpenGate, Only, RunUnchanged, panel
  <2> QED
    BY <2>1, EndsEarly DEF Early
<1> QED
  BY <1>1, <1>2, SetUpEarly, TopEarly, GuardEarly, CompactEarly, RoundFailsEarly, RoundEndsEarly,
     BatchEndsEarly, CommandEarly, AssessEarly DEF EarlyStep

-----------------------------------------------------------------------------
(* The loop keeps the invariant; first what every step of it shares.       *)

LEMMA PanelKept ==
    ASSUME UNCHANGED panel
    PROVE  UNCHANGED <<ui, target, calls, taken, settled, clicked, events>>
  BY DEF panel

LEMMA LoopMail ==
    ASSUME AgentInv, MailMoves, UNCHANGED panel, run.pc # "ended"
    PROVE  MailInv' /\ ToldInv'
<1>1. UNCHANGED <<ui, calls>>
  BY PanelKept
<1>2. MailInv'
  BY <1>1 DEF AgentInv, MailInv, MailMoves
<1>3. ui.state # "ended"
  BY DEF AgentInv, EndInv
<1>4. DeliveredNow' = DeliveredNow
  BY <1>1 DEF DeliveredNow
<1>5. Following => Talk(chan', seen', DeliveredNow, ui.saved, run'.sent)
  BY DEF AgentInv, ToldInv, MailMoves
<1>6. DeliveredNow \subseteq seen' /\ ui.saved \subseteq DeliveredNow
  BY DEF AgentInv, ToldInv, MailMoves
<1> QED
  BY <1>1, <1>2, <1>3, <1>4, <1>5, <1>6 DEF ToldInv, Following

LEMMA LoopCount ==
    ASSUME AgentInv, Counted', reg'.mail \subseteq reg.mail, reg'.mode \in {reg.mode, "absent"},
           run'.commands <= MaxWork, UNCHANGED panel
    PROVE  CountInv'
<1>1. events' = events
  BY PanelKept
<1>2. IsFiniteSet(reg.mail) /\ reg.mail \subseteq Steers
  BY RunAssumption, FS_Subset DEF AgentInv, WorldType, RegRow
<1>3. Cardinality(reg'.mail) <= Cardinality(reg.mail) /\ Cardinality(reg'.mail) \in Nat
      /\ Cardinality(reg.mail) \in Nat
  BY <1>2, FS_Subset, FS_CardinalityType
<1>4. Cardinality(reg'.mail) <= MaxMail
  BY <1>3, Numbers DEF AgentInv, CountInv
<1> QED
  BY <1>1, <1>4 DEF AgentInv, CountInv

LEMMA EarlyKeeps ==
    ASSUME AgentInv, Early_, MailMoves, (Counted /\ Remembered)', run'.commands <= MaxWork,
           UNCHANGED panel
    PROVE  AgentInv'
<1>1. UNCHANGED <<ui, target, calls, taken, settled, clicked, events>>
  BY PanelKept
<1>2. WorldType'
  BY <1>1 DEF AgentInv, WorldType, Early_, Grows
<1>3. MailInv' /\ ToldInv' /\ CountInv'
  BY LoopMail, LoopCount DEF Early_, Early
<1>4. /\ run.pc \notin {"waiting", "dispatch"} \cup Away
      /\ run'.pc \notin {"waiting", "dispatch", "executing", "ended"}
      /\ run'.gates = run.gates /\ reg'.gate = "none" /\ reg'.pty = "none"
      /\ reg'.cancelled = reg.cancelled
  BY DEF Early_, Early, Away, AgentInv, GateInv, TokenInv
<1>5. /\ \A i \in DOMAIN chan' : chan'[i].t \in Telling \/ (i \in DOMAIN chan /\ chan'[i] = chan[i])
  BY DEF Early_, Grows
<1>6. GateInv'
  BY <1>1, <1>4, <1>5 DEF AgentInv, GateInv, Asked, Telling
<1>7. VerdictInv'
  BY <1>4 DEF VerdictInv, NothingRunsUnasked
<1>8. \A i \in DOMAIN chan : ~Told(i)
  BY <1>4 DEF AgentInv, TokenInv
<1>9. \A i \in DOMAIN chan' : ~(Told(i)')
  BY <1>5, <1>8 DEF Told, Telling
<1>10. ui.job = "none" /\ \A call \in calls : ~Result(call)
  BY <1>4 DEF AgentInv, TokenInv
<1>11. TokenInv'
  BY <1>1, <1>4, <1>9, <1>10 DEF AgentInv, TokenInv, Result, Outcome
<1>12. TakenInv'
  BY <1>1, <1>4 DEF AgentInv, TakenInv, Following
<1>13. EndInv'
  <2>1. \A i \in DOMAIN chan' : chan'[i].t # "end"
    BY <1>4, <1>5 DEF AgentInv, EndInv, Telling, Away
  <2> QED
    BY <1>1, <1>4, <1>9, <1>10, <2>1
    DEF AgentInv, EndInv, NothingIsLeftBehind, Following, Away
<1> QED
  BY <1>2, <1>3, <1>6, <1>7, <1>11, <1>12, <1>13 DEF AgentInv

\* A verdict read again in the same mode says the same, and what the mode
\* makes of a forgotten verdict it makes of the verdict as well.
LEMMA Assessed ==
    ASSUME NEW v \in Verdict, NEW mode
    PROVE  LET w == AssessmentForMode(v, mode)
           IN  /\ w \in Verdict /\ AssessmentForMode(w, mode) = w
               /\ w = v \/ (w = "unasked" /\ v = "read")
  BY DEF AssessmentForMode, Verdict

LEMMA Lenient ==
    ASSUME NEW v \in Verdict, NEW s \in Verdict, v = s \/ (v = "unasked" /\ s = "read"),
           NEW mode, NEW cmd, PolicyAutoRuns(mode, cmd, AssessmentForMode(v, mode))
    PROVE  PolicyAutoRuns(mode, cmd, AssessmentForMode(s, mode))
<1>1. CASE v = s
  BY <1>1
<1>2. CASE v = "unasked" /\ s = "read"
  <2>1. AssessmentForMode(v, mode) = "unasked" /\ AssessmentForMode(s, mode) \in {"read", "unasked"}
    BY <1>2 DEF AssessmentForMode
  <2>2. PolicyAutoRuns(mode, cmd, "unasked") => PolicyAutoRuns(mode, cmd, "read")
    BY DEF PolicyAutoRuns, Effect
  <2> QED
    BY <2>1, <2>2
<1> QED
  BY <1>1, <1>2

\* Where no command is away, none comes to be away, and no gate that was
\* typed at is asked again.
LEMMA NotAway ==
    ASSUME AgentInv, run.pc \notin Away, run'.pc \notin {"executing", "ended"},
           run'.gates \in Nat, run'.gates >= run.gates, reg'.pty = reg.pty,
           reg'.cancelled = reg.cancelled, Grows(chan, chan', Telling \cup {"gate"}),
           run'.pc \in {"waiting", "dispatch"} =>
               run'.gates > run.gates \/ run.pc \in {"waiting", "dispatch"},
           run'.gates > run.gates \/ run'.gates = run.gates, UNCHANGED panel
    PROVE  TokenInv' /\ TakenInv' /\ EndInv'
<1>1. UNCHANGED <<ui, target, calls, taken, settled, clicked, events>>
  BY PanelKept
<1>2. /\ \A i \in DOMAIN chan' :
            chan'[i].t \in Telling \cup {"gate"} \/ (i \in DOMAIN chan /\ chan'[i] = chan[i])
  BY DEF Grows
<1>3. /\ \A i \in DOMAIN chan : ~Told(i)
      /\ ui.job = "none" /\ (\A call \in calls : ~Result(call)) /\ reg.pty = "none"
  BY DEF AgentInv, TokenInv, Away
<1>4. \A i \in DOMAIN chan' : ~(Told(i)')
  BY <1>2, <1>3 DEF Told, Telling
<1>5. TokenInv'
  BY <1>1, <1>3, <1>4 DEF AgentInv, TokenInv, Result, Outcome
<1>6. TakenInv'
  <2>1. \A g \in taken : g \in Nat /\ g > 0 /\ g <= run.gates /\ run.gates \in Nat
    BY RunFields DEF AgentInv, TakenInv, WorldType
  <2>2. \A g \in taken : g > 0 /\ g <= run'.gates
    BY <2>1
  <2>3. run'.pc \in {"waiting", "dispatch"} => run'.gates \notin taken
    BY <2>1 DEF AgentInv, TakenInv
  <2>4. Following => taken \ settled = {}
    BY DEF AgentInv, TakenInv
  <2> QED
    BY <1>1, <2>2, <2>3, <2>4 DEF TakenInv, Following
<1>7. EndInv'
  <2>1. \A i \in DOMAIN chan' : chan'[i].t # "end"
    BY <1>2 DEF AgentInv, EndInv, Telling, Away
  <2> QED
    BY <1>1, <1>3, <1>4, <2>1
    DEF AgentInv, EndInv, NothingIsLeftBehind, Following, Away
<1> QED
  BY <1>5, <1>6, <1>7

LEMMA GateOpens ==
    ASSUME AgentInv, OpenGate, ~reg.cancelled, UNCHANGED panel, run'.commands <= MaxWork
    PROVE  AgentInv'
<1> DEFINE verdict == AssessmentForMode(run.verdict, reg.mode)
           kind == IF PolicyAutoRuns(reg.mode, run.cmd, verdict)
                   THEN "readiness" ELSE "permission"
           row == [pc |-> "waiting", iteration |-> run.iteration, budget |-> run.budget,
                   queued |-> run.queued, steers |-> run.steers, sent |-> run.sent, trimmed |-> run.trimmed,
                   commands |-> run.commands, gates |-> run.gates + 1,
                   cmd |-> run.cmd, verdict |-> verdict, kind |-> kind]
           e == [t |-> "gate", gate |-> run.gates + 1, kind |-> kind]
<1>1. UNCHANGED <<ui, target, calls, taken, settled, clicked, events>>
  BY PanelKept
<1>2. run \in RunRow /\ reg \in RegRow /\ chan \in Seq(Event) /\ run.gates \in Nat
      /\ run.verdict \in Verdict
  BY RunFields DEF AgentInv, WorldType
<1>3. /\ run.pc = "gate" /\ run' = row /\ chan' = Append(chan, e)
      /\ reg' = [reg EXCEPT !.gate = "waiting"] /\ UNCHANGED <<seen, modes, smart>>
  BY <1>2 DEF OpenGate, Only, RunUnchanged, Tell, RunRow
<1>4. /\ verdict \in Verdict /\ AssessmentForMode(verdict, reg.mode) = verdict
      /\ verdict = run.verdict \/ (verdict = "unasked" /\ run.verdict = "read")
  BY <1>2, Assessed
<1>5. kind \in Kind /\ (kind = "readiness" => PolicyAutoRuns(reg.mode, run.cmd, verdict))
  BY DEF Kind
<1> HIDE DEF kind, verdict
<1>6. row \in RunRow
  BY <1>2, <1>4, <1>5, RunFields DEF RunRow, Inner
<1>7. e \in Event /\ e.t = "gate" /\ e.gate = run.gates + 1 /\ e.kind = kind
  BY <1>2, <1>5, Events
<1> HIDE DEF e
<1>8. /\ reg' \in RegRow /\ reg'.gate = "waiting" /\ reg'.pty = reg.pty /\ reg'.mail = reg.mail
      /\ reg'.cancelled = reg.cancelled /\ reg'.mode = reg.mode
  BY <1>2, <1>3 DEF RegRow
<1>9. Grows(chan, chan', Telling \cup {"gate"})
  BY <1>2, <1>3, <1>7, GrowsByOne
<1>10. WorldType'
  BY <1>1, <1>3, <1>6, <1>8, <1>9 DEF AgentInv, WorldType, Grows
<1>11. MailMoves
  <2>1. run.queued = {}
    BY <1>3 DEF AgentInv, MailInv
  <2>2. \A known, saved : Talk(chan, seen, known, saved, run.sent)
                            => Talk(chan', seen, known, saved, run.sent)
    BY <1>2, <1>3, <1>7, TalkTells
  <2> QED
    BY <1>3, <1>8, <2>1, <2>2 DEF MailMoves, AgentInv, MailInv
<1>12. MailInv' /\ ToldInv'
  BY <1>3, <1>11, LoopMail
<1>13. Counted'
  <2>1. ~AsksAgain'
    BY <1>3, <1>4, <1>5, <1>8 DEF AsksAgain
  <2>2. run.gates < run.commands + events /\ run.commands \in Nat /\ events \in Nat
    BY <1>3, <1>2, RunFields DEF AgentInv, CountInv, Counted, WorldType
  <2> QED
    BY <1>1, <1>2, <1>3, <2>1, <2>2 DEF AgentInv, CountInv, Counted, Inner
<1>14. CountInv'
  BY <1>8, <1>13, LoopCount
<1>15. VerdictInv'
  BY <1>3, <1>4 DEF AgentInv, VerdictInv, Remembered, NothingRunsUnasked
<1>16. TokenInv' /\ TakenInv' /\ EndInv'
  BY <1>2, <1>3, <1>8, <1>9, NotAway DEF Away
<1>17. GateInv'
  <2>1. \A i \in DOMAIN chan' : chan'[i].t = "gate" =>
           \/ chan'[i].gate = run'.gates /\ chan'[i].kind = run'.kind
           \/ chan'[i].gate <= run.gates /\ chan'[i].gate \in Nat
    <3> SUFFICES ASSUME NEW i \in DOMAIN chan', chan'[i].t = "gate"
                 PROVE  \/ chan'[i].gate = run'.gates /\ chan'[i].kind = run'.kind
                        \/ chan'[i].gate <= run.gates /\ chan'[i].gate \in Nat
      OBVIOUS
    <3>1. /\ Len(chan') = Len(chan) + 1 /\ chan'[Len(chan) + 1] = e
          /\ Len(chan) \in Nat /\ DOMAIN chan' = 1 .. Len(chan') /\ DOMAIN chan = 1 .. Len(chan)
          /\ \A j \in 1 .. Len(chan) : chan'[j] = chan[j] /\ chan[j] \in Event
      BY <1>2, <1>3, <1>7, Appended
    <3>2. CASE i = Len(chan) + 1
      BY <1>3, <1>7, <3>1, <3>2
    <3>3. CASE i # Len(chan) + 1
      <4>1. i \in DOMAIN chan /\ chan'[i] = chan[i] /\ chan[i] \in Event
        BY <3>1, <3>3
      <4> QED
        BY <4>1, EventFields DEF AgentInv, GateInv
    <3> QED
      BY <3>2, <3>3
  <2>2. ui.card.gate <= run.gates /\ ui.card.gate \in Nat
    BY DEF AgentInv, GateInv, WorldType, UiRow
  <2>3. \A call \in calls : call.t = "answer" => call.gate <= run.gates /\ call.gate \in Nat
    BY CallFields DEF AgentInv, GateInv, WorldType
  <2>4. run'.gates = run.gates + 1 /\ run'.kind = kind /\ run'.pc = "waiting"
    BY <1>3
  <2> QED
    BY <1>1, <1>2, <1>5, <1>8, <2>1, <2>2, <2>3, <2>4 DEF GateInv, Asked
<1> QED
  BY <1>10, <1>12, <1>14, <1>15, <1>16, <1>17 DEF AgentInv

\* The wait for an answer is over.
LEMMA GateLeaves ==
    ASSUME AgentInv, run.pc = "waiting", run' \in RunRow,
           run'.pc \in {"ending", "batch", "dispatch", "gate"}, run'.gates = run.gates,
           run'.commands = run.commands, Grows(chan, chan', Telling),
           reg' = [reg EXCEPT !.gate = "none"], smart' \in Verdict,
           modes' \subseteq Mode \cup {"absent"}, seen' = seen,
           MailMoves, Counted', VerdictInv', UNCHANGED panel
    PROVE  AgentInv'
<1>1. UNCHANGED <<ui, target, calls, taken, settled, clicked, events>>
  BY PanelKept
<1>2. /\ reg' \in RegRow /\ reg'.gate = "none" /\ reg'.pty = reg.pty /\ reg'.mail = reg.mail
      /\ reg'.cancelled = reg.cancelled /\ reg'.mode = reg.mode
  BY DEF AgentInv, WorldType, RegRow
<1>3. run.gates \in Nat /\ run.gates > 0 /\ run.commands <= MaxWork
  BY RunFields DEF AgentInv, WorldType, GateInv, CountInv
<1>4. WorldType'
  BY <1>1, <1>2 DEF AgentInv, WorldType, Grows
<1>5. MailInv' /\ ToldInv'
  BY LoopMail
<1>6. CountInv'
  BY <1>2, <1>3, LoopCount
<1>7. Grows(chan, chan', Telling \cup {"gate"})
  BY DEF Grows
<1>8. TokenInv' /\ TakenInv' /\ EndInv'
  BY <1>2, <1>3, <1>7, NotAway DEF Away
<1>9. \A i \in DOMAIN chan' : chan'[i].t \in Telling \/ (i \in DOMAIN chan /\ chan'[i] = chan[i])
  BY DEF Grows
<1>10. GateInv'
  BY <1>1, <1>2, <1>3, <1>9 DEF AgentInv, GateInv, Asked, Telling
<1> QED
  BY <1>4, <1>5, <1>6, <1>8, <1>10 DEF AgentInv

\* It is over because the run is.
LEMMA GateEnds ==
    ASSUME AgentInv, run.pc = "waiting", Ends, reg' = [reg EXCEPT !.gate = "none"],
           smart' = "unasked", modes' \subseteq Mode \cup {"absent"}, seen' = seen, UNCHANGED panel
    PROVE  AgentInv'
<1>1. /\ run \in RunRow /\ chan \in Seq(Event) /\ run.steers \in SUBSET Steers
      /\ run.queued = {} /\ run.steers \subseteq seen /\ (~run.trimmed => seen = run.steers)
  BY RunFields DEF AgentInv, WorldType, MailInv
<1>2. EndingRow(run.steers) /\ Grows(chan, chan', Telling) /\ Tells(chan, chan', run'.sent)
  BY <1>1, EndsQuietly DEF Ends
<1>3. reg'.mail = reg.mail /\ events' = events
  BY PanelKept DEF AgentInv, WorldType, RegRow
<1>4. MailMoves
  BY <1>1, <1>2, <1>3 DEF MailMoves, EndingRow, AgentInv, MailInv, Tells
<1>5. Counted'
  BY <1>2, <1>3 DEF AgentInv, CountInv, Counted, EndingRow, AsksAgain, Inner
<1>6. VerdictInv'
  BY <1>2 DEF VerdictInv, Remembered, NothingRunsUnasked, EndingRow
<1> QED
  BY <1>2, <1>4, <1>5, <1>6, GateLeaves DEF EndingRow, Verdict

LEMMA GateClosesKeeps ==
    ASSUME AgentInv, GateCloses, UNCHANGED panel
    PROVE  AgentInv'
<1>1. /\ run.pc = "waiting" /\ Ends /\ reg' = [reg EXCEPT !.gate = "none"]
      /\ smart' = "unasked" /\ modes' = modes /\ seen' = seen
  BY DEF GateCloses, Only
<1>2. modes' \subseteq Mode \cup {"absent"}
  BY <1>1 DEF AgentInv, WorldType
<1> QED
  BY <1>1, <1>2, GateEnds

LEMMA GateAnsweredKeeps ==
    ASSUME AgentInv, GateAnswered, UNCHANGED panel
    PROVE  AgentInv'
<1> DEFINE verdict == AssessmentForMode(run.verdict, reg.mode)
<1>1. /\ run.pc = "waiting" /\ reg' = [reg EXCEPT !.gate = "none"] /\ seen' = seen
      /\ modes' = (IF run'.pc = "dispatch" THEN {reg.mode} ELSE {})
      /\ smart' = (IF reg.gate = "run" THEN smart ELSE "unasked")
  BY DEF GateAnswered, Only
<1>2. \/ reg.gate = "stop" /\ Ends
      \/ reg.gate = "skip" /\ run' = Answered /\ UNCHANGED chan
      \/ /\ reg.gate = "run"
         /\ run' = [run EXCEPT !.verdict = verdict,
                       !.pc = IF StillRuns(verdict) THEN "dispatch" ELSE "gate"]
         /\ UNCHANGED chan
  BY DEF GateAnswered
<1>3. /\ run \in RunRow /\ reg \in RegRow /\ chan \in Seq(Event) /\ run.queued = {}
      /\ run.verdict \in Verdict /\ run.kind \in Kind /\ smart \in Verdict
      /\ events' = events /\ reg.mode \in Mode \cup {"absent"}
  BY <1>1, RunFields, PanelKept DEF AgentInv, WorldType, MailInv, GateInv, RegRow
<1>4. modes' \subseteq Mode \cup {"absent"} /\ smart' \in Verdict
  BY <1>1, <1>3 DEF Verdict
<1>5. CASE reg.gate = "stop" /\ Ends
  BY <1>1, <1>4, <1>5, GateEnds
<1>6. CASE reg.gate = "skip" /\ run' = Answered /\ UNCHANGED chan
  <2> DEFINE row == [pc |-> "batch", iteration |-> run.iteration, budget |-> run.budget,
                     queued |-> run.queued, steers |-> run.steers, sent |-> run.sent, trimmed |-> run.trimmed,
                     commands |-> run.commands, gates |-> run.gates,
                     cmd |-> NoCommand, verdict |-> "unasked", kind |-> "none"]
  <2>1. run' = row
    BY <1>3, <1>6 DEF Answered, RunRow
  <2>2. row \in RunRow
    BY <1>3, RunFields DEF RunRow, Inner, Verdict
  <2>3. Grows(chan, chan', Telling)
    BY <1>3, <1>6, GrowsNot
  <2>4. reg'.mail = reg.mail
    BY <1>1, <1>3 DEF RegRow
  <2>5. MailMoves
    BY <1>1, <1>3, <1>6, <2>1, <2>4 DEF MailMoves, AgentInv, MailInv
  <2>6. Counted'
    BY <1>1, <1>3, <2>1 DEF AgentInv, CountInv, Counted, AsksAgain, Inner
  <2>7. VerdictInv'
    BY <2>1 DEF VerdictInv, Remembered, NothingRunsUnasked
  <2> QED
    BY <1>1, <1>4, <2>1, <2>2, <2>3, <2>5, <2>6, <2>7, GateLeaves
<1>7. CASE /\ reg.gate = "run"
           /\ run' = [run EXCEPT !.verdict = verdict,
                         !.pc = IF StillRuns(verdict) THEN "dispatch" ELSE "gate"]
           /\ UNCHANGED chan
  <2> DEFINE pc == IF StillRuns(verdict) THEN "dispatch" ELSE "gate"
             row == [pc |-> pc, iteration |-> run.iteration, budget |-> run.budget,
                     queued |-> run.queued, steers |-> run.steers, sent |-> run.sent, trimmed |-> run.trimmed,
                     commands |-> run.commands, gates |-> run.gates,
                     cmd |-> run.cmd, verdict |-> verdict, kind |-> run.kind]
  <2>1. run' = row
    BY <1>3, <1>7 DEF RunRow
  <2>2. pc \in {"dispatch", "gate"} /\ (pc = "dispatch") = StillRuns(verdict)
    BY DEF StillRuns
  <2>3. /\ verdict \in Verdict
        /\ verdict = run.verdict \/ (verdict = "unasked" /\ run.verdict = "read")
    BY <1>3, Assessed
  <2>4. run.verdict = smart \/ (run.verdict = "unasked" /\ smart = "read")
    BY <1>1 DEF AgentInv, VerdictInv, Remembered
  <2>5. pc = "gate" => AsksAgain
    BY <1>1, <1>3, <2>2 DEF StillRuns, AsksAgain, Kind
  <2>6. pc = "dispatch" => \/ run.gates \in clicked
                           \/ PolicyAutoRuns(reg.mode, run.cmd, AssessmentForMode(smart, reg.mode))
    <3> SUFFICES ASSUME pc = "dispatch", run.kind # "permission"
                 PROVE  PolicyAutoRuns(reg.mode, run.cmd, AssessmentForMode(smart, reg.mode))
      BY <1>1, <1>7 DEF AgentInv, GateInv, Asked
    <3>1. PolicyAutoRuns(reg.mode, run.cmd, verdict)
      BY <2>2 DEF StillRuns
    <3> QED
      BY <1>3, <2>4, <3>1, Lenient
  <2> HIDE DEF pc, verdict
  <2>7. row \in RunRow
    BY <1>3, <2>2, <2>3, RunFields DEF RunRow, Inner
  <2>8. Grows(chan, chan', Telling)
    BY <1>3, <1>7, GrowsNot
  <2>9. reg'.mail = reg.mail
    BY <1>1, <1>3 DEF RegRow
  <2>10. MailMoves
    BY <1>1, <1>3, <1>7, <2>1, <2>2, <2>9 DEF MailMoves, AgentInv, MailInv
  <2>11. Counted'
    BY <1>1, <1>3, <2>1, <2>2, <2>5 DEF AgentInv, CountInv, Counted, AsksAgain, Inner
  <2>12. VerdictInv'
    <3>1. clicked' = clicked /\ smart' = smart
      BY <1>1, <1>7, PanelKept
    <3>2. Remembered'
      BY <2>1, <2>3, <2>4, <3>1 DEF Remembered
    <3>3. pc = "dispatch" => modes' = {reg.mode}
      BY <1>1, <2>1
    <3>4. NothingRunsUnasked'
      BY <2>1, <2>6, <3>1, <3>3 DEF NothingRunsUnasked
    <3> QED
      BY <3>2, <3>4 DEF VerdictInv
  <2> QED
    BY <1>1, <1>4, <2>1, <2>2, <2>7, <2>8, <2>10, <2>11, <2>12, GateLeaves
<1> QED
  BY <1>2, <1>5, <1>6, <1>7

\* The command leaves the backend.
LEMMA DispatchKeeps ==
    ASSUME AgentInv, Dispatch, UNCHANGED panel
    PROVE  AgentInv'
<1> DEFINE e == [t |-> "run", gate |-> run.gates]
<1>1. UNCHANGED <<ui, target, calls, taken, settled, clicked, events>>
  BY PanelKept
<1>2. /\ run \in RunRow /\ reg \in RegRow /\ chan \in Seq(Event) /\ run.queued = {}
      /\ run.gates \in Nat /\ run.gates > 0 /\ run.pc = "dispatch"
  BY RunFields DEF AgentInv, WorldType, MailInv, GateInv, Dispatch, Only
<1>3. /\ run' = [run EXCEPT !.pc = "executing"] /\ reg' = [reg EXCEPT !.pty = "waiting"]
      /\ chan' = Append(chan, e) /\ modes' = {} /\ smart' = "unasked" /\ seen' = seen
  BY DEF Dispatch, To, Tell
<1>4. /\ run' \in RunRow /\ run'.pc = "executing" /\ run'.gates = run.gates
      /\ run'.queued = {} /\ run'.steers = run.steers /\ run'.sent = run.sent /\ run'.trimmed = run.trimmed
      /\ run'.commands = run.commands /\ run'.budget = run.budget
      /\ run'.iteration = run.iteration
  BY <1>2, <1>3 DEF RunRow, Inner
<1>5. /\ reg' \in RegRow /\ reg'.gate = reg.gate /\ reg'.pty = "waiting" /\ reg'.mail = reg.mail
      /\ reg'.cancelled = reg.cancelled /\ reg'.mode = reg.mode
  BY <1>2, <1>3 DEF RegRow
<1>6. e \in Event /\ e.t = "run" /\ e.gate = run.gates
  BY <1>2, Events
<1> HIDE DEF e
<1>7. /\ chan' \in Seq(Event) /\ Len(chan') = Len(chan) + 1 /\ chan'[Len(chan) + 1] = e
      /\ Len(chan) \in Nat /\ DOMAIN chan' = 1 .. Len(chan') /\ DOMAIN chan = 1 .. Len(chan)
      /\ \A j \in 1 .. Len(chan) : chan'[j] = chan[j]
  BY <1>2, <1>3, <1>6, Appended
<1>8. WorldType'
  BY <1>1, <1>3, <1>4, <1>5, <1>7 DEF AgentInv, WorldType, Verdict
<1>9. MailMoves
  <2>1. \A known, saved : Talk(chan, seen, known, saved, run.sent)
                            => Talk(chan', seen, known, saved, run.sent)
    BY <1>2, <1>3, <1>6, TalkTells
  <2>2. \A known, saved : Talk(chan, seen, known, saved, run.sent)
                            => Talk(chan', seen', known, saved, run'.sent)
    BY <1>3, <1>4, <2>1
  <2>3. run'.steers \ run'.queued \subseteq seen' /\ (~run'.trimmed => seen' = run'.steers \ run'.queued)
    BY <1>3, <1>4, <1>2 DEF AgentInv, MailInv
  <2> QED
    BY <1>3, <1>4, <1>5, <2>2, <2>3 DEF MailMoves, AgentInv, MailInv
<1>10. MailInv' /\ ToldInv'
  BY <1>2, <1>9, LoopMail
<1>11. CountInv'
  <2>1. Counted'
    BY <1>1, <1>2, <1>4 DEF AgentInv, CountInv, Counted, AsksAgain, Inner
  <2>2. run'.commands <= MaxWork
    BY <1>4 DEF AgentInv, CountInv
  <2> QED
    BY <1>5, <2>1, <2>2, LoopCount
<1>12. VerdictInv'
  BY <1>4 DEF VerdictInv, Remembered, NothingRunsUnasked
<1>13. \A i \in DOMAIN chan' : i = Len(chan) + 1 \/ (i \in DOMAIN chan /\ chan'[i] = chan[i])
  BY <1>7
<1>14. GateInv'
  BY <1>1, <1>2, <1>4, <1>5, <1>6, <1>7, <1>13 DEF AgentInv, GateInv, Asked
<1>15. /\ \A i \in DOMAIN chan : ~Told(i)
       /\ ui.job = "none" /\ (\A call \in calls : ~Result(call)) /\ run.gates \notin taken
  BY <1>2 DEF AgentInv, TokenInv, TakenInv, Away
<1>16. \A i \in DOMAIN chan' : Told(i)' => i = Len(chan) + 1
  BY <1>13, <1>15 DEF Told
<1>17. TokenInv'
  <2>1. ~Reported'
    BY <1>5 DEF Reported, Outcome
  <2>2. \A i \in DOMAIN chan' : Told(i)' =>
          /\ chan'[i].gate = run'.gates /\ run'.gates > 0 /\ run'.pc \in Away
          /\ \A j \in DOMAIN chan' : Told(j)' => j = i
    BY <1>2, <1>4, <1>6, <1>7, <1>16 DEF Away
  <2>3. \A call \in calls' : ~(Result(call)')
    BY <1>1, <1>15 DEF Result
  <2>4. ui'.job = "none" /\ run'.gates \notin taken' /\ ui'.jobGate = 0
    BY <1>1, <1>4, <1>15 DEF AgentInv, TokenInv
  <2> QED
    BY <1>4, <1>5, <2>1, <2>2, <2>3, <2>4 DEF TokenInv
<1>18. TakenInv'
  <2>1. Following => taken \ settled = {}
    BY <1>2 DEF AgentInv, TakenInv, Away
  <2> QED
    BY <1>1, <1>4, <2>1 DEF AgentInv, TakenInv, Following
<1>19. EndInv'
  <2>1. \A i \in DOMAIN chan' : chan'[i].t # "end"
    BY <1>2, <1>6, <1>7, <1>13 DEF AgentInv, EndInv
  <2>2. ui.state # "ended" /\ (ui.state # "following" => ui.job = "none")
    BY <1>2 DEF AgentInv, EndInv, NothingIsLeftBehind, Following
  <2>3. [t |-> "cancel"] \in calls' \/ reg'.cancelled => ui'.state # "following"
    BY <1>1, <1>5 DEF AgentInv, EndInv, Following
  <2> QED
    BY <1>1, <1>4, <2>1, <2>2, <2>3 DEF EndInv, NothingIsLeftBehind, Following
<1> QED
  BY <1>8, <1>10, <1>11, <1>12, <1>14, <1>17, <1>18, <1>19 DEF AgentInv

-----------------------------------------------------------------------------
(* The command comes back, or is given up.                                 *)

LEMMA ExecutingEnds ==
    ASSUME AgentInv, run.pc = "executing", run' \in RunRow, run'.pc \in {"ending", "batch"},
           run'.gates = run.gates, run'.commands = run.commands,
           reg' = [reg EXCEPT !.pty = "none"], UNCHANGED <<seen, modes, smart>>,
           Grows(chan, chan', Telling \cup {"fence"}),
           run'.pc = "batch" => chan' = chan /\ reg.pty \in {"completed", "notStarted"},
           Following /\ run'.pc = "ending" /\ (ui.job # "none" \/ \E i \in DOMAIN chan : Told(i))
               => \E i \in DOMAIN chan' : chan'[i].t = "fence",
           MailMoves, Counted', UNCHANGED panel
    PROVE  AgentInv'
<1>1. UNCHANGED <<ui, target, calls, taken, settled, clicked, events>>
  BY PanelKept
<1>2. /\ reg' \in RegRow /\ reg'.gate = reg.gate /\ reg'.pty = "none" /\ reg'.mail = reg.mail
      /\ reg'.cancelled = reg.cancelled /\ reg'.mode = reg.mode
  BY DEF AgentInv, WorldType, RegRow
<1>3. WorldType'
  BY <1>1, <1>2 DEF AgentInv, WorldType, Grows
<1>4. MailInv' /\ ToldInv'
  BY LoopMail
<1>5. run'.commands <= MaxWork
  BY DEF AgentInv, CountInv
<1>6. CountInv'
  BY <1>2, <1>5, LoopCount
<1>7. VerdictInv'
  BY DEF VerdictInv, Remembered, NothingRunsUnasked
<1>8. \A i \in DOMAIN chan' : chan'[i].t \in Telling \cup {"fence"}
                              \/ (i \in DOMAIN chan /\ chan'[i] = chan[i])
  BY DEF Grows
<1>9. GateInv'
  BY <1>1, <1>2, <1>8 DEF AgentInv, GateInv, Asked, Telling
<1>10. \A i \in DOMAIN chan' : Told(i)' => Told(i) /\ chan'[i] = chan[i]
  BY <1>8 DEF Told, Telling
<1>11. run'.pc = "batch" => /\ \A i \in DOMAIN chan : ~Told(i)
                            /\ ui.job = "none" /\ \A call \in calls : ~Result(call)
  BY DEF AgentInv, TokenInv, Reported, Outcome
<1>12. \A i \in DOMAIN chan' : i \in DOMAIN chan \/ ~(Told(i)')
  BY <1>10 DEF Told
<1>13. TokenInv'
  <2>1. ~Reported'
    BY <1>2 DEF Reported, Outcome
  <2>2. run'.pc = "ending" => run'.pc \in Away
    BY DEF Away
  <2>3. ASSUME NEW i \in DOMAIN chan', Told(i)'
        PROVE  /\ chan'[i].gate = run'.gates /\ run'.gates > 0 /\ run'.pc \in Away
               /\ ui'.job = "none" /\ run'.gates \notin taken'
               /\ \A call \in calls' : ~(Result(call)')
               /\ \A j \in DOMAIN chan' : Told(j)' => j = i
    <3>1. Told(i) /\ i \in DOMAIN chan /\ chan'[i] = chan[i]
      BY <1>10, <2>3 DEF Told
    <3>2. run'.pc = "ending"
      BY <1>11, <3>1
    <3>3. \A j \in DOMAIN chan' : Told(j)' => j = i
      BY <1>10, <1>12, <3>1 DEF AgentInv, TokenInv
    <3> QED
      BY <1>1, <2>2, <3>1, <3>2, <3>3 DEF AgentInv, TokenInv, Result
  <2>4. ui'.job # "none" =>
          /\ ui'.state = "following" /\ ui'.jobGate = run'.gates /\ run'.gates > 0
          /\ run'.pc \in Away /\ (run'.gates \in taken') = (ui'.job = "typed")
          /\ \A call \in calls' : ~(Result(call)')
    BY <1>1, <1>11, <2>2 DEF AgentInv, TokenInv, Result, Following
  <2>5. \A call \in calls' : Result(call)' =>
          /\ call.gate = run'.gates /\ run'.pc \in Away
          /\ call.outcome = "completed" => run'.gates \in settled'
          /\ call.outcome = "notStarted" => run'.gates \notin taken'
          /\ \A other \in calls' : Result(other)' => other = call
    BY <1>1, <1>11, <2>2 DEF AgentInv, TokenInv, Result
  <2> QED
    BY <1>1, <1>2, <2>1, <2>3, <2>4, <2>5 DEF AgentInv, TokenInv, Following
<1>14. TakenInv'
  <2>1. run'.pc = "batch" => run.gates \notin taken \ settled
    BY DEF AgentInv, TokenInv
  <2> QED
    BY <1>1, <2>1 DEF AgentInv, TakenInv, Following, Away
<1>15. EndInv'
  <2>1. \A i \in DOMAIN chan' : chan'[i].t # "end"
    BY <1>8 DEF AgentInv, EndInv, Telling
  <2>2. Following /\ run'.pc = "ending" /\ (ui.job # "none" \/ \E i \in DOMAIN chan' : Told(i)')
            => \E i \in DOMAIN chan' : chan'[i].t = "fence"
    BY <1>10, <1>12
  <2> QED
    BY <1>1, <1>2, <2>1, <2>2 DEF AgentInv, EndInv, NothingIsLeftBehind, Following
<1> QED
  BY <1>3, <1>4, <1>6, <1>7, <1>9, <1>13, <1>14, <1>15 DEF AgentInv

\* The run gives the command up, and tells the panel or was stopped by it.
LEMMA ExecutingFails ==
    ASSUME AgentInv, run.pc = "executing",
           (Ends /\ reg.cancelled) \/ EndsWith(run.steers, Fence),
           reg' = [reg EXCEPT !.pty = "none"], UNCHANGED <<seen, modes, smart>>, UNCHANGED panel
    PROVE  AgentInv'
<1>1. /\ run \in RunRow /\ chan \in Seq(Event) /\ run.steers \in SUBSET Steers
      /\ run.queued = {} /\ run.steers \subseteq seen /\ (~run.trimmed => seen = run.steers)
  BY RunFields DEF AgentInv, WorldType, MailInv
<1>2. reg'.mail = reg.mail /\ events' = events
  BY PanelKept DEF AgentInv, WorldType, RegRow
<1>3. /\ EndingRow(run.steers) /\ Grows(chan, chan', Telling \cup {"fence"})
      /\ (\E i \in DOMAIN chan' : chan'[i].t = "fence") \/ ~Following
      /\ Tells(chan, chan', run'.sent)
  <2>1. CASE Ends /\ reg.cancelled
    <3>1. EndingRow(run.steers) /\ Grows(chan, chan', Telling) /\ Tells(chan, chan', run'.sent)
      BY <1>1, <2>1, EndsQuietly DEF Ends
    <3>2. Grows(chan, chan', Telling \cup {"fence"})
      BY <3>1 DEF Grows
    <3>3. ~Following
      BY <2>1 DEF AgentInv, EndInv
    <3> QED
      BY <3>1, <3>2, <3>3
  <2>2. CASE EndsWith(run.steers, Fence)
    BY <1>1, <2>2, EndsFenced
  <2> QED
    BY <2>1, <2>2
<1>4. MailMoves
  BY <1>1, <1>2, <1>3 DEF MailMoves, EndingRow, AgentInv, MailInv, Tells
<1>5. Counted'
  BY <1>2, <1>3 DEF AgentInv, CountInv, Counted, EndingRow, AsksAgain, Inner
<1> QED
  BY <1>3, <1>4, <1>5, ExecutingEnds DEF EndingRow

LEMMA TerminalReportsKeeps ==
    ASSUME AgentInv, TerminalReports, UNCHANGED panel
    PROVE  AgentInv'
<1>1. /\ run.pc = "executing" /\ reg.pty \in Outcome /\ reg' = [reg EXCEPT !.pty = "none"]
      /\ UNCHANGED <<seen, modes, smart>>
      /\ Fences(reg.pty) => EndsWith(run.steers, Fence)
      /\ ~Fences(reg.pty) => run' = Answered /\ UNCHANGED chan
  BY DEF TerminalReports, Only, RunUnchanged
<1>2. CASE Fences(reg.pty)
  BY <1>1, <1>2, ExecutingFails
<1>3. CASE ~Fences(reg.pty)
  <2> DEFINE row == [pc |-> "batch", iteration |-> run.iteration, budget |-> run.budget,
                     queued |-> run.queued, steers |-> run.steers, sent |-> run.sent, trimmed |-> run.trimmed,
                     commands |-> run.commands, gates |-> run.gates,
                     cmd |-> NoCommand, verdict |-> "unasked", kind |-> "none"]
  <2>1. /\ run \in RunRow /\ chan \in Seq(Event) /\ run.queued = {}
        /\ reg'.mail = reg.mail /\ events' = events
    BY <1>1, PanelKept DEF AgentInv, WorldType, MailInv, RegRow
  <2>2. run' = row /\ chan' = chan
    BY <1>1, <1>3, <2>1 DEF Answered, RunRow
  <2>3. row \in RunRow
    BY <2>1, RunFields DEF RunRow, Inner, Verdict
  <2>4. Grows(chan, chan', Telling \cup {"fence"})
    BY <2>1, <2>2, GrowsNot
  <2>5. MailMoves
    BY <1>1, <2>1, <2>2 DEF MailMoves, AgentInv, MailInv
  <2>6. Counted'
    BY <1>1, <2>1, <2>2 DEF AgentInv, CountInv, Counted, AsksAgain, Inner
  <2>7. reg.pty \in {"completed", "notStarted"}
    BY <1>1, <1>3 DEF Fences, Outcome
  <2> HIDE DEF row
  <2>8. run'.pc = "batch" /\ run'.gates = run.gates /\ run'.commands = run.commands
    BY <2>2 DEF row
  <2> QED
    BY <1>1, <2>2, <2>3, <2>4, <2>5, <2>6, <2>7, <2>8, ExecutingEnds
<1> QED
  BY <1>2, <1>3

LEMMA TerminalLostKeeps ==
    ASSUME AgentInv, NEW stopped \in BOOLEAN, TerminalLost(stopped), UNCHANGED panel
    PROVE  AgentInv'
<1>1. /\ run.pc = "executing" /\ reg' = [reg EXCEPT !.pty = "none"]
      /\ UNCHANGED <<seen, modes, smart>>
      /\ (Ends /\ reg.cancelled) \/ EndsWith(run.steers, Fence)
  BY DEF TerminalLost, Only, RunUnchanged
<1> QED
  BY <1>1, ExecutingFails

LEMMA FinishKeeps ==
    ASSUME AgentInv, Finish, UNCHANGED panel
    PROVE  AgentInv'
<1> DEFINE e == [t |-> "end"]
<1>1. UNCHANGED <<ui, target, calls, taken, settled, clicked, events>>
  BY PanelKept
<1>2. /\ run \in RunRow /\ reg \in RegRow /\ chan \in Seq(Event) /\ run.queued = {}
      /\ run.pc = "ending" /\ (~run.trimmed => run.sent = run.steers)
  BY DEF AgentInv, WorldType, MailInv, Finish, Only
<1>3. /\ run' = [run EXCEPT !.pc = "ended"] /\ chan' = Append(chan, e)
      /\ reg' = [reg EXCEPT !.mode = "absent", !.gate = "none", !.pty = "none",
                    !.mail = {}, !.open = FALSE]
      /\ UNCHANGED <<seen, modes, smart>>
  BY DEF Finish, To, Tell, RunUnchanged
<1>4. /\ run' \in RunRow /\ run'.pc = "ended" /\ run'.gates = run.gates
      /\ run'.queued = {} /\ run'.steers = run.steers /\ run'.sent = run.sent /\ run'.trimmed = run.trimmed
      /\ run'.commands = run.commands /\ run'.budget = run.budget
      /\ run'.iteration = run.iteration
  BY <1>2, <1>3 DEF RunRow
<1>5. /\ reg' = [mode |-> "absent", mail |-> {}, open |-> FALSE, gate |-> "none",
                 pty |-> "none", cancelled |-> reg.cancelled]
      /\ reg.cancelled \in BOOLEAN
  BY <1>2, <1>3 DEF RegRow
<1>6. reg' \in RegRow
  BY <1>5 DEF RegRow
<1>7. e \in Event /\ e.t = "end"
  BY Events
<1> HIDE DEF e
<1>8. /\ chan' \in Seq(Event) /\ Len(chan') = Len(chan) + 1 /\ chan'[Len(chan) + 1] = e
      /\ Len(chan) \in Nat /\ DOMAIN chan' = 1 .. Len(chan') /\ DOMAIN chan = 1 .. Len(chan)
      /\ \A j \in 1 .. Len(chan) : chan'[j] = chan[j]
  BY <1>2, <1>3, <1>7, Appended
<1>9. \A i \in DOMAIN chan' : (i = Len(chan') /\ chan'[i] = e) \/ (i \in DOMAIN chan /\ chan'[i] = chan[i])
  BY <1>8
<1>10. \A i \in DOMAIN chan : i \in DOMAIN chan' /\ chan'[i] = chan[i]
  BY <1>8
<1>11. WorldType'
  BY <1>1, <1>3, <1>4, <1>6, <1>8 DEF AgentInv, WorldType
<1>12. MailMoves
  <2>1. \A known, saved : Talk(chan, seen, known, saved, run.sent)
                            => Talk(chan', seen', known, saved, run'.sent)
    <3>1. \A known, saved : Talk(chan, seen, known, saved, run.sent)
                              => Talk(chan', seen, known, saved, run.sent)
      BY <1>2, <1>3, <1>7, TalkTells
    <3> QED
      BY <1>3, <1>4, <3>1
  <2>2. run'.steers \ run'.queued \subseteq seen' /\ (~run'.trimmed => seen' = run'.steers \ run'.queued)
    BY <1>2, <1>3, <1>4 DEF AgentInv, MailInv
  <2> QED
    BY <1>2, <1>3, <1>4, <1>5, <2>1, <2>2 DEF MailMoves, AgentInv, MailInv
<1>13. MailInv' /\ ToldInv'
  BY <1>2, <1>12, LoopMail
<1>14. CountInv'
  <2>1. Counted'
    BY <1>1, <1>2, <1>4 DEF AgentInv, CountInv, Counted, AsksAgain, Inner
  <2>2. run'.commands <= MaxWork
    BY <1>4 DEF AgentInv, CountInv
  <2> QED
    BY <1>5, <2>1, <2>2, LoopCount
<1>15. VerdictInv'
  BY <1>4 DEF VerdictInv, Remembered, NothingRunsUnasked
<1>16. GateInv'
  BY <1>1, <1>4, <1>5, <1>7, <1>9 DEF AgentInv, GateInv, Asked
<1>17. \A i \in DOMAIN chan' : Told(i)' => Told(i) /\ chan'[i] = chan[i]
  BY <1>7, <1>9 DEF Told
<1>18. TokenInv'
  <2>1. ~Reported'
    BY <1>5 DEF Reported, Outcome
  <2>2. \A i \in DOMAIN chan' : Told(i)' => i \in DOMAIN chan
    BY <1>17 DEF Told
  <2>3. \A call : Result(call)' = Result(call)
    BY <1>1 DEF Result
  <2> QED
    BY <1>1, <1>4, <1>5, <1>17, <2>1, <2>2, <2>3 DEF AgentInv, TokenInv, Away, Following
<1>19. TakenInv'
  BY <1>1, <1>2, <1>4 DEF AgentInv, TakenInv, Following, Away
<1>20. EndInv'
  <2>1. \A i \in DOMAIN chan' : chan'[i].t = "end" => i = Len(chan')
    BY <1>2, <1>9 DEF AgentInv, EndInv
  <2>2. Following /\ (ui.job # "none" \/ \E i \in DOMAIN chan' : Told(i)')
            => \E i \in DOMAIN chan' : chan'[i].t = "fence"
    <3> SUFFICES ASSUME Following, ui.job # "none" \/ \E i \in DOMAIN chan' : Told(i)'
                 PROVE  \E i \in DOMAIN chan' : chan'[i].t = "fence"
      OBVIOUS
    <3>1. ui.job # "none" \/ \E i \in DOMAIN chan : Told(i)
      BY <1>17 DEF Told
    <3>2. PICK i \in DOMAIN chan : chan[i].t = "fence"
      BY <1>2, <3>1 DEF AgentInv, EndInv
    <3> QED
      BY <1>10, <3>2
  <2> QED
    BY <1>1, <1>2, <1>4, <1>5, <2>1, <2>2 DEF AgentInv, EndInv, NothingIsLeftBehind, Following
<1> QED
  BY <1>11, <1>13, <1>14, <1>15, <1>16, <1>18, <1>19, <1>20 DEF AgentInv

LEMMA Ranks == \A mode \in Mode : Rank(mode) \in Nat
<1> SUFFICES ASSUME NEW mode \in Mode
             PROVE  Rank(mode) \in Nat
  OBVIOUS
<1>1. DOMAIN Modes \subseteq Nat
  BY DEF Modes
<1>2. \E i \in DOMAIN Modes : Modes[i] = mode
  BY DEF Mode
<1> QED
  BY <1>1, <1>2 DEF Rank

LEMMA ClampFacts ==
    ASSUME NEW mode \in Mode
    PROVE  Clamp(mode) \in Mode /\ Rank(Clamp(mode)) <= Rank(Ceiling)
<1>1. Ceiling \in Mode /\ Rank(mode) \in Nat /\ Rank(Ceiling) \in Nat
  BY RunAssumption, Ranks
<1> QED
  BY <1>1 DEF Clamp

LEMMA NotAbsent == "absent" \notin Mode
  BY DEF Mode, Modes

LEMMA StartKeeps ==
    ASSUME AgentInv, NEW mode \in StartModes, Register(mode), UNCHANGED panel
    PROVE  AgentInv'
<1>1. UNCHANGED <<ui, target, calls, taken, settled, clicked, events>>
  BY PanelKept
<1>2. /\ run \in RunRow /\ reg \in RegRow /\ chan \in Seq(Event) /\ run.gates \in Nat
      /\ run.pc = "starting" /\ mode \in Mode
  BY PanelAssumption, RunFields DEF AgentInv, WorldType, Register, Only
<1>3. /\ run' = [run EXCEPT !.pc = "setup"] /\ reg' = [reg EXCEPT !.mode = Clamp(mode), !.open = TRUE]
      /\ UNCHANGED <<chan, seen, modes, smart>>
  BY DEF Register, To, RunUnchanged
<1>4. /\ run' \in RunRow /\ run'.pc = "setup" /\ run'.gates = run.gates
      /\ run'.queued = run.queued /\ run'.steers = run.steers /\ run'.sent = run.sent /\ run'.trimmed = run.trimmed
      /\ run'.commands = run.commands /\ run'.budget = run.budget
      /\ run'.iteration = run.iteration
  BY <1>2, <1>3 DEF RunRow
<1>5. Clamp(mode) \in Mode /\ Rank(Clamp(mode)) <= Rank(Ceiling)
  BY <1>2, ClampFacts
<1>6. /\ reg' \in RegRow /\ reg'.gate = reg.gate /\ reg'.pty = reg.pty /\ reg'.mail = reg.mail
      /\ reg'.cancelled = reg.cancelled /\ reg'.mode = Clamp(mode)
  BY <1>2, <1>3, <1>5 DEF RegRow
<1>7. WorldType'
  BY <1>1, <1>3, <1>4, <1>6 DEF AgentInv, WorldType
<1>8. MailMoves
  BY <1>2, <1>3, <1>4, <1>6 DEF MailMoves, AgentInv, MailInv
<1>9. MailInv' /\ ToldInv'
  BY <1>2, <1>8, LoopMail
<1>10. CountInv'
  BY <1>1, <1>2, <1>4, <1>5, <1>6 DEF AgentInv, CountInv, Counted, AsksAgain, Inner
<1>11. VerdictInv'
  BY <1>4 DEF VerdictInv, Remembered, NothingRunsUnasked
<1>12. GateInv'
  BY <1>1, <1>2, <1>3, <1>4, <1>6 DEF AgentInv, GateInv, Asked
<1>13. Grows(chan, chan', Telling \cup {"gate"})
  BY <1>2, <1>3, GrowsNot
<1>14. TokenInv' /\ TakenInv' /\ EndInv'
  BY <1>2, <1>4, <1>6, <1>13, NotAway DEF Away
<1> QED
  BY <1>7, <1>9, <1>10, <1>11, <1>12, <1>14 DEF AgentInv

LEMMA LoopKeeps == ASSUME AgentInv, Loop PROVE AgentInv'
<1>1. UNCHANGED panel /\ run'.commands + Cardinality(Written) <= MaxWork
  BY DEF Loop
<1>2. run'.commands <= MaxWork \/ run'.commands \notin Nat
  <2>1. IsFiniteSet(Written)
    BY RunAssumption, FS_Subset DEF Written
  <2>2. Cardinality(Written) \in Nat
    BY <2>1, FS_CardinalityType
  <2> QED
    BY <1>1, <2>2, Numbers
<1>3. CASE EarlyStep
  <2>1. Early_ /\ MailMoves /\ (Counted /\ Remembered)'
    BY <1>1, <1>3, EarlyMoves DEF AgentInv
  <2>2. run'.commands \in Nat
    BY <2>1 DEF Early_, RunRow
  <2> QED
    BY <1>1, <1>2, <2>1, <2>2, EarlyKeeps
<1>4. CASE OpenGate /\ ~reg.cancelled
  <2>1. run'.commands = run.commands
    BY <1>4 DEF OpenGate, AgentInv, WorldType, RunRow
  <2>2. run'.commands <= MaxWork
    BY <2>1 DEF AgentInv, CountInv
  <2> QED
    BY <1>1, <1>4, <2>2, GateOpens
<1>5. \/ EarlyStep \/ (OpenGate /\ ~reg.cancelled) \/ Finish \/ GateCloses \/ GateAnswered
      \/ Dispatch \/ TerminalReports \/ \E stopped \in BOOLEAN : TerminalLost(stopped)
  BY DEF Loop, LoopStep, EarlyStep
<1> QED
  BY <1>1, <1>3, <1>4, <1>5, FinishKeeps, GateClosesKeeps, GateAnsweredKeeps,
     DispatchKeeps, TerminalReportsKeeps, TerminalLostKeeps

-----------------------------------------------------------------------------
(* The panel keeps the invariant.                                          *)

\* It has read the first event, or none.
Shifts(d) ==
    /\ d \in {0, 1} /\ chan' \in Seq(Event) /\ Len(chan') \in Nat /\ Len(chan) = Len(chan') + d
    /\ DOMAIN chan = 1 .. Len(chan) /\ DOMAIN chan' = 1 .. Len(chan')
    /\ \A i \in DOMAIN chan' : i + d \in DOMAIN chan /\ chan'[i] = chan[i + d]

LEMMA ReadShifts ==
    ASSUME chan \in Seq(Event), chan # <<>>, chan' = Tail(chan)
    PROVE  Shifts(1)
<1>1. /\ chan' \in Seq(Event) /\ Len(chan) \in Nat /\ Len(chan') \in Nat
      /\ Len(chan) = Len(chan') + 1
      /\ \A i \in 1 .. Len(chan') : chan'[i] = chan[i + 1]
      /\ DOMAIN chan = 1 .. Len(chan) /\ DOMAIN chan' = 1 .. Len(chan')
  BY Tailed
<1> QED
  BY <1>1 DEF Shifts

LEMMA StayShifts ==
    ASSUME chan \in Seq(Event), chan' = chan
    PROVE  Shifts(0)
  BY DEF Shifts

\* What an event in the channel had to satisfy it still does.
LEMMA ToldShifts ==
    ASSUME NEW d, Shifts(d)
    PROVE  \A i \in DOMAIN chan' : Told(i)' => Told(i + d) /\ chan'[i] = chan[i + d]
  BY DEF Shifts, Told

LEMMA CountStays ==
    ASSUME AgentInv, UNCHANGED run, reg'.mode = reg.mode, Cardinality(reg'.mail) <= MaxMail,
           events' \in Nat, events' >= events, events' <= MaxEvents
    PROVE  CountInv'
<1>1. /\ run.gates \in Nat /\ run.commands \in Nat /\ events \in Nat
  BY RunFields DEF AgentInv, WorldType
<1>2. AsksAgain' = AsksAgain
  BY DEF AsksAgain
<1>3. run.gates <= run.commands + events' /\
      (run.gates < run.commands + events => run.gates < run.commands + events')
  BY <1>1 DEF AgentInv, CountInv, Counted
<1> QED
  BY <1>2, <1>3 DEF AgentInv, CountInv, Counted

LEMMA UiFields ==
    ASSUME ui \in UiRow
    PROVE  /\ ui = [state |-> ui.state, card |-> ui.card, job |-> ui.job, jobGate |-> ui.jobGate,
                    saved |-> ui.saved, steers |-> ui.steers]
           /\ ui.card.gate \in Nat /\ ui.card.kind \in Kind \cup {"none"}
           /\ ui.job \in {"none", "preflight", "typed"} /\ ui.jobGate \in Nat
           /\ ui.saved \in SUBSET Steers
           /\ ui.steers \in [Steers -> {"none", "queued", "delivered", "undelivered"}]
           /\ ui.state \in {"following", "retired", "ended"}
  BY DEF UiRow

LEMMA UndeliveredFacts ==
    ASSUME NEW old \in [Steers -> {"none", "queued", "delivered", "undelivered"}],
           NEW new, new = Undelivered(old)
    PROVE  /\ new \in [Steers -> {"none", "queued", "delivered", "undelivered"}]
           /\ \A s \in Steers : (new[s] = "delivered") = (old[s] = "delivered")
           /\ \A s \in Steers : (new[s] = "none") = (old[s] = "none")
  BY DEF Undelivered

LEMMA RetiredRow ==
    ASSUME ui \in UiRow
    PROVE  /\ Retired \in UiRow /\ Retired.state = "retired" /\ Retired.card = NoCard
           /\ Retired.job = "none" /\ Retired.jobGate = 0 /\ Retired.saved = ui.saved
           /\ \A s \in Steers : (Retired.steers[s] = "delivered") = (ui.steers[s] = "delivered")
           /\ \A s \in Steers : (Retired.steers[s] = "none") = (ui.steers[s] = "none")
<1> DEFINE mid == [ui EXCEPT !.state = "retired", !.card = NoCard, !.job = "none", !.jobGate = 0]
           new == Undelivered(ui.steers)
<1>1. /\ new \in [Steers -> {"none", "queued", "delivered", "undelivered"}]
      /\ \A s \in Steers : (new[s] = "delivered") = (ui.steers[s] = "delivered")
      /\ \A s \in Steers : (new[s] = "none") = (ui.steers[s] = "none")
  BY UiFields, UndeliveredFacts
<1> HIDE DEF new
<1>2. NoCard \in [gate : Nat, kind : Kind \cup {"none"}]
  BY DEF NoCard
<1>3. mid \in UiRow
  BY <1>2 DEF UiRow
<1>4. /\ mid.state = "retired" /\ mid.card = NoCard /\ mid.job = "none" /\ mid.jobGate = 0
      /\ mid.saved = ui.saved /\ mid.steers = ui.steers
  BY DEF UiRow
<1>5. Retired = [mid EXCEPT !.steers = Undelivered(mid.steers)]
  BY DEF Retired
<1> HIDE DEF mid
<1>6. Retired = [mid EXCEPT !.steers = new]
  BY <1>4, <1>5 DEF new
<1>7. Retired \in UiRow
  BY <1>1, <1>3, <1>6 DEF UiRow
<1>8. /\ Retired.state = mid.state /\ Retired.card = mid.card /\ Retired.job = mid.job
      /\ Retired.jobGate = mid.jobGate /\ Retired.saved = mid.saved /\ Retired.steers = new
  BY <1>3, <1>6 DEF UiRow
<1> QED
  BY <1>1, <1>4, <1>7, <1>8

\* The panel lets go of the run.
LEMMA StopsKeeps ==
    ASSUME AgentInv, NEW rest \in SUBSET calls, Stopping(rest), NEW d, Shifts(d),
           UNCHANGED <<run, reg, seen, modes, smart, taken, settled, clicked>>,
           events' \in Nat, events' >= events, events' <= MaxEvents, target' \in BOOLEAN
    PROVE  AgentInv'
<1>1. /\ run \in RunRow /\ reg \in RegRow /\ ui \in UiRow /\ calls \subseteq Call
      /\ run.gates \in Nat
  BY RunFields DEF AgentInv, WorldType
<1>2. /\ ui' \in UiRow /\ ui'.state = "retired" /\ ui'.card = NoCard
      /\ ui'.job = "none" /\ ui'.jobGate = 0 /\ ui'.saved = ui.saved
      /\ \A s \in Steers : (ui'.steers[s] = "delivered") = (ui.steers[s] = "delivered")
      /\ \A s \in Steers : (ui'.steers[s] = "none") = (ui.steers[s] = "none")
  BY <1>1, RetiredRow DEF Stopping
<1>3. calls' = rest \cup {[t |-> "cancel"]}
  BY DEF Stopping
<1>4. \A call \in calls' : call \in calls \/ call.t = "cancel"
  BY <1>3
<1>5. calls' \subseteq Call
  BY <1>1, <1>3, Calls
<1>6. WorldType'
  BY <1>2, <1>5 DEF AgentInv, WorldType, Shifts
<1>7. CountInv'
  BY CountStays DEF AgentInv, CountInv
<1>8. VerdictInv'
  BY DEF AgentInv, VerdictInv, Remembered, NothingRunsUnasked
<1>9. GateInv'
  <2>1. \A i \in DOMAIN chan' : chan'[i].t = "gate" =>
           chan'[i].gate <= run.gates /\ (Asked /\ chan'[i].gate = run.gates => chan'[i].kind = "permission")
    BY DEF AgentInv, GateInv, Shifts
  <2>2. ui'.card.gate = 0 /\ (Asked => run.gates > 0)
    BY <1>2 DEF NoCard, AgentInv, GateInv, Asked
  <2> QED
    BY <1>1, <1>4, <2>1, <2>2 DEF AgentInv, GateInv, Asked
<1>10. TokenInv'
  <2>1. \A call \in calls' : Result(call)' => Result(call)
    BY <1>4 DEF Result
  <2>2. ASSUME NEW i \in DOMAIN chan', Told(i)'
        PROVE  /\ chan'[i].gate = run.gates /\ run.gates > 0 /\ run.pc \in Away /\ ~Reported
               /\ run.gates \notin taken /\ \A call \in calls' : ~(Result(call)')
               /\ \A j \in DOMAIN chan' : Told(j)' => j = i
    <3>1. Told(i + d) /\ i + d \in DOMAIN chan /\ chan'[i] = chan[i + d]
      BY <2>2, ToldShifts DEF Told
    <3>2. \A j \in DOMAIN chan' : Told(j)' => Told(j + d) /\ j + d \in DOMAIN chan
      BY ToldShifts DEF Told
    <3>3. \A j \in DOMAIN chan' : Told(j)' => j + d = i + d
      BY <3>1, <3>2 DEF AgentInv, TokenInv
    <3>4. \A j \in DOMAIN chan' : j \in Nat /\ i \in Nat /\ d \in Nat
      BY DEF Shifts
    <3>5. \A j \in DOMAIN chan' : Told(j)' => j = i
      BY <3>3, <3>4
    <3>6. \A call \in calls' : ~(Result(call)')
      BY <2>1, <3>1 DEF AgentInv, TokenInv, Result
    <3> QED
      BY <3>1, <3>5, <3>6 DEF AgentInv, TokenInv
  <2>3. \A call \in calls' : Result(call)' =>
          /\ call.gate = run.gates /\ run.pc \in Away /\ ~Reported
          /\ call.outcome = "completed" => run.gates \in settled
          /\ call.outcome = "notStarted" => run.gates \notin taken
          /\ \A other \in calls' : Result(other)' => other = call
    BY <2>1 DEF AgentInv, TokenInv, Result
  <2> QED
    BY <1>2, <2>2, <2>3 DEF AgentInv, TokenInv, Reported
<1>11. TakenInv'
  BY <1>2 DEF AgentInv, TakenInv, Following
<1>12. EndInv'
  <2>1. \A i \in DOMAIN chan' : chan'[i].t = "end" => i = Len(chan') /\ run.pc = "ended"
    <3> SUFFICES ASSUME NEW i \in DOMAIN chan', chan'[i].t = "end"
                 PROVE  i = Len(chan') /\ run.pc = "ended"
      OBVIOUS
    <3>1. i + d \in DOMAIN chan /\ chan[i + d].t = "end"
      BY DEF Shifts
    <3>2. i + d = Len(chan) /\ run.pc = "ended"
      BY <3>1 DEF AgentInv, EndInv
    <3> QED
      BY <3>2 DEF Shifts
  <2> QED
    BY <1>2, <2>1 DEF AgentInv, EndInv, NothingIsLeftBehind, Following
<1>13. MailInv'
  <2>1. run.steers \subseteq Steers /\ reg.mail \subseteq Steers /\ seen \subseteq Steers
    BY <1>1 DEF RunRow, RegRow, AgentInv, WorldType
  <2>2. \A call \in calls' : call.t = "steer" => call \in calls /\ call.steer \in Steers
    BY <1>1, <1>4, CallFields
  <2> QED
    BY <1>2, <2>1, <2>2 DEF AgentInv, MailInv
<1>14. ToldInv'
  <2>1. DeliveredNow' = DeliveredNow
    BY <1>2 DEF DeliveredNow
  <2> QED
    BY <1>2, <2>1 DEF AgentInv, ToldInv, Following
<1> QED
  BY <1>6, <1>7, <1>8, <1>9, <1>10, <1>11, <1>12, <1>13, <1>14 DEF AgentInv

-----------------------------------------------------------------------------
(* What a step of the panel that leaves a part of the state alone keeps.   *)

LEMMA TokenStays ==
    ASSUME AgentInv, NEW d, Shifts(d), UNCHANGED <<run, taken, settled>>,
           reg'.pty = reg.pty \/ (reg.pty = "waiting" /\ reg'.pty = "dropped"),
           ui'.job = ui.job, ui'.jobGate = ui.jobGate,
           ui'.state = ui.state \/ (ui.job = "none" /\ ui'.state # "following"),
           \A call : Result(call)' = Result(call)
    PROVE  TokenInv' /\ TakenInv'
<1>1. ASSUME NEW i \in DOMAIN chan', Told(i)'
      PROVE  /\ chan'[i].gate = run.gates /\ run.gates > 0 /\ run.pc \in Away
             /\ ui.job = "none" /\ ~Reported
             /\ run.gates \notin taken /\ \A call \in calls' : ~Result(call)
             /\ \A j \in DOMAIN chan' : Told(j)' => j = i
  <2>1. Told(i + d) /\ i + d \in DOMAIN chan /\ chan'[i] = chan[i + d]
    BY <1>1, ToldShifts DEF Told
  <2>2. \A j \in DOMAIN chan' : Told(j)' => Told(j + d) /\ j + d \in DOMAIN chan
    BY ToldShifts DEF Told
  <2>3. \A j \in DOMAIN chan' : Told(j)' => j + d = i + d
    BY <2>1, <2>2 DEF AgentInv, TokenInv
  <2>4. \A j \in DOMAIN chan' : j \in Nat /\ i \in Nat /\ d \in Nat
    BY DEF Shifts
  <2>5. \A j \in DOMAIN chan' : Told(j)' => j = i
    BY <2>3, <2>4
  <2>6. \A call : ~Result(call)
    BY <2>1 DEF AgentInv, TokenInv, Result
  <2> QED
    BY <2>1, <2>5, <2>6 DEF AgentInv, TokenInv
<1>2. \A call : Result(call) => call \in calls
  BY DEF Result
<1>3. \A call : Result(call)' => call \in calls'
  BY DEF Result
<1>4. ui'.job # "none" =>
          /\ ui'.state = "following" /\ ui'.jobGate = run.gates /\ run.gates > 0
          /\ run.pc \in Away /\ ~Reported
          /\ (run.gates \in taken) = (ui'.job = "typed") /\ \A call \in calls' : ~(Result(call)')
  BY <1>2 DEF AgentInv, TokenInv, Following
<1>5. \A call \in calls' : Result(call)' =>
          /\ call.gate = run.gates /\ run.pc \in Away /\ ~Reported
          /\ call.outcome = "completed" => run.gates \in settled
          /\ call.outcome = "notStarted" => run.gates \notin taken
          /\ \A other \in calls' : Result(other)' => other = call
  BY <1>2 DEF AgentInv, TokenInv
<1>6. Reported' = Reported
  BY DEF Reported, Outcome
<1>7. TokenInv'
  BY <1>1, <1>4, <1>5, <1>6 DEF AgentInv, TokenInv, Following
<1>8. TakenInv'
  BY DEF AgentInv, TakenInv, Following
<1> QED
  BY <1>7, <1>8

LEMMA EndStays ==
    ASSUME AgentInv, NEW d, Shifts(d), UNCHANGED run,
           ui'.job # "none" => ui.job # "none" \/ \E i \in DOMAIN chan : Told(i),
           ui'.state = ui.state \/ ui'.state # "following",
           ui'.state = "ended" => run.pc = "ended",
           ui'.state = "following" => d = 0 \/ chan[1].t # "fence",
           [t |-> "cancel"] \in calls' \/ reg'.cancelled => ui'.state # "following",
           NothingIsLeftBehind'
    PROVE  EndInv'
<1>1. ASSUME NEW i \in DOMAIN chan', chan'[i].t = "end"
      PROVE  i = Len(chan') /\ run.pc = "ended"
  <2>1. i + d \in DOMAIN chan /\ chan[i + d].t = "end"
    BY <1>1 DEF Shifts
  <2>2. i + d = Len(chan) /\ run.pc = "ended"
    BY <2>1 DEF AgentInv, EndInv
  <2> QED
    BY <2>2 DEF Shifts
<1>2. ASSUME ui'.state = "following", run.pc \in {"ending", "ended"},
             ui'.job # "none" \/ \E i \in DOMAIN chan' : Told(i)'
      PROVE  \E i \in DOMAIN chan' : chan'[i].t = "fence"
  <2>1. ui.job # "none" \/ \E i \in DOMAIN chan : Told(i)
    BY <1>2, ToldShifts DEF Told
  <2>2. Following
    BY <1>2 DEF Following
  <2>3. PICK i \in DOMAIN chan : chan[i].t = "fence"
    BY <1>2, <2>1, <2>2 DEF AgentInv, EndInv
  <2>4. i \in Nat /\ i > 0 /\ (d = 0 \/ i # 1) /\ i <= Len(chan)
    BY <1>2, <2>3 DEF Shifts
  <2>5. i - d \in DOMAIN chan' /\ (i - d) + d = i
    BY <2>4 DEF Shifts
  <2>6. chan'[i - d].t = "fence"
    BY <2>3, <2>5 DEF Shifts
  <2> QED
    BY <2>5, <2>6
<1> QED
  BY <1>1, <1>2 DEF EndInv, Following

LEMMA GateStays ==
    ASSUME AgentInv, NEW d, Shifts(d), UNCHANGED <<run, clicked>>, reg'.gate = reg.gate,
           ui'.card \in {ui.card, NoCard},
           \A call \in calls' : call.t = "answer" => call \in calls
    PROVE  GateInv'
<1>1. \A i \in DOMAIN chan' : chan'[i].t = "gate" =>
         chan'[i].gate <= run.gates /\ (Asked /\ chan'[i].gate = run.gates => chan'[i].kind = "permission")
  BY DEF AgentInv, GateInv, Shifts
<1>2. NoCard.gate = 0 /\ (Asked => run.gates > 0) /\ run.gates \in Nat
  BY RunFields DEF NoCard, AgentInv, GateInv, Asked, WorldType
<1>3. ui'.card.gate <= run.gates /\ (Asked /\ ui'.card.gate = run.gates => ui'.card.kind = "permission")
  BY <1>2 DEF AgentInv, GateInv
<1> QED
  BY <1>1, <1>3 DEF AgentInv, GateInv, Asked

LEMMA MailStays ==
    ASSUME AgentInv, UNCHANGED <<run, seen>>, reg'.mail \subseteq reg.mail, calls' \subseteq Call,
           \A s \in Steers : ui.steers[s] # "none" => ui'.steers[s] # "none",
           \A call \in calls' : call.t = "steer" => call \in calls
    PROVE  MailInv'
<1>1. run.steers \subseteq Steers /\ reg.mail \subseteq Steers /\ seen \subseteq Steers
  BY DEF AgentInv, WorldType, RunRow, RegRow
<1>2. \A call \in calls' : call.t = "steer" => call.steer \in Steers
  BY CallFields
<1> QED
  BY <1>1, <1>2 DEF AgentInv, MailInv

LEMMA ToldStays ==
    ASSUME AgentInv, UNCHANGED <<run, seen, chan>>, ui'.saved = ui.saved, ui'.state = ui.state,
           \A s \in Steers : (ui'.steers[s] = "delivered") = (ui.steers[s] = "delivered")
    PROVE  ToldInv'
<1>1. DeliveredNow' = DeliveredNow
  BY DEF DeliveredNow
<1> QED
  BY <1>1 DEF AgentInv, ToldInv, Following

\* A panel that has let go of the run knows what it knew.
LEMMA ToldRests ==
    ASSUME AgentInv, UNCHANGED <<run, seen>>, ui'.saved = ui.saved, ui'.state = ui.state,
           ui.state # "following",
           \A s \in Steers : (ui'.steers[s] = "delivered") = (ui.steers[s] = "delivered")
    PROVE  ToldInv'
<1>1. DeliveredNow' = DeliveredNow
  BY DEF DeliveredNow
<1> QED
  BY <1>1 DEF AgentInv, ToldInv, Following

LEMMA VerdictStays ==
    ASSUME AgentInv, UNCHANGED <<run, smart, modes>>, clicked \subseteq clicked'
    PROVE  VerdictInv'
  BY DEF AgentInv, VerdictInv, Remembered, NothingRunsUnasked

-----------------------------------------------------------------------------
(* Events as they are read.                                                *)

LEMMA HeadRead ==
    ASSUME AgentInv, chan # <<>>, Read
    PROVE  /\ Shifts(1) /\ UNCHANGED <<run, reg, seen, modes, smart, target, events>>
           /\ Head(chan) = chan[1] /\ 1 \in DOMAIN chan /\ chan[1] \in Event
           /\ chan' = Tail(chan) /\ chan \in Seq(Event)
<1>1. chan \in Seq(Event) /\ chan' = Tail(chan)
  BY DEF AgentInv, WorldType, Read
<1>2. /\ Head(chan) = chan[1] /\ chan[1] \in Event /\ DOMAIN chan = 1 .. Len(chan)
      /\ Len(chan) \in Nat /\ Len(chan') \in Nat /\ Len(chan) = Len(chan') + 1
  BY <1>1, Tailed
<1> QED
  BY <1>1, <1>2, ReadShifts DEF Read

LEMMA DropKeeps == ASSUME AgentInv, Drop PROVE AgentInv'
<1>1. ~Following /\ chan # <<>> /\ Read /\ UNCHANGED <<ui, calls, taken, settled, clicked>>
  BY DEF Drop, History
<1>2. /\ Shifts(1) /\ UNCHANGED <<run, reg, seen, modes, smart, target, events>>
  BY <1>1, HeadRead
<1>3. WorldType'
  BY <1>1, <1>2 DEF AgentInv, WorldType, Shifts
<1>4. CountInv'
  BY <1>1, <1>2 DEF AgentInv, CountInv, Counted, AsksAgain
<1>5. VerdictInv'
  BY <1>1, <1>2, VerdictStays
<1>6. GateInv'
  BY <1>1, <1>2, GateStays
<1>7. TokenInv' /\ TakenInv'
  <2>1. \A call : Result(call)' = Result(call)
    BY <1>1 DEF Result
  <2> QED
    BY <1>1, <1>2, <2>1, TokenStays
<1>8. EndInv'
  <2>1. NothingIsLeftBehind'
    BY <1>1, <1>2 DEF AgentInv, EndInv, NothingIsLeftBehind, Following
  <2>2. ui'.state # "following" /\ (ui'.state = "ended" => run.pc = "ended")
    BY <1>1 DEF AgentInv, EndInv, Following
  <2> QED
    BY <1>1, <1>2, <2>1, <2>2, EndStays
<1>9. MailInv' /\ ToldInv'
  BY <1>1, <1>2, MailStays, ToldRests DEF AgentInv, WorldType, Following
<1> QED
  BY <1>3, <1>4, <1>5, <1>6, <1>7, <1>8, <1>9 DEF AgentInv

LEMMA MismatchKeeps == ASSUME AgentInv, Mismatch \/ FenceArrives PROVE AgentInv'
<1>1. chan # <<>> /\ Read /\ Stopping(calls) /\ UNCHANGED <<taken, settled, clicked>>
  BY DEF Mismatch, FenceArrives, Arrives, History
<1>2. /\ Shifts(1) /\ UNCHANGED <<run, reg, seen, modes, smart, target, events>>
  BY <1>1, HeadRead
<1>3. events' \in Nat /\ events' >= events /\ events' <= MaxEvents /\ target' \in BOOLEAN
  BY <1>2 DEF AgentInv, WorldType, CountInv
<1>4. calls \in SUBSET calls
  OBVIOUS
<1> QED
  BY <1>1, <1>2, <1>3, <1>4, StopsKeeps

\* An event that is neither about messages nor the end of anything.
LEMMA ToldReads ==
    ASSUME AgentInv, chan # <<>>, Read, Head(chan).t \notin Telling,
           ui'.saved = ui.saved, ui'.state = ui.state, ui'.steers = ui.steers
    PROVE  ToldInv'
<1>1. /\ UNCHANGED <<run, reg, seen>> /\ chan' = Tail(chan) /\ chan \in Seq(Event)
  BY HeadRead
<1>2. DeliveredNow' = DeliveredNow
  BY DEF DeliveredNow
<1>3. ASSUME Following
      PROVE  Talk(chan', seen, DeliveredNow, ui.saved, run.sent)
  <2>1. Talk(chan, seen, DeliveredNow, ui.saved, run.sent)
    BY <1>3 DEF AgentInv, ToldInv
  <2>2. Head(chan).t # "delivered" /\ Head(chan).t # "checkpoint"
    BY DEF Telling
  <2>3. \A s : s \in DeliveredNow <=>
              s \in DeliveredNow \/ (Head(chan).t = "delivered" /\ s \in Head(chan).steers)
    BY <2>2
  <2>4. ui.saved = IF Head(chan).t = "checkpoint" THEN Head(chan).steers ELSE ui.saved
    BY <2>2
  <2> QED
    BY <1>1, <2>1, <2>3, <2>4, TalkHears
<1> QED
  BY <1>1, <1>2, <1>3 DEF AgentInv, ToldInv, Following

LEMMA ShowGateKeeps == ASSUME AgentInv, ShowGate PROVE AgentInv'
<1> DEFINE e == Head(chan)
<1>1. /\ Following /\ target /\ chan # <<>> /\ e.t = "gate" /\ Read
      /\ UNCHANGED <<taken, settled, clicked>>
      /\ \/ /\ ui' = [ui EXCEPT !.card = [gate |-> e.gate, kind |-> e.kind]]
            /\ UNCHANGED calls
         \/ /\ e.kind = "readiness"
            /\ calls' = calls \cup {[t |-> "answer", gate |-> e.gate, says |-> "run"]}
            /\ UNCHANGED ui
  BY DEF ShowGate, Arrives, History, Sent
<1>2. /\ Shifts(1) /\ UNCHANGED <<run, reg, seen, modes, smart, target, events>>
      /\ e = chan[1] /\ 1 \in DOMAIN chan /\ e \in Event
  BY <1>1, HeadRead
<1>3. e.gate \in Nat /\ e.kind \in Kind
  BY <1>1, <1>2, EventFields
<1>4. e.gate <= run.gates /\ (Asked /\ e.gate = run.gates => e.kind = "permission")
  BY <1>1, <1>2 DEF AgentInv, GateInv
<1>5. ui \in UiRow /\ calls \subseteq Call /\ run \in RunRow
  BY DEF AgentInv, WorldType
<1>6. e.t \notin Telling /\ chan[1].t # "fence"
  BY <1>1, <1>2 DEF Telling
<1> HIDE DEF e
<1> DEFINE new == [gate |-> e.gate, kind |-> e.kind]
           answer == [t |-> "answer", gate |-> e.gate, says |-> "run"]
<1>7. /\ ui' \in UiRow /\ ui'.state = ui.state /\ ui'.job = ui.job /\ ui'.jobGate = ui.jobGate
      /\ ui'.saved = ui.saved /\ ui'.steers = ui.steers
      /\ ui'.card = ui.card \/ (ui'.card.gate = e.gate /\ ui'.card.kind = e.kind)
  <2>1. new \in [gate : Nat, kind : Kind \cup {"none"}] /\ new.gate = e.gate /\ new.kind = e.kind
    BY <1>3
  <2>2. CASE ui' = ui
    BY <1>5, <2>2
  <2>3. CASE ui' = [ui EXCEPT !.card = new]
    <3> HIDE DEF new
    <3>1. /\ ui' \in UiRow /\ ui'.state = ui.state /\ ui'.job = ui.job /\ ui'.jobGate = ui.jobGate
          /\ ui'.saved = ui.saved /\ ui'.steers = ui.steers /\ ui'.card = new
      BY <1>5, <2>1, <2>3 DEF UiRow
    <3> QED
      BY <2>1, <3>1
  <2> QED
    BY <1>1, <2>2, <2>3
<1>8. /\ answer \in Call /\ answer.t = "answer" /\ answer.gate = e.gate
  BY <1>3, Calls DEF Says
<1>9. \A call \in calls' : call \in calls \/ (call = answer /\ e.kind = "readiness")
  BY <1>1
<1> HIDE DEF answer
<1>10. calls' \subseteq Call /\ ui'.state = "following"
  BY <1>1, <1>5, <1>7, <1>8, <1>9 DEF Following
<1>11. WorldType'
  BY <1>1, <1>2, <1>7, <1>10 DEF AgentInv, WorldType, Shifts
<1>12. CountInv'
  BY <1>2 DEF AgentInv, CountInv, Counted, AsksAgain
<1>13. VerdictInv'
  BY <1>1, <1>2, VerdictStays
<1>14. GateInv'
  <2>1. \A i \in DOMAIN chan' : chan'[i].t = "gate" =>
           chan'[i].gate <= run.gates /\ (Asked /\ chan'[i].gate = run.gates => chan'[i].kind = "permission")
    BY <1>2 DEF AgentInv, GateInv, Shifts
  <2>2. \A call \in calls' : call.t = "answer" =>
           call.gate <= run.gates /\
           (Asked /\ call.gate = run.gates /\ call.says = "run" => run.gates \in clicked)
    BY <1>4, <1>8, <1>9 DEF AgentInv, GateInv
  <2> QED
    BY <1>1, <1>2, <1>4, <1>7, <2>1, <2>2 DEF AgentInv, GateInv, Asked
<1>15. TokenInv' /\ TakenInv'
  <2>1. \A call : Result(call)' = Result(call)
    BY <1>1, <1>8, <1>9 DEF Result
  <2> QED
    BY <1>1, <1>2, <1>7, <2>1, TokenStays
<1>16. EndInv'
  <2>1. NothingIsLeftBehind'
    BY <1>2, <1>7, <1>10 DEF AgentInv, EndInv, NothingIsLeftBehind, Following
  <2>2. [t |-> "cancel"] \notin calls' /\ ~reg'.cancelled
    BY <1>1, <1>2, <1>8, <1>9 DEF AgentInv, EndInv
  <2> QED
    BY <1>2, <1>6, <1>7, <1>10, <2>1, <2>2, EndStays
<1>17. MailInv'
  BY <1>2, <1>7, <1>8, <1>9, <1>10, MailStays
<1>18. ToldInv'
  BY <1>1, <1>6, <1>7, ToldReads DEF e
<1> QED
  BY <1>11, <1>12, <1>13, <1>14, <1>15, <1>16, <1>17, <1>18 DEF AgentInv

LEMMA RunCommandKeeps == ASSUME AgentInv, RunCommand PROVE AgentInv'
<1> DEFINE e == Head(chan)
<1>1. /\ Following /\ target /\ chan # <<>> /\ e.t = "run" /\ Read
      /\ UNCHANGED <<taken, settled, calls>> /\ clicked' = {}
      /\ ui' = [ui EXCEPT !.card = NoCard, !.job = "preflight", !.jobGate = e.gate]
  BY DEF RunCommand, Arrives
<1>2. /\ Shifts(1) /\ UNCHANGED <<run, reg, seen, modes, smart, target, events>>
      /\ e = chan[1] /\ 1 \in DOMAIN chan
  BY <1>1, HeadRead
<1>3. Told(1)
  BY <1>1, <1>2 DEF Told
<1>4. /\ e.gate = run.gates /\ run.gates > 0 /\ run.pc \in Away /\ ui.job = "none" /\ ~Reported
      /\ run.gates \notin taken /\ (\A call \in calls : ~Result(call))
      /\ \A j \in DOMAIN chan : Told(j) => j = 1
  BY <1>2, <1>3 DEF AgentInv, TokenInv
<1>5. ui \in UiRow /\ run \in RunRow /\ run.gates \in Nat
  BY RunFields DEF AgentInv, WorldType
<1>6. e.t \notin Telling /\ chan[1].t # "fence"
  BY <1>1, <1>2 DEF Telling
<1>7. NoCard \in [gate : Nat, kind : Kind \cup {"none"}] /\ NoCard.gate = 0
  BY DEF NoCard
<1>8. /\ ui' \in UiRow /\ ui'.state = ui.state /\ ui'.job = "preflight" /\ ui'.jobGate = run.gates
      /\ ui'.saved = ui.saved /\ ui'.steers = ui.steers /\ ui'.card = NoCard
  <2> HIDE DEF e
  <2> QED
    BY <1>1, <1>4, <1>5, <1>7 DEF UiRow
<1>9. WorldType'
  BY <1>1, <1>2, <1>8 DEF AgentInv, WorldType, Shifts
<1>10. CountInv'
  BY <1>2 DEF AgentInv, CountInv, Counted, AsksAgain
<1>11. VerdictInv'
  BY <1>2, <1>4 DEF VerdictInv, Remembered, NothingRunsUnasked, Away
<1>12. GateInv'
  <2>1. \A i \in DOMAIN chan' : chan'[i].t = "gate" => chan'[i].gate <= run.gates
    BY <1>2 DEF AgentInv, GateInv, Shifts
  <2>2. run.pc \notin {"waiting", "dispatch"} /\ ~Asked
    BY <1>4 DEF Away, Asked
  <2>3. ui'.card.gate <= run.gates
    BY <1>5, <1>7, <1>8
  <2> QED
    BY <1>1, <1>2, <2>1, <2>2, <2>3 DEF AgentInv, GateInv, Asked
<1>13. TokenInv'
  <2>1. \A i \in DOMAIN chan' : ~(Told(i)')
    <3> SUFFICES ASSUME NEW i \in DOMAIN chan', Told(i)'
                 PROVE  FALSE
      OBVIOUS
    <3>1. Told(i + 1) /\ i + 1 \in DOMAIN chan /\ i \in Nat /\ i > 0
      BY <1>2, ToldShifts DEF Shifts
    <3> QED
      BY <1>4, <3>1
  <2>2. \A call \in calls' : ~(Result(call)')
    BY <1>1, <1>4 DEF Result
  <2> QED
    BY <1>1, <1>2, <1>4, <1>8, <2>1, <2>2 DEF AgentInv, TokenInv, Reported, Following
<1>14. TakenInv'
  BY <1>1, <1>2, <1>8 DEF AgentInv, TakenInv, Following
<1>15. EndInv'
  <2>1. NothingIsLeftBehind'
    BY <1>1, <1>2, <1>8 DEF AgentInv, EndInv, NothingIsLeftBehind, Following
  <2>2. [t |-> "cancel"] \notin calls' /\ ~reg'.cancelled /\ ui'.state # "ended"
    BY <1>1, <1>2, <1>8 DEF AgentInv, EndInv, Following
  <2> QED
    BY <1>2, <1>3, <1>6, <1>8, <2>1, <2>2, EndStays
<1>16. MailInv'
  BY <1>1, <1>2, <1>8, MailStays DEF AgentInv, WorldType
<1>17. ToldInv'
  BY <1>1, <1>6, <1>8, ToldReads
<1> QED
  BY <1>9, <1>10, <1>11, <1>12, <1>13, <1>14, <1>15, <1>16, <1>17 DEF AgentInv

\* Word of a completed round, and of the transcript to keep.
LEMMA HearsKeeps ==
    ASSUME AgentInv, chan # <<>>, Read, Following, chan[1].t \in Telling,
           UNCHANGED <<calls, taken, settled, clicked>>, ui' \in UiRow,
           ui'.state = ui.state, ui'.card = ui.card, ui'.job = ui.job, ui'.jobGate = ui.jobGate,
           \A s \in Steers : ui'.steers[s] = "delivered" <=>
               ui.steers[s] = "delivered" \/ (chan[1].t = "delivered" /\ s \in chan[1].steers),
           \A s \in Steers : ui.steers[s] # "none" => ui'.steers[s] # "none",
           ui'.saved = IF chan[1].t = "checkpoint" THEN chan[1].steers ELSE ui.saved
    PROVE  AgentInv'
<1>1. /\ Shifts(1) /\ UNCHANGED <<run, reg, seen, modes, smart, target, events>>
      /\ Head(chan) = chan[1] /\ 1 \in DOMAIN chan /\ chan[1] \in Event
      /\ chan' = Tail(chan) /\ chan \in Seq(Event)
  BY HeadRead
<1>2. WorldType'
  BY <1>1 DEF AgentInv, WorldType, Shifts
<1>3. CountInv'
  BY <1>1 DEF AgentInv, CountInv, Counted, AsksAgain
<1>4. VerdictInv'
  BY <1>1, VerdictStays
<1>5. GateInv'
  BY <1>1, GateStays
<1>6. TokenInv' /\ TakenInv'
  <2>1. \A call : Result(call)' = Result(call)
    BY DEF Result
  <2> QED
    BY <1>1, <2>1, TokenStays
<1>7. EndInv'
  <2>1. NothingIsLeftBehind'
    BY <1>1 DEF AgentInv, EndInv, NothingIsLeftBehind, Following
  <2>2. [t |-> "cancel"] \notin calls' /\ ~reg'.cancelled /\ ui'.state # "ended"
    BY <1>1 DEF AgentInv, EndInv, Following
  <2>3. chan[1].t # "fence"
    BY DEF Telling
  <2> QED
    BY <1>1, <2>1, <2>2, <2>3, EndStays
<1>8. MailInv'
  BY <1>1, MailStays DEF AgentInv, WorldType
<1>9. Talk(chan, seen, DeliveredNow, ui.saved, run.sent)
  BY DEF AgentInv, ToldInv
<1>10. \A s : s \in DeliveredNow' <=>
            s \in DeliveredNow \/ (chan[1].t = "delivered" /\ s \in chan[1].steers)
  <2>1. chan[1].steers \subseteq Steers
    BY <1>1, EventFields DEF Telling
  <2> QED
    BY <2>1 DEF DeliveredNow
<1>11. Talk(chan', seen, DeliveredNow', ui'.saved, run.sent)
  BY <1>1, <1>9, <1>10, TalkHears
<1>12. ui'.saved \subseteq DeliveredNow'
  <2>1. CASE chan[1].t = "checkpoint"
    <3>1. chan[1].steers \subseteq DeliveredNow
      BY <1>1, <1>9, <2>1, TalkKept
    <3> QED
      BY <1>10, <2>1, <3>1
  <2>2. CASE chan[1].t # "checkpoint"
    BY <1>10, <2>2 DEF AgentInv, ToldInv
  <2> QED
    BY <2>1, <2>2
<1>13. DeliveredNow' \subseteq seen
  BY <1>11 DEF Talk, DeliveredNow
<1>14. ToldInv'
  BY <1>1, <1>11, <1>12, <1>13 DEF ToldInv, Following
<1> QED
  BY <1>2, <1>3, <1>4, <1>5, <1>6, <1>7, <1>8, <1>14 DEF AgentInv

LEMMA DeliveredArrivesKeeps == ASSUME AgentInv, DeliveredArrives PROVE AgentInv'
<1> DEFINE e == Head(chan)
           new == [s \in Steers |-> IF s \in e.steers THEN "delivered" ELSE ui.steers[s]]
<1>1. /\ Following /\ chan # <<>> /\ e.t = "delivered" /\ Read
      /\ UNCHANGED <<calls, taken, settled, clicked>>
  BY DEF DeliveredArrives, Arrives, History
<1>2. ui' = [ui EXCEPT !.steers = new]
  BY DEF DeliveredArrives
<1>3. e = chan[1] /\ ui \in UiRow
  BY <1>1, HeadRead DEF AgentInv, WorldType
<1>4. /\ new \in [Steers -> {"none", "queued", "delivered", "undelivered"}]
      /\ \A s \in Steers : new[s] = "delivered" <=> ui.steers[s] = "delivered" \/ s \in e.steers
      /\ \A s \in Steers : ui.steers[s] # "none" => new[s] # "none"
  <2>1. ui.steers \in [Steers -> {"none", "queued", "delivered", "undelivered"}]
    BY <1>3, UiFields
  <2> HIDE DEF e
  <2> QED
    BY <2>1
<1> HIDE DEF new
<1>5. /\ ui' \in UiRow /\ ui'.state = ui.state /\ ui'.card = ui.card /\ ui'.job = ui.job
      /\ ui'.jobGate = ui.jobGate /\ ui'.saved = ui.saved /\ ui'.steers = new
  BY <1>2, <1>3, <1>4 DEF UiRow
<1>6. chan[1].t = "delivered" /\ chan[1].t \in Telling
  BY <1>1, <1>3 DEF Telling
<1> QED
  BY <1>1, <1>3, <1>4, <1>5, <1>6, HearsKeeps

LEMMA CheckpointArrivesKeeps == ASSUME AgentInv, CheckpointArrives PROVE AgentInv'
<1> DEFINE e == Head(chan)
<1>1. /\ Following /\ chan # <<>> /\ e.t = "checkpoint" /\ Read
      /\ UNCHANGED <<calls, taken, settled, clicked>> /\ ui' = [ui EXCEPT !.saved = e.steers]
  BY DEF CheckpointArrives, Arrives, History
<1>2. e = chan[1] /\ ui \in UiRow /\ e \in Event
  BY <1>1, HeadRead DEF AgentInv, WorldType
<1>3. e.steers \in SUBSET Steers
  BY <1>1, <1>2, EventFields
<1>4. /\ ui' \in UiRow /\ ui'.state = ui.state /\ ui'.card = ui.card /\ ui'.job = ui.job
      /\ ui'.jobGate = ui.jobGate /\ ui'.saved = e.steers /\ ui'.steers = ui.steers
  <2> HIDE DEF e
  <2> QED
    BY <1>1, <1>2, <1>3 DEF UiRow
<1>5. chan[1].t = "checkpoint" /\ chan[1].t \in Telling
  BY <1>1, <1>2 DEF Telling
<1> QED
  BY <1>1, <1>2, <1>4, <1>5, HearsKeeps

LEMMA EndArrivesKeeps == ASSUME AgentInv, EndArrives PROVE AgentInv'
<1> DEFINE e == Head(chan)
<1>1. /\ Following /\ target /\ chan # <<>> /\ e.t = "end" /\ Read
      /\ UNCHANGED <<calls, taken, settled, clicked>>
      /\ ui' = [Retired EXCEPT !.state = "ended", !.job = ui.job, !.jobGate = ui.jobGate]
  BY DEF EndArrives, Arrives, History
<1>2. /\ Shifts(1) /\ UNCHANGED <<run, reg, seen, modes, smart, target, events>>
      /\ e = chan[1] /\ 1 \in DOMAIN chan /\ chan' = Tail(chan) /\ chan \in Seq(Event)
  BY <1>1, HeadRead
<1>3. /\ Len(chan) = 1 /\ run.pc = "ended" /\ DOMAIN chan = {1} /\ DOMAIN chan' = {}
  <2>1. 1 = Len(chan) /\ run.pc = "ended"
    BY <1>1, <1>2 DEF AgentInv, EndInv
  <2> QED
    BY <1>2, <2>1 DEF Shifts
<1>4. ui.job = "none" /\ ui.jobGate = 0
  BY <1>1, <1>2, <1>3 DEF AgentInv, EndInv, TokenInv
<1>5. ui \in UiRow /\ run \in RunRow /\ run.gates \in Nat
  BY RunFields DEF AgentInv, WorldType
<1>6. /\ Retired \in UiRow /\ Retired.state = "retired" /\ Retired.card = NoCard
      /\ Retired.job = "none" /\ Retired.jobGate = 0 /\ Retired.saved = ui.saved
      /\ \A s \in Steers : (Retired.steers[s] = "delivered") = (ui.steers[s] = "delivered")
      /\ \A s \in Steers : (Retired.steers[s] = "none") = (ui.steers[s] = "none")
  BY <1>5, RetiredRow
<1>7. /\ ui' \in UiRow /\ ui'.state = "ended" /\ ui'.card = NoCard /\ ui'.job = ui.job
      /\ ui'.jobGate = ui.jobGate /\ ui'.saved = ui.saved /\ ui'.steers = Retired.steers
  BY <1>1, <1>4, <1>6 DEF UiRow
<1>8. WorldType'
  BY <1>1, <1>2, <1>7 DEF AgentInv, WorldType, Shifts
<1>9. CountInv'
  BY <1>2 DEF AgentInv, CountInv, Counted, AsksAgain
<1>10. VerdictInv'
  BY <1>1, <1>2, VerdictStays
<1>11. GateInv'
  BY <1>1, <1>2, <1>7, GateStays
<1>12. TokenInv' /\ TakenInv'
  <2>1. \A call : Result(call)' = Result(call)
    BY <1>1 DEF Result
  <2> QED
    BY <1>1, <1>2, <1>4, <1>7, <2>1, TokenStays
<1>13. EndInv'
  <2>1. NothingIsLeftBehind'
    BY <1>2, <1>4, <1>7 DEF AgentInv, EndInv, NothingIsLeftBehind, Following
  <2> QED
    BY <1>2, <1>3, <1>7, <2>1, EndStays
<1>14. MailInv'
  BY <1>1, <1>2, <1>6, <1>7, MailStays DEF AgentInv, WorldType
<1>15. ToldInv'
  <2>1. DeliveredNow' = DeliveredNow
    BY <1>6, <1>7 DEF DeliveredNow
  <2>2. Talk(chan, seen, DeliveredNow, ui.saved, run.sent)
    BY <1>1 DEF AgentInv, ToldInv
  <2>3. ui.saved = run.sent
    BY <1>1, <1>2, <1>3, <2>2 DEF Talk
  <2>4. \A s \in Steers : s \in seen <=> s \in DeliveredNow
    BY <1>1, <1>2, <1>3, <2>2 DEF Talk, Coming
  <2>5. (~run.trimmed => seen = run.steers /\ run.sent = run.steers) /\ seen \subseteq Steers
    BY <1>3 DEF AgentInv, MailInv, WorldType
  <2>6. DeliveredNow = seen
    BY <2>4, <2>5 DEF DeliveredNow
  <2>7. ~run.trimmed => ui.saved = DeliveredNow
    BY <2>3, <2>5, <2>6
  <2>8. run' = run /\ seen' = seen /\ ui'.saved = ui.saved /\ ui'.state # "following"
    BY <1>2, <1>7
  <2>9. /\ DeliveredNow' \subseteq seen' /\ ui'.saved \subseteq DeliveredNow'
        /\ DeliveredNow' = seen' /\ ui'.saved = run'.sent
        /\ ~run'.trimmed => ui'.saved = DeliveredNow'
    <3>1. ui.saved \subseteq DeliveredNow
      BY DEF AgentInv, ToldInv
    <3> HIDE DEF DeliveredNow
    <3> QED
      BY <2>1, <2>3, <2>6, <2>7, <2>8, <3>1
  <2> QED
    BY <2>8, <2>9 DEF ToldInv, Following
<1> QED
  BY <1>8, <1>9, <1>10, <1>11, <1>12, <1>13, <1>14, <1>15 DEF AgentInv

LEMMA ReceiveKeeps == ASSUME AgentInv, Receive PROVE AgentInv'
  BY DropKeeps, MismatchKeeps, ShowGateKeeps, RunCommandKeeps, DeliveredArrivesKeeps,
     CheckpointArrivesKeeps, EndArrivesKeeps DEF Receive

-----------------------------------------------------------------------------
(* The operator and the calls.                                             *)

LEMMA BackendKept ==
    ASSUME UNCHANGED backend
    PROVE  UNCHANGED <<run, reg, chan, seen, modes, smart>>
  BY DEF backend

\* A step that neither reads the channel nor moves the run.
LEMMA MovesKeeps ==
    ASSUME AgentInv, UNCHANGED <<run, chan, seen, modes, smart, taken>>,
           ui' \in UiRow, reg' \in RegRow, calls' \subseteq Call,
           clicked' \subseteq Nat, clicked \subseteq clicked', target' \in BOOLEAN,
           settled \subseteq settled', settled' \subseteq taken,
           events' \in Nat, events' >= events, events' <= MaxEvents,
           reg'.mode = reg.mode, Cardinality(reg'.mail) <= MaxMail,
           ui'.state = ui.state, ui'.saved = ui.saved, ui'.job # "none" => ui.job # "none",
           \A s \in Steers : (ui'.steers[s] = "delivered") = (ui.steers[s] = "delivered"),
           [t |-> "cancel"] \in calls' \/ reg'.cancelled => ~Following,
           GateInv', TokenInv', MailInv', NothingIsLeftBehind'
    PROVE  AgentInv'
<1>1. chan \in Seq(Event) /\ Shifts(0)
  BY StayShifts DEF AgentInv, WorldType
<1>2. WorldType'
  BY DEF AgentInv, WorldType
<1>3. CountInv'
  BY CountStays
<1>4. VerdictInv'
  BY VerdictStays
<1>5. TakenInv'
  BY DEF AgentInv, TakenInv, Following
<1>6. EndInv'
  <2>1. ui'.state = "ended" => run.pc = "ended"
    BY DEF AgentInv, EndInv
  <2>2. [t |-> "cancel"] \in calls' \/ reg'.cancelled => ui'.state # "following"
    BY DEF Following
  <2> QED
    BY <1>1, <2>1, <2>2, EndStays
<1>7. ToldInv'
  BY ToldStays
<1> QED
  BY <1>2, <1>3, <1>4, <1>5, <1>6, <1>7 DEF AgentInv

LEMMA Bounds ==
    ASSUME AgentInv
    PROVE  /\ run \in RunRow /\ reg \in RegRow /\ ui \in UiRow /\ calls \subseteq Call
           /\ chan \in Seq(Event) /\ (Shifts(0) \/ chan' # chan)
           /\ run.gates \in Nat /\ clicked \subseteq Nat /\ settled \subseteq taken
           /\ target \in BOOLEAN /\ events \in Nat /\ events >= events /\ events <= MaxEvents
           /\ Cardinality(reg.mail) <= MaxMail
  BY RunFields, StayShifts DEF AgentInv, WorldType, CountInv

LEMMA AnswerKeeps ==
    ASSUME AgentInv, NEW says \in Says, Answer(says)
    PROVE  AgentInv'
<1> DEFINE answer == [t |-> "answer", gate |-> ui.card.gate, says |-> says]
<1>1. /\ Following /\ UNCHANGED <<run, reg, chan, seen, modes, smart, target, events>>
  BY BackendKept DEF Answer
<1>2. CASE ~target
  <2>1. Stopping(calls) /\ UNCHANGED <<taken, settled, clicked>>
    BY <1>2 DEF Answer, History
  <2>2. calls \in SUBSET calls
    OBVIOUS
  <2> QED
    BY <1>1, <2>1, <2>2, Bounds, StopsKeeps
<1>3. CASE target
  <2>1. /\ ui' = ui \/ ui' = [ui EXCEPT !.card = NoCard]
        /\ calls' = calls \cup {answer}
        /\ UNCHANGED <<taken, settled>>
        /\ clicked' = IF says = "run" /\ ui.card.kind = "permission"
                      THEN clicked \cup {ui.card.gate} ELSE clicked
    BY <1>3 DEF Answer, Sent
  <2>2. ui.card.gate \in Nat /\ ui.card.gate <= run.gates
    BY Bounds, UiFields DEF AgentInv, GateInv
  <2>3. NoCard \in [gate : Nat, kind : Kind \cup {"none"}] /\ NoCard.gate = 0
    BY DEF NoCard
  <2>4. /\ ui' \in UiRow /\ ui'.state = ui.state /\ ui'.job = ui.job /\ ui'.jobGate = ui.jobGate
        /\ ui'.saved = ui.saved /\ ui'.steers = ui.steers
        /\ ui'.card = ui.card \/ ui'.card = NoCard
    BY <2>1, <2>3, Bounds DEF UiRow
  <2>5. answer \in Call /\ answer.t = "answer" /\ answer.gate = ui.card.gate /\ answer.says = says
    BY <2>2, Calls
  <2>6. \A call \in calls' : call \in calls \/ call = answer
    BY <2>1
  <2> HIDE DEF answer
  <2>7. calls' \subseteq Call /\ clicked \subseteq clicked' /\ clicked' \subseteq Nat
    BY <2>1, <2>2, <2>5, <2>6, Bounds
  <2>8. \A call : Result(call)' = Result(call)
    BY <2>1, <2>5 DEF Result
  <2>9. GateInv'
    <3>1. \A call \in calls' : call.t = "answer" =>
             call.gate <= run.gates /\
             (Asked /\ call.gate = run.gates /\ call.says = "run" => run.gates \in clicked')
      BY <2>1, <2>2, <2>5, <2>6, <2>7 DEF AgentInv, GateInv
    <3>2. Asked => run.gates > 0
      BY DEF Asked, AgentInv, GateInv
    <3>3. ui'.card.gate <= run.gates /\ (Asked /\ ui'.card.gate = run.gates => ui'.card.kind = "permission")
      BY <2>3, <2>4, <3>2, Bounds DEF AgentInv, GateInv
    <3> QED
      BY <1>1, <2>7, <3>1, <3>3 DEF AgentInv, GateInv, Asked
  <2>10. TokenInv'
    BY <1>1, <2>1, <2>4, <2>8, Bounds, TokenStays
  <2>11. MailInv'
    BY <1>1, <2>4, <2>5, <2>6, <2>7, MailStays
  <2>12. NothingIsLeftBehind'
    BY <1>1, <2>4 DEF AgentInv, EndInv, NothingIsLeftBehind, Following
  <2>13. [t |-> "cancel"] \in calls' \/ reg'.cancelled => ~Following
    BY <1>1, <2>5, <2>6 DEF AgentInv, EndInv
  <2> QED
    BY <1>1, <2>1, <2>4, <2>7, <2>9, <2>10, <2>11, <2>12, <2>13, Bounds, MovesKeeps
<1> QED
  BY <1>2, <1>3

LEMMA StopKeeps == ASSUME AgentInv, Stop PROVE AgentInv'
<1>1. /\ UNCHANGED <<run, reg, chan, seen, modes, smart, target, taken, settled, clicked>>
      /\ Stopping(calls) /\ events < MaxEvents /\ events' = events + 1
  BY BackendKept DEF Stop, History, Budget
<1>2. events' \in Nat /\ events' >= events /\ events' <= MaxEvents
  BY <1>1, Bounds, Numbers
<1>3. calls \in SUBSET calls
  OBVIOUS
<1> QED
  BY <1>1, <1>2, <1>3, Bounds, StopsKeeps

LEMMA SetModeKeeps ==
    ASSUME AgentInv, NEW mode \in Mode, SetMode(mode)
    PROVE  AgentInv'
<1>1. /\ UNCHANGED <<run, chan, seen, smart, ui, target, calls, taken, settled, clicked>>
      /\ events < MaxEvents /\ events' = events + 1
      /\ Rank(mode) <= Rank(Ceiling) /\ reg' = [reg EXCEPT !.mode = mode]
      /\ modes' = IF run.pc = "dispatch" THEN modes \cup {mode} ELSE modes
      /\ reg.mode # "absent"
  BY DEF SetMode, SetPermissionMode, History, Budget
<1>2. /\ reg' \in RegRow /\ reg'.gate = reg.gate /\ reg'.pty = reg.pty /\ reg'.mail = reg.mail
      /\ reg'.open = reg.open /\ reg'.cancelled = reg.cancelled /\ reg'.mode = mode
  BY <1>1, Bounds DEF RegRow
<1>3. events' \in Nat /\ events' >= events /\ events' <= MaxEvents
  BY <1>1, Bounds, Numbers
<1>4. WorldType'
  BY <1>1, <1>2, <1>3 DEF AgentInv, WorldType
<1>5. CountInv'
  <2>1. run.gates <= run.commands + events /\ run.commands \in Nat
    BY RunFields DEF AgentInv, CountInv, Counted, WorldType
  <2>2. run.gates < run.commands + events' /\ run.gates <= run.commands + events'
    BY <1>1, <2>1, Bounds
  <2>3. Counted'
    BY <1>1, <2>2 DEF AgentInv, CountInv, Counted
  <2> QED
    BY <1>1, <1>2, <1>3, <2>3, Bounds DEF AgentInv, CountInv
<1>6. VerdictInv'
  <2>1. modes \subseteq modes'
    BY <1>1
  <2> QED
    BY <1>1, <2>1 DEF AgentInv, VerdictInv, Remembered, NothingRunsUnasked
<1>7. GateInv'
  BY <1>1, <1>2, Bounds, GateStays
<1>8. TokenInv' /\ TakenInv'
  <2>1. \A call : Result(call)' = Result(call)
    BY <1>1 DEF Result
  <2> QED
    BY <1>1, <1>2, <2>1, Bounds, TokenStays
<1>9. EndInv'
  <2>1. NothingIsLeftBehind'
    BY <1>1, <1>2 DEF AgentInv, EndInv, NothingIsLeftBehind, SetMode, Following
  <2>2. [t |-> "cancel"] \in calls' \/ reg'.cancelled => ui'.state # "following"
    BY <1>1, <1>2 DEF AgentInv, EndInv, Following
  <2>3. ui'.state = "ended" => run.pc = "ended"
    BY <1>1 DEF AgentInv, EndInv
  <2> QED
    BY <1>1, <2>1, <2>2, <2>3, Bounds, EndStays
<1>10. MailInv'
  BY <1>1, <1>2, Bounds, MailStays
<1>11. ToldInv'
  BY <1>1, ToldStays
<1> QED
  BY <1>4, <1>5, <1>6, <1>7, <1>8, <1>9, <1>10, <1>11 DEF AgentInv

LEMMA SteerKeeps ==
    ASSUME AgentInv, NEW s \in Steers, Steer(s)
    PROVE  AgentInv'
<1> DEFINE new == [ui.steers EXCEPT ![s] = "queued"]
           call == [t |-> "steer", steer |-> s]
<1>1. /\ UNCHANGED <<run, reg, chan, seen, modes, smart, target, events, taken, settled, clicked>>
      /\ ui.steers[s] = "none" /\ ui' = [ui EXCEPT !.steers = new] /\ calls' = calls \cup {call}
  BY BackendKept DEF Steer, History, Sent
<1>2. /\ new \in [Steers -> {"none", "queued", "delivered", "undelivered"}]
      /\ \A other \in Steers : (new[other] = "delivered") = (ui.steers[other] = "delivered")
      /\ (\A other \in Steers : ui.steers[other] # "none" => new[other] # "none") /\ new[s] = "queued"
  <2>1. ui.steers \in [Steers -> {"none", "queued", "delivered", "undelivered"}]
    BY Bounds, UiFields
  <2> QED
    BY <1>1, <2>1
<1> HIDE DEF new
<1>3. /\ ui' \in UiRow /\ ui'.state = ui.state /\ ui'.card = ui.card /\ ui'.job = ui.job
      /\ ui'.jobGate = ui.jobGate /\ ui'.saved = ui.saved /\ ui'.steers = new
  BY <1>1, <1>2, Bounds DEF UiRow
<1>4. call \in Call /\ call.t = "steer" /\ call.steer = s
  BY Calls
<1>5. \A other \in calls' : other \in calls \/ other = call
  BY <1>1
<1> HIDE DEF call
<1>6. calls' \subseteq Call
  BY <1>4, <1>5, Bounds
<1>7. \A other : Result(other)' = Result(other)
  BY <1>1, <1>4 DEF Result
<1>8. GateInv'
  BY <1>1, <1>3, <1>4, <1>5, Bounds, GateStays
<1>9. TokenInv'
  BY <1>1, <1>3, <1>7, Bounds, TokenStays
<1>10. MailInv'
  <2>1. s \notin reg.mail \cup run.steers \cup seen
    BY <1>1 DEF AgentInv, MailInv
  <2>2. reg.mail \cup run.steers \cup seen \subseteq Steers
    BY Bounds DEF RunRow, RegRow, AgentInv, WorldType
  <2>3. \A other \in calls : other.t = "steer" => other.steer \in Steers
    BY Bounds, CallFields
  <2> QED
    BY <1>1, <1>2, <1>3, <1>4, <1>5, <2>1, <2>2, <2>3 DEF AgentInv, MailInv
<1>11. NothingIsLeftBehind'
  BY <1>1, <1>3 DEF AgentInv, EndInv, NothingIsLeftBehind, Following
<1>12. [t |-> "cancel"] \in calls' \/ reg'.cancelled => ~Following
  BY <1>1, <1>4, <1>5 DEF AgentInv, EndInv
<1> QED
  BY <1>1, <1>2, <1>3, <1>6, <1>8, <1>9, <1>10, <1>11, <1>12, Bounds, MovesKeeps

LEMMA TargetChangesKeeps == ASSUME AgentInv, TargetChanges PROVE AgentInv'
<1>1. /\ UNCHANGED <<run, reg, chan, seen, modes, smart, taken, settled, clicked>>
      /\ target' = FALSE /\ events < MaxEvents /\ events' = events + 1
      /\ Stopping(calls) \/ UNCHANGED <<ui, calls>>
  BY BackendKept DEF TargetChanges, History, Budget
<1>2. events' \in Nat /\ events' >= events /\ events' <= MaxEvents
  BY <1>1, Bounds, Numbers
<1> target' \in BOOLEAN
  BY <1>1
<1>3. CASE Stopping(calls)
  <2>1. calls \in SUBSET calls
    OBVIOUS
  <2> QED
    BY <1>1, <1>2, <1>3, <2>1, Bounds, StopsKeeps
<1>4. CASE UNCHANGED <<ui, calls>>
  <2>1. \A call : Result(call)' = Result(call)
    BY <1>4 DEF Result
  <2>2. GateInv' /\ MailInv'
    BY <1>1, <1>4, Bounds, GateStays, MailStays
  <2>3. TokenInv'
    BY <1>1, <1>4, <2>1, Bounds, TokenStays
  <2>4. NothingIsLeftBehind' /\ ([t |-> "cancel"] \in calls' \/ reg'.cancelled => ~Following)
    BY <1>1, <1>4 DEF AgentInv, EndInv, NothingIsLeftBehind, Following
  <2> QED
    BY <1>1, <1>2, <1>4, <2>2, <2>3, <2>4, Bounds, MovesKeeps
<1> QED
  BY <1>1, <1>3, <1>4

\* A call that arrives is taken off; what it leaves behind asks nothing.
LEMMA DeliverAnswerKeeps ==
    ASSUME AgentInv, NEW call \in calls, DeliverAnswer(call)
    PROVE  AgentInv'
<1>1. /\ UNCHANGED <<run, chan, seen, modes, smart, ui, target, events, taken, settled, clicked>>
      /\ call.t = "answer" /\ call \in Call
  BY Bounds DEF DeliverAnswer, Quiet, History
<1>2. /\ call.gate \in Nat /\ call.says \in Says /\ call.gate <= run.gates
      /\ Asked /\ call.gate = run.gates /\ call.says = "run" => run.gates \in clicked
  BY <1>1, CallFields DEF AgentInv, GateInv
<1>3. /\ calls' = calls \ {call} \/ calls' = (calls \ {call}) \cup {[t |-> "failed"]}
      /\ \/ reg' = reg
         \/ /\ reg.gate = "waiting" /\ run.gates = call.gate
            /\ reg' = [reg EXCEPT !.gate = call.says]
  BY DEF DeliverAnswer, GateTakes
<1>4. /\ calls' \subseteq Call /\ \A other \in calls' : other \in calls \/ other.t = "failed"
  BY <1>3, Calls, Bounds
<1>5. /\ reg' \in RegRow /\ reg'.mode = reg.mode /\ reg'.pty = reg.pty /\ reg'.mail = reg.mail
      /\ reg'.cancelled = reg.cancelled /\ reg'.open = reg.open
      /\ \/ reg'.gate = reg.gate
         \/ reg.gate = "waiting" /\ run.gates = call.gate /\ reg'.gate = call.says
  BY <1>2, <1>3, Bounds DEF RegRow
<1>6. \A other : Result(other)' = Result(other)
  <2>1. \A other : other.t = "result" => (other \in calls') = (other \in calls)
    BY <1>1, <1>3
  <2> QED
    BY <2>1 DEF Result
<1>7. GateInv'
  <2>1. \A other \in calls' : other.t = "answer" => other \in calls
    BY <1>4
  <2> QED
    BY <1>1, <1>2, <1>5, <2>1 DEF AgentInv, GateInv, Asked
<1>8. TokenInv' /\ MailInv'
  BY <1>1, <1>4, <1>5, <1>6, Bounds, TokenStays, MailStays
<1>9. NothingIsLeftBehind'
  <2>1. run.pc = "ended" => reg.gate = "none"
    BY DEF AgentInv, GateInv
  <2> QED
    BY <1>1, <1>5, <2>1 DEF AgentInv, EndInv, NothingIsLeftBehind, Following
<1>10. [t |-> "cancel"] \in calls' \/ reg'.cancelled => ~Following
  BY <1>4, <1>5 DEF AgentInv, EndInv
<1> QED
  BY <1>1, <1>4, <1>5, <1>7, <1>8, <1>9, <1>10, Bounds, MovesKeeps

LEMMA DeliverResultKeeps ==
    ASSUME AgentInv, NEW call \in calls, DeliverResult(call)
    PROVE  AgentInv'
<1>1. /\ UNCHANGED <<run, chan, seen, modes, smart, ui, target, events, taken, settled, clicked>>
      /\ call.t = "result" /\ call \in Call
  BY Bounds DEF DeliverResult, Quiet, History
<1>2. call.gate \in Nat /\ call.outcome \in Outcome /\ Result(call)
  BY <1>1, CallFields DEF Result
<1>3. /\ \A other \in calls : Result(other) => other = call
      /\ ~Reported /\ ui.job = "none" /\ \A i \in DOMAIN chan : ~Told(i)
      /\ call.outcome = "completed" => run.gates \in settled
      /\ call.outcome = "notStarted" => run.gates \notin taken
  BY <1>2 DEF AgentInv, TokenInv
<1>4. /\ calls' \subseteq (calls \ {call}) \cup {[t |-> "failed"]}
      /\ \/ reg' = reg
         \/ reg.pty = "waiting" /\ reg' = [reg EXCEPT !.pty = call.outcome]
  BY DEF DeliverResult, WaiterTakes
<1>5. /\ calls' \subseteq Call /\ \A other \in calls' : other.t = "failed" \/ (other \in calls /\ other # call)
  BY <1>4, Calls, Bounds
<1>6. /\ reg' \in RegRow /\ reg'.mode = reg.mode /\ reg'.gate = reg.gate /\ reg'.mail = reg.mail
      /\ reg'.cancelled = reg.cancelled /\ reg'.open = reg.open
      /\ \/ reg'.pty = reg.pty
         \/ reg.pty = "waiting" /\ reg'.pty = call.outcome
  BY <1>2, <1>4, Bounds DEF RegRow
<1>7. GateInv' /\ MailInv'
  BY <1>1, <1>5, <1>6, Bounds, GateStays, MailStays
<1>8. TokenInv'
  <2>1. \A other \in calls' : ~(Result(other)')
    BY <1>3, <1>5 DEF Result
  <2>2. \A i \in DOMAIN chan' : ~(Told(i)')
    BY <1>1, <1>3 DEF Told
  <2>3. run.pc # "executing" => reg'.pty = "none"
    BY <1>6 DEF AgentInv, TokenInv
  <2>4. /\ reg'.pty = "completed" => run.gates \in settled
        /\ reg'.pty = "notStarted" => run.gates \notin taken
    BY <1>3, <1>6 DEF AgentInv, TokenInv
  <2> QED
    BY <1>1, <1>3, <2>1, <2>2, <2>3, <2>4 DEF AgentInv, TokenInv
<1>9. NothingIsLeftBehind'
  <2>1. run.pc = "ended" => reg.pty = "none"
    BY DEF AgentInv, TokenInv
  <2> QED
    BY <1>1, <1>6, <2>1 DEF AgentInv, EndInv, NothingIsLeftBehind, Following
<1>10. [t |-> "cancel"] \in calls' \/ reg'.cancelled => ~Following
  BY <1>5, <1>6 DEF AgentInv, EndInv
<1> QED
  BY <1>1, <1>5, <1>6, <1>7, <1>8, <1>9, <1>10, Bounds, MovesKeeps

LEMMA CallFailsKeeps == ASSUME AgentInv, CallFails PROVE AgentInv'
<1> DEFINE rest == calls \ {[t |-> "failed"]}
<1>1. /\ UNCHANGED <<run, reg, chan, seen, modes, smart, target, events, taken, settled, clicked>>
      /\ IF Following THEN Stopping(rest) ELSE calls' = rest /\ UNCHANGED ui
  BY BackendKept DEF CallFails, Quiet, History
<1>2. CASE Following
  <2>1. rest \in SUBSET calls
    OBVIOUS
  <2> HIDE DEF rest
  <2> QED
    BY <1>1, <1>2, <2>1, Bounds, StopsKeeps
<1>3. CASE ~Following
  <2>1. calls' = rest /\ UNCHANGED ui /\ calls' \subseteq calls
    BY <1>1, <1>3
  <2>2. calls' \subseteq Call
    BY <2>1, Bounds
  <2>3. \A other : Result(other)' = Result(other)
    <3>1. \A other : other.t = "result" => (other \in calls') = (other \in calls)
      BY <2>1
    <3> QED
      BY <3>1 DEF Result
  <2>4. GateInv' /\ MailInv'
    BY <1>1, <2>1, <2>2, Bounds, GateStays, MailStays
  <2>5. TokenInv'
    BY <1>1, <2>1, <2>3, Bounds, TokenStays
  <2>6. NothingIsLeftBehind'
    BY <1>1, <2>1 DEF AgentInv, EndInv, NothingIsLeftBehind, Following
  <2> QED
    BY <1>1, <1>3, <2>1, <2>2, <2>4, <2>5, <2>6, Bounds, MovesKeeps
<1> QED
  BY <1>2, <1>3

LEMMA DeliverCancelKeeps == ASSUME AgentInv, DeliverCancel PROVE AgentInv'
<1>1. /\ UNCHANGED <<run, chan, seen, modes, smart, ui, target, events, taken, settled, clicked>>
      /\ [t |-> "cancel"] \in calls /\ calls' = calls \ {[t |-> "cancel"]}
      /\ reg' = [reg EXCEPT !.mail = {}, !.open = FALSE,
                    !.cancelled = @ \/ run.pc \notin {"starting", "ended"},
                    !.gate = IF @ = "waiting" THEN "dropped" ELSE @,
                    !.pty = IF @ = "waiting" THEN "dropped" ELSE @]
  BY DEF DeliverCancel, AiCancel, Quiet, History, RunUnchanged
<1>2. ~Following
  BY <1>1 DEF AgentInv, EndInv
<1>3. /\ reg' \in RegRow /\ reg'.mode = reg.mode /\ reg'.mail = {} /\ reg'.open = FALSE
      /\ reg'.gate = reg.gate \/ (reg.gate = "waiting" /\ reg'.gate = "dropped")
      /\ reg'.pty = reg.pty \/ (reg.pty = "waiting" /\ reg'.pty = "dropped")
  <2> DEFINE c == reg.cancelled \/ run.pc \notin {"starting", "ended"}
             g == IF reg.gate = "waiting" THEN "dropped" ELSE reg.gate
             p == IF reg.pty = "waiting" THEN "dropped" ELSE reg.pty
  <2>1. reg \in RegRow
    BY Bounds
  <2>2. /\ c \in BOOLEAN /\ g \in {"none", "waiting", "dropped"} \cup Says
        /\ p \in {"none", "waiting", "dropped"} \cup Outcome
    BY <2>1 DEF RegRow
  <2>3. reg' = [reg EXCEPT !.mail = {}, !.open = FALSE, !.cancelled = c, !.gate = g, !.pty = p]
    BY <1>1
  <2>4. /\ g = reg.gate \/ (reg.gate = "waiting" /\ g = "dropped")
        /\ p = reg.pty \/ (reg.pty = "waiting" /\ p = "dropped")
    OBVIOUS
  <2> HIDE DEF c, g, p
  <2>5. reg' \in RegRow
    BY <2>1, <2>2, <2>3 DEF RegRow
  <2>6. /\ reg'.mode = reg.mode /\ reg'.mail = {} /\ reg'.open = FALSE
        /\ reg'.gate = g /\ reg'.pty = p
    BY <2>1, <2>3 DEF RegRow
  <2> QED
    BY <2>4, <2>5, <2>6
<1>4. calls' \subseteq calls /\ calls' \subseteq Call
  BY <1>1, Bounds
<1>5. \A other : Result(other)' = Result(other)
  <2>1. \A other : other.t = "result" => (other \in calls') = (other \in calls)
    BY <1>1
  <2> QED
    BY <2>1 DEF Result
<1>6. GateInv'
  BY <1>1, <1>3, <1>4 DEF AgentInv, GateInv, Asked
<1>7. TokenInv' /\ MailInv'
  BY <1>1, <1>3, <1>4, <1>5, Bounds, TokenStays, MailStays
<1>8. NothingIsLeftBehind'
  BY <1>1, <1>3 DEF AgentInv, EndInv, NothingIsLeftBehind, Following
<1>9. Cardinality(reg'.mail) <= MaxMail
  <2>1. Cardinality(reg'.mail) = 0
    BY <1>3, FS_EmptySet
  <2> QED
    BY <2>1, Numbers
<1> QED
  BY <1>1, <1>2, <1>3, <1>4, <1>6, <1>7, <1>8, <1>9, Bounds, MovesKeeps

LEMMA DeliverSteerKeeps ==
    ASSUME AgentInv, NEW call \in calls, DeliverSteer(call)
    PROVE  AgentInv'
<1>1. /\ UNCHANGED <<run, chan, seen, modes, smart, target, events, taken, settled, clicked>>
      /\ call.t = "steer" /\ calls' = calls \ {call} /\ call \in Call
  BY Bounds DEF DeliverSteer, Quiet, History
<1>2. /\ call.steer \in Steers /\ ui.steers[call.steer] # "none"
      /\ call.steer \notin reg.mail \cup run.steers \cup seen
      /\ \A other \in calls' : other.t = "steer" => other.steer \in Steers /\ other.steer # call.steer
  <2>1. \A other \in Call : other.t = "steer" => other = [t |-> "steer", steer |-> other.steer]
    BY DEF Call
  <2> QED
    BY <1>1, <2>1, Bounds, CallFields DEF AgentInv, MailInv
<1>3. ui.steers[call.steer] # "delivered"
  <2>1. call.steer \notin seen
    BY <1>2
  <2>2. DeliveredNow \subseteq seen
    BY DEF AgentInv, ToldInv
  <2> QED
    BY <1>2, <2>1, <2>2 DEF DeliveredNow
<1>4. calls' \subseteq calls /\ calls' \subseteq Call
  BY <1>1, Bounds
<1>5. \A other : Result(other)' = Result(other)
  <2>1. \A other : other.t = "result" => (other \in calls') = (other \in calls)
    BY <1>1
  <2> QED
    BY <2>1 DEF Result
<1>6. [t |-> "cancel"] \in calls' => ~Following
  BY <1>4 DEF AgentInv, EndInv
<1>7. CASE SteerAccepted
  <2>1. /\ ui' = ui /\ reg.open /\ Cardinality(reg.mail) < MaxMail
        /\ reg' = [reg EXCEPT !.mail = reg.mail \cup {call.steer}]
    BY <1>7 DEF DeliverSteer, SteerAccepted
  <2>2. /\ reg' \in RegRow /\ reg'.mode = reg.mode /\ reg'.gate = reg.gate /\ reg'.pty = reg.pty
        /\ reg'.open = reg.open /\ reg'.cancelled = reg.cancelled
        /\ reg'.mail = reg.mail \cup {call.steer}
    BY <1>2, <2>1, Bounds DEF RegRow
  <2>3. Cardinality(reg'.mail) <= MaxMail
    <3>1. IsFiniteSet(reg.mail)
      BY RunAssumption, FS_Subset, Bounds DEF RegRow
    <3>2. Cardinality(reg'.mail) = Cardinality(reg.mail) + 1 /\ Cardinality(reg.mail) \in Nat
      BY <1>2, <2>2, <3>1, FS_AddElement, FS_CardinalityType
    <3> QED
      BY <2>1, <3>2, Numbers
  <2>4. GateInv' /\ TokenInv'
    BY <1>1, <1>4, <1>5, <2>1, <2>2, Bounds, GateStays, TokenStays
  <2>5. MailInv'
    BY <1>1, <1>2, <1>4, <2>1, <2>2 DEF AgentInv, MailInv
  <2>6. NothingIsLeftBehind'
    BY <1>1, <2>1, <2>2 DEF AgentInv, EndInv, NothingIsLeftBehind, Following
  <2>7. [t |-> "cancel"] \in calls' \/ reg'.cancelled => ~Following
    BY <1>6, <2>2 DEF AgentInv, EndInv
  <2> QED
    BY <1>1, <1>4, <2>1, <2>2, <2>3, <2>4, <2>5, <2>6, <2>7, Bounds, MovesKeeps
<1>8. CASE ~SteerAccepted
  <2> DEFINE new == [ui.steers EXCEPT ![call.steer] = "undelivered"]
  <2>1. reg' = reg /\ ui' = [ui EXCEPT !.steers = new]
    BY <1>8 DEF DeliverSteer
  <2>2. /\ new \in [Steers -> {"none", "queued", "delivered", "undelivered"}]
        /\ \A s \in Steers : (new[s] = "delivered") = (ui.steers[s] = "delivered")
        /\ \A s \in Steers : ui.steers[s] # "none" => new[s] # "none"
    <3>1. ui.steers \in [Steers -> {"none", "queued", "delivered", "undelivered"}]
      BY Bounds, UiFields
    <3> QED
      BY <1>2, <1>3, <3>1
  <2> HIDE DEF new
  <2>3. /\ ui' \in UiRow /\ ui'.state = ui.state /\ ui'.card = ui.card /\ ui'.job = ui.job
        /\ ui'.jobGate = ui.jobGate /\ ui'.saved = ui.saved /\ ui'.steers = new
    BY <2>1, <2>2, Bounds DEF UiRow
  <2>4. GateInv' /\ TokenInv' /\ MailInv'
    BY <1>1, <1>4, <1>5, <2>1, <2>2, <2>3, Bounds, GateStays, TokenStays, MailStays
  <2>5. NothingIsLeftBehind' /\ (reg'.cancelled => ~Following)
    BY <1>1, <2>1, <2>3 DEF AgentInv, EndInv, NothingIsLeftBehind, Following
  <2> QED
    BY <1>1, <1>4, <1>6, <2>1, <2>2, <2>3, <2>4, <2>5, Bounds, MovesKeeps
<1> QED
  BY <1>7, <1>8

-----------------------------------------------------------------------------
(* The command in the terminal.                                            *)

LEMMA ReportKeeps ==
    ASSUME AgentInv, ui.job # "none", NEW outcome \in Outcome, Report(outcome),
           UNCHANGED <<run, reg, chan, seen, modes, smart, target, events, taken, clicked>>,
           settled \subseteq settled', settled' \subseteq taken,
           outcome = "completed" => run.gates \in settled',
           outcome = "notStarted" => run.gates \notin taken
    PROVE  AgentInv'
<1> DEFINE result == [t |-> "result", gate |-> ui.jobGate, outcome |-> outcome]
<1>1. /\ Following /\ ui.jobGate = run.gates /\ run.gates > 0 /\ run.pc \in Away /\ ~Reported
      /\ (\A call \in calls : ~Result(call)) /\ \A i \in DOMAIN chan : ~Told(i)
  BY DEF AgentInv, TokenInv
<1>2. ui' = [ui EXCEPT !.job = "none", !.jobGate = 0] /\ calls' = calls \cup {result}
  BY <1>1 DEF Report, Sent
<1>3. /\ ui' \in UiRow /\ ui'.state = ui.state /\ ui'.card = ui.card /\ ui'.job = "none"
      /\ ui'.jobGate = 0 /\ ui'.saved = ui.saved /\ ui'.steers = ui.steers
  BY <1>2, Bounds DEF UiRow
<1>4. /\ result \in Call /\ result.t = "result" /\ result.gate = run.gates
      /\ result.outcome = outcome
  BY <1>1, Bounds, Calls
<1>5. \A call \in calls' : call \in calls \/ call = result
  BY <1>2
<1> HIDE DEF result
<1>6. calls' \subseteq Call
  BY <1>4, <1>5, Bounds
<1>7. GateInv' /\ MailInv'
  BY <1>3, <1>4, <1>5, <1>6, Bounds, GateStays, MailStays
<1>8. TokenInv'
  <2>1. \A call \in calls' : Result(call)' => call = result
    BY <1>1, <1>5 DEF Result
  <2>2. \A i \in DOMAIN chan' : ~(Told(i)')
    BY <1>1 DEF Told
  <2>3. ~Reported'
    BY <1>1 DEF Reported
  <2> QED
    BY <1>1, <1>3, <1>4, <2>1, <2>2, <2>3 DEF AgentInv, TokenInv
<1>9. NothingIsLeftBehind'
  BY <1>3 DEF AgentInv, EndInv, NothingIsLeftBehind
<1>10. [t |-> "cancel"] \in calls' \/ reg'.cancelled => ~Following
  BY <1>4, <1>5 DEF AgentInv, EndInv
<1> QED
  BY <1>3, <1>6, <1>7, <1>8, <1>9, <1>10, Bounds, MovesKeeps

LEMMA PreflightFailsKeeps ==
    ASSUME AgentInv, NEW outcome \in {"notStarted", "refused"}, PreflightFails(outcome)
    PROVE  AgentInv'
<1>1. /\ UNCHANGED <<run, reg, chan, seen, modes, smart, target, events, taken, settled, clicked>>
      /\ ui.job = "preflight" /\ Report(outcome)
  BY BackendKept DEF PreflightFails, History
<1>2. run.gates \notin taken /\ ui.job # "none"
  BY <1>1 DEF AgentInv, TokenInv
<1>3. outcome \in Outcome /\ outcome # "completed"
  BY DEF Outcome
<1> QED
  BY <1>1, <1>2, <1>3, Bounds, ReportKeeps

LEMMA CommandEndsKeeps ==
    ASSUME AgentInv, NEW outcome \in {"completed", "unknown"}, CommandEnds(outcome)
    PROVE  AgentInv'
<1>1. /\ UNCHANGED <<run, reg, chan, seen, modes, smart, target, events, taken, clicked>>
      /\ ui.job = "typed" /\ Report(outcome)
      /\ settled' = IF outcome = "completed" THEN settled \cup {ui.jobGate} ELSE settled
  BY BackendKept DEF CommandEnds
<1>2. run.gates \in taken /\ ui.job # "none" /\ ui.jobGate = run.gates
  BY <1>1 DEF AgentInv, TokenInv
<1>3. outcome \in Outcome /\ outcome # "notStarted"
  BY DEF Outcome
<1>4. /\ settled \subseteq settled' /\ settled' \subseteq taken
      /\ outcome = "completed" => run.gates \in settled'
  BY <1>1, <1>2, Bounds
<1> QED
  BY <1>1, <1>2, <1>3, <1>4, ReportKeeps

LEMMA TypeKeeps == ASSUME AgentInv, Type PROVE AgentInv'
<1>1. /\ UNCHANGED <<run, reg, chan, seen, modes, smart, target, events>> /\ ui.job = "preflight"
  BY BackendKept DEF Type
<1>2. CASE ~CanWrite
  <2>1. Stopping(calls) /\ UNCHANGED <<taken, settled, clicked>>
    BY <1>2 DEF Type, History
  <2>2. calls \in SUBSET calls
    OBVIOUS
  <2> QED
    BY <1>1, <2>1, <2>2, Bounds, StopsKeeps
<1>3. CASE CanWrite
  <2>1. /\ ui' = [ui EXCEPT !.job = "typed"] /\ taken' = taken \cup {ui.jobGate}
        /\ UNCHANGED <<calls, settled, clicked>>
    BY <1>3 DEF Type
  <2>2. /\ Following /\ ui.jobGate = run.gates /\ run.gates > 0 /\ run.pc \in Away /\ ~Reported
        /\ (\A call \in calls : ~Result(call)) /\ (\A i \in DOMAIN chan : ~Told(i))
        /\ ui.job # "none"
    BY <1>1 DEF AgentInv, TokenInv
  <2>3. /\ ui' \in UiRow /\ ui'.state = ui.state /\ ui'.card = ui.card /\ ui'.job = "typed"
        /\ ui'.jobGate = run.gates /\ ui'.saved = ui.saved /\ ui'.steers = ui.steers
    BY <2>1, <2>2, Bounds DEF UiRow
  <2>4. WorldType'
    BY <1>1, <2>1, <2>2, <2>3, Bounds DEF AgentInv, WorldType
  <2>5. CountInv'
    BY <1>1, Bounds, CountStays DEF AgentInv, CountInv
  <2>6. VerdictInv'
    BY <1>1, <2>1, VerdictStays
  <2>7. GateInv' /\ MailInv'
    BY <1>1, <2>1, <2>3, Bounds, GateStays, MailStays
  <2>8. TokenInv'
    <3>1. \A call \in calls' : ~(Result(call)')
      BY <2>1, <2>2 DEF Result
    <3>2. \A i \in DOMAIN chan' : ~(Told(i)')
      BY <1>1, <2>2 DEF Told
    <3>3. reg.pty \notin Outcome
      BY <2>2 DEF Reported
    <3>4. reg.pty # "completed" /\ reg.pty # "notStarted"
      BY <3>3 DEF Outcome
    <3> QED
      BY <1>1, <2>1, <2>2, <2>3, <3>1, <3>2, <3>4 DEF AgentInv, TokenInv, Reported, Following
  <2>9. TakenInv'
    <3>1. run.pc \notin {"waiting", "dispatch"}
      BY <2>2 DEF Away
    <3> QED
      BY <1>1, <2>1, <2>2, <2>3, <3>1, Bounds DEF AgentInv, TakenInv, Following
  <2>10. EndInv'
    <3>1. NothingIsLeftBehind'
      BY <1>1, <2>2, <2>3 DEF AgentInv, EndInv, NothingIsLeftBehind, Following
    <3>2. [t |-> "cancel"] \in calls' \/ reg'.cancelled => ui'.state # "following"
      BY <1>1, <2>1, <2>3 DEF AgentInv, EndInv, Following
    <3>3. ui'.state = "ended" => run.pc = "ended"
      BY <2>2, <2>3 DEF Following
    <3> QED
      BY <1>1, <2>2, <2>3, <3>1, <3>2, <3>3, Bounds, EndStays
  <2>11. ToldInv'
    BY <1>1, <2>3, ToldStays
  <2> QED
    BY <2>4, <2>5, <2>6, <2>7, <2>8, <2>9, <2>10, <2>11 DEF AgentInv
<1> QED
  BY <1>2, <1>3

LEMMA SpontaneousKeeps == ASSUME AgentInv, Spontaneous PROVE AgentInv'
<1>1. \/ \E says \in Says : Answer(says)
      \/ Stop \/ TargetChanges
      \/ \E mode \in Mode : SetMode(mode)
      \/ \E s \in Steers : Steer(s)
      \/ \E outcome \in {"notStarted", "refused"} : PreflightFails(outcome)
      \/ Type
      \/ \E outcome \in {"completed", "unknown"} : CommandEnds(outcome)
  BY DEF Spontaneous, Says
<1> QED
  BY <1>1, AnswerKeeps, StopKeeps, TargetChangesKeeps, SetModeKeeps, SteerKeeps,
     PreflightFailsKeeps, TypeKeeps, CommandEndsKeeps

LEMMA StartsKeeps == ASSUME AgentInv, Start PROVE AgentInv'
<1>1. PICK mode \in StartModes : StartArrives(mode)
  BY DEF Start
<1>2. Register(mode) /\ UNCHANGED panel
  BY <1>1 DEF StartArrives, Quiet, History, panel
<1> QED
  BY <1>2, StartKeeps

-----------------------------------------------------------------------------
(* The theorems.                                                           *)

LEMMA InitInv == Init => AgentInv
<1> SUFFICES ASSUME Init
             PROVE  AgentInv
  OBVIOUS
<1>1. /\ run = [pc |-> "starting", iteration |-> 0, budget |-> MaxIterations,
                queued |-> {}, steers |-> {}, sent |-> {}, trimmed |-> FALSE, commands |-> 0, gates |-> 0,
                cmd |-> NoCommand, verdict |-> "unasked", kind |-> "none"]
      /\ reg = [mode |-> "absent", mail |-> {}, open |-> FALSE, gate |-> "none",
                pty |-> "none", cancelled |-> FALSE]
      /\ chan = <<>> /\ seen = {} /\ modes = {} /\ smart = "unasked"
      /\ ui = [state |-> "following", card |-> NoCard, job |-> "none", jobGate |-> 0,
               saved |-> {}, steers |-> [s \in Steers |-> "none"]]
      /\ target = TRUE /\ calls = {} /\ events = 0 /\ taken = {} /\ settled = {} /\ clicked = {}
  BY DEF Init, RunInit
<1>2. MaxIterations \in Nat /\ MaxMail \in Nat /\ MaxWork \in Nat /\ MaxEvents \in Nat
  BY Numbers
<1>3. run \in RunRow
  BY <1>1, <1>2 DEF RunRow, Inner, Verdict
<1>4. reg \in RegRow
  BY <1>1 DEF RegRow
<1>5. ui \in UiRow
  <2>1. NoCard \in [gate : Nat, kind : Kind \cup {"none"}]
    BY DEF NoCard
  <2>2. [s \in Steers |-> "none"] \in [Steers -> {"none", "queued", "delivered", "undelivered"}]
    OBVIOUS
  <2> QED
    BY <1>1, <2>1, <2>2 DEF UiRow
<1>6. chan \in Seq(Event) /\ Len(chan) = 0 /\ DOMAIN chan = {}
  BY <1>1
<1>7. WorldType
  BY <1>1, <1>3, <1>4, <1>5, <1>6 DEF WorldType, Verdict
<1>8. CountInv
  <2>1. Cardinality(reg.mail) = 0
    BY <1>1, FS_EmptySet
  <2>2. MaxIterations <= HardCap /\ 0 <= HardCap
    BY <1>2 DEF HardCap
  <2>3. /\ run.pc = "starting" /\ run.budget = MaxIterations /\ run.iteration = 0
        /\ run.gates = 0 /\ run.commands = 0 /\ events = 0 /\ reg.mode = "absent"
    BY <1>1
  <2>4. ~AsksAgain
    BY <2>3 DEF AsksAgain
  <2> QED
    BY <1>2, <2>1, <2>2, <2>3, <2>4 DEF CountInv, Counted, Inner
<1>9. GateInv
  BY <1>1, <1>6 DEF GateInv, Asked, NoCard
<1>10. VerdictInv
  BY <1>1 DEF VerdictInv, Remembered, NothingRunsUnasked
<1>11. TokenInv /\ TakenInv
  BY <1>1, <1>6 DEF TokenInv, TakenInv
<1>12. EndInv
  BY <1>1, <1>6 DEF EndInv, NothingIsLeftBehind, Following
<1>13. DeliveredNow = {}
  BY <1>1 DEF DeliveredNow
<1>14. MailInv
  BY <1>1 DEF MailInv
<1>15. ToldInv
  <2>1. Talk(chan, {}, {}, {}, {})
    BY <1>6 DEF Talk, Coming
  <2> QED
    BY <1>1, <1>13, <2>1 DEF ToldInv
<1> QED
  BY <1>7, <1>8, <1>9, <1>10, <1>11, <1>12, <1>14, <1>15 DEF AgentInv

LEMMA NextInv == AgentInv /\ [Next]_vars => AgentInv'
<1> SUFFICES ASSUME AgentInv, [Next]_vars
             PROVE  AgentInv'
  OBVIOUS
<1>1. CASE UNCHANGED vars
  <2>1. /\ UNCHANGED <<run, reg, chan, seen, modes, smart>>
        /\ UNCHANGED <<ui, target, calls, taken, settled, clicked, events>>
    BY <1>1 DEF vars, backend, panel
  <2>2. GateInv' /\ MailInv' /\ NothingIsLeftBehind'
    BY <2>1 DEF AgentInv, EndInv, GateInv, MailInv, NothingIsLeftBehind, Asked, Following
  <2>3. \A other : Result(other)' = Result(other)
    BY <2>1 DEF Result
  <2>4. TokenInv'
    BY <2>1, <2>3, Bounds, TokenStays
  <2>5. [t |-> "cancel"] \in calls' \/ reg'.cancelled => ~Following
    BY <2>1 DEF AgentInv, EndInv
  <2> QED
    BY <2>1, <2>2, <2>4, <2>5, Bounds, MovesKeeps
<1>2. CASE Next
  BY <1>2, StartsKeeps, LoopKeeps, ReceiveKeeps, SpontaneousKeeps, DeliverAnswerKeeps,
     DeliverResultKeeps, DeliverSteerKeeps, CallFailsKeeps, DeliverCancelKeeps
     DEF Next, AnswersArrive, ResultsArrive, SteersArrive
<1> QED
  BY <1>1, <1>2

\* Every state of every agent run keeps the invariant.
THEOREM AgentInvariant == Spec => []AgentInv
  BY InitInv, NextInv, PTL DEF Spec

\* The world's types and bounds, for any bounds: the mode stays under the
\* ceiling of a schedule, and steering never buys more than the hard cap of
\* steps (Clamp, SetPermissionMode and Guard).
THEOREM AgentTypes == Spec => []TypeOK
<1>1. AgentInv => TypeOK
  <2> SUFFICES ASSUME AgentInv
               PROVE  TypeOK
    OBVIOUS
  <2>1. /\ run \in RunRow /\ reg \in RegRow /\ ui \in UiRow /\ run.gates \in Nat
        /\ MaxWork \in Nat /\ MaxEvents \in Nat /\ events \in Nat /\ events <= MaxEvents
    BY Bounds, Numbers
  <2>2. Cardinality(Gates) = MaxWork + MaxEvents
    <3>1. MaxWork + MaxEvents \in Nat
      BY <2>1
    <3> QED
      BY <2>1, <3>1, FS_Interval DEF Gates
  <2>3. run.commands \in Nat /\ run.commands <= MaxWork /\ run.gates <= run.commands + events
    BY <2>1 DEF AgentInv, CountInv, Counted, RunRow
  <2>4. run.gates <= MaxWork + MaxEvents
    BY <2>1, <2>3
  <2>5. run.gates \in 0 .. Cardinality(Gates) /\ run.commands \in 0 .. MaxWork
    BY <2>1, <2>2, <2>3, <2>4
  <2>6. run.iteration \in 0 .. HardCap /\ run.budget \in 0 .. HardCap
    <3>1. run.iteration \in Nat /\ run.budget \in Nat /\ HardCap \in Nat
      BY <2>1, Numbers DEF RunRow, HardCap
    <3> QED
      BY <3>1 DEF AgentInv, CountInv, Counted
  <2>7. reg.mode \in {"absent"} \cup {mode \in Mode : Rank(mode) <= Rank(Ceiling)}
    BY <2>1 DEF RegRow, AgentInv, CountInv
  <2>8. ui.jobGate \in 0 .. run.gates
    <3>1. ui.jobGate = 0 \/ ui.jobGate = run.gates
      BY DEF AgentInv, TokenInv
    <3> QED
      BY <2>1, <3>1
  <2>9. settled \subseteq taken /\ taken \subseteq Gates
    <3>1. \A g \in taken : g \in Nat /\ g > 0 /\ g <= run.gates
      BY DEF AgentInv, TakenInv, WorldType
    <3>2. \A g \in taken : g \in 1 .. (MaxWork + MaxEvents)
      BY <2>1, <2>4, <3>1
    <3> QED
      BY <3>2, Bounds DEF Gates
  <2>10. /\ run.steers \subseteq Steers /\ reg.mail \subseteq Steers
         /\ Cardinality(reg.mail) <= MaxMail
         /\ reg.gate \in {"none", "waiting", "dropped", "run", "skip", "stop"}
         /\ reg.pty \in {"none", "waiting", "dropped"} \cup Outcome
    BY <2>1, Bounds DEF RunRow, RegRow, Says
  <2>11. /\ ui.state \in {"following", "retired", "ended"}
         /\ ui.job \in {"none", "preflight", "typed"}
         /\ ui.steers \in [Steers -> {"none", "queued", "delivered", "undelivered"}]
    BY <2>1, UiFields
  <2> QED
    BY <2>5, <2>6, <2>7, <2>8, <2>9, <2>10, <2>11 DEF TypeOK
<1> QED
  BY <1>1, AgentInvariant, PTL

\* Whatever the operator, the panel and the channel do, no command is sent to
\* the terminal without the operator's click on its own gate or a mode in
\* force that runs it (the re-check after the wait in agent/run.rs).
THEOREM CommandsAreAsked == Spec => []NothingRunsUnasked
<1>1. AgentInv => NothingRunsUnasked
  BY DEF AgentInv, VerdictInv
<1> QED
  BY <1>1, AgentInvariant, PTL

\* What the panel says of a steering message is true, however the events and
\* the calls overtake one another (Guard and the restored transcript of a
\* failed round, SteerDelivered and Checkpoint).
THEOREM SteersTold == Spec => []SteersToldTruly
<1>1. AgentInv => SteersToldTruly
  BY DEF AgentInv, ToldInv, SteersToldTruly, DeliveredNow
<1> QED
  BY <1>1, AgentInvariant, PTL

\* A run that is over leaves no registration, and a panel that let go of it
\* holds no command (agent_start's end and abortSession).
THEOREM NothingLeft == Spec => []NothingIsLeftBehind
<1>1. AgentInv => NothingIsLeftBehind
  BY DEF AgentInv, EndInv
<1> QED
  BY <1>1, AgentInvariant, PTL
=============================================================================
