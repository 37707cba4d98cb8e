--------------------------- MODULE ScheduleProofs ---------------------------
(***************************************************************************)
(* What is proved of scheduled actions for any number of actions, runs,    *)
(* steps, events and any plans.  The properties are not inductive by       *)
(* themselves: each follows from what the task of a run and the driver of  *)
(* its tab may find in its row (Staged, Recorded, Earned), from who holds  *)
(* the permit (PermitInv), from the rows the list points at (ListInv), from*)
(* run numbers being issued in order (InOrder), from a run that ended,     *)
(* unless torn by a process loss, having no open step (ClosedInv), and the *)
(* contract from where the next fire of a row lies beside what is accounted*)
(* for (PastInv).                                                          *)
(***************************************************************************)
EXTENDS ScheduledProperties, SequenceTheorems, FiniteSetTheorems, TLAPS

RunStatuses == InFlight \cup Ended \cup {"absent", "deleted"}
Triggers == {"none", "schedule", "catch_up", "manual"}
Occurrences == {<<>>} \cup (Actions \X Int \X Nat \X Nat)
RunRow ==
    [status : RunStatuses, action : Actions \cup {NoAction}, trigger : Triggers,
     plan : Actions \cup {NoAction}, occurrence : Occurrences, attempts : Seq(AttemptStates)]
ActionRow ==
    [exists : BOOLEAN, enabled : BOOLEAN, anchor : Int, zone : Zones, next : Int,
     lastRun : Runs \cup {NoRun}, lastStatus : RunStatuses \cup {"none"}, era : Nat]
LoopRow ==
    [pc : {"top", "leaving", "rescheduling", "deciding", "spawning", "off"},
     running : BOOLEAN, now : Int, era : Nat, last : Int]

\* What the loop, the list and the settings hold.
WorldType ==
    /\ actions \in [Actions -> ActionRow] /\ loop \in LoopRow
    /\ gate \in BOOLEAN /\ clock \in Nat /\ zone \in Zones /\ era \in Nat
    /\ cancels \in [Runs -> {"none", "armed", "sent"}] /\ permit \in Runs \cup {NoRun}
    /\ torn \in SUBSET Runs

\* The functions that describe a run, their rows apart.
MemoryType ==
    /\ runs \in [Runs -> RunRow]
    /\ tasks \in [Runs -> TaskStates] /\ drivers \in [Runs -> DriverStates]
    /\ did \in [Runs -> SUBSET Nat]

Walk == {"walking", "dispatching", "executing", "failing", "cancelling"}
Holding == Walk \cup {"starting", "watching"}
Over == {"releasing", "done"}
Intending == {"leased", "cleared"}

\* Where a run's task and its tab can be, by its status.
Staged(row, task, driver) ==
    /\ row.status = "absent" => task = "none" /\ driver = "none"
    /\ row.status # "absent" => row.plan \in Actions
    /\ row.status \in InFlight => task \notin {"none"} \cup Over
    /\ task \in {"committed", "queued"} => row.status = FirstStatus(row.plan)
    /\ task = "starting" => row.status = "pending"
    /\ task \in Walk => row.status = "running"
    /\ task \in Walk \cup {"starting"} => ~IsTab(row.plan)
    /\ task = "watching" => row.status # "pending" /\ IsTab(row.plan)
    /\ driver # "none" => task \in {"watching"} \cup Over

\* What its record says of the steps that reached a shell.
Recorded(row, task, driver, done) ==
    LET n == Len(row.attempts)
    IN  /\ row.status = "absent" => done = {} /\ row.attempts = <<>>
                                    /\ row.action = NoAction /\ row.occurrence = <<>>
        /\ row.status # "absent" => n <= Plan[row.plan].steps
        /\ row.status # "deleted" =>
              /\ done \subseteq 1..n
              /\ \A i \in done : row.attempts[i] \notin {"skipped", "blocked"}
              /\ \A i \in 1..n : row.attempts[i] = "succeeded" => i \in done
              /\ driver \in Intending => n >= 1 /\ row.attempts[n] \notin {"skipped", "blocked"}
              /\ driver = "typing" => n \in done
        /\ task = "dispatching" => n >= 1 /\ n \notin done
        /\ task = "executing" => n \in done
        /\ row.status \in InFlight /\ (task = "dispatching" \/ driver \in Intending) =>
              row.attempts[n] = "running"
        /\ row.status \in InFlight /\ task # "failing" =>
              \A i \in 1..n : row.attempts[i] # "skipped"

AllSucceeded(row) ==
    /\ Len(row.attempts) = Plan[row.plan].steps
    /\ \A i \in 1..Len(row.attempts) : row.attempts[i] = "succeeded"

\* Success, written or about to be reported by the tab, is a whole walk.
Earned(row, driver) ==
    /\ row.status = "succeeded" => AllSucceeded(row)
    /\ driver \in {"report_succeeded", "succeeded"} /\ row.status \in InFlight => AllSucceeded(row)

Sound(row, task, driver, done) ==
    Staged(row, task, driver) /\ Recorded(row, task, driver, done) /\ Earned(row, driver)

RunsInv == MemoryType /\ \A r \in Runs : Sound(runs[r], tasks[r], drivers[r], did[r])
PermitInv == \A r \in Runs : tasks[r] \in Holding => permit = r

\* The list points at the run that is going and repeats its status.
ListedInv == \A a \in Actions :
    /\ ~actions[a].exists => actions[a].lastRun = NoRun
    /\ actions[a].lastRun # NoRun =>
          /\ runs[actions[a].lastRun].status # "absent"
          /\ runs[actions[a].lastRun].status # "deleted" /\ actions[a].lastRun \notin torn =>
                actions[a].lastStatus = runs[actions[a].lastRun].status
OwnedInv == \A r \in Runs : runs[r].action # NoAction =>
    /\ actions[runs[r].action].exists
    /\ runs[r].status \in InFlight => actions[runs[r].action].lastRun = r
ListInv == ListedInv /\ OwnedInv
InOrder == \E n \in 0..MaxRuns : \A r \in Runs : runs[r].status # "absent" <=> r <= n

ScheduleInv == WorldType /\ RunsInv /\ PermitInv /\ ListInv /\ InOrder

\* A run whose verdict was cut in two is over; no other run that is over has
\* an open step.
ClosedInv == \A r \in Runs :
    /\ r \in torn => runs[r].status \in Ended \cup {"deleted"}
    /\ runs[r].status \in Ended /\ r \notin torn =>
          \A i \in DOMAIN runs[r].attempts : runs[r].attempts[i] # "running"

-----------------------------------------------------------------------------
(* Attempts.                                                               *)

USE DEF Intending

LEMMA SequenceOf ==
    ASSUME NEW S, NEW n \in Nat, NEW f \in [1..n -> S]
    PROVE  f \in Seq(S) /\ Len(f) = n /\ DOMAIN f = 1..n
<1>1. f \in Seq(S)
  BY SeqDef
<1>2. DOMAIN f = 1..Len(f) /\ Len(f) \in Nat
  BY <1>1, LenProperties
<1>3. DOMAIN f = 1..n
  OBVIOUS
<1> QED
  BY <1>1, <1>2, <1>3

LEMMA UnsettledFacts ==
    ASSUME NEW s \in Seq(AttemptStates)
    PROVE  /\ Unsettled(s) \in Seq(AttemptStates) /\ Len(Unsettled(s)) = Len(s)
           /\ \A i \in 1..Len(s) :
                 Unsettled(s)[i] = IF s[i] = "running" THEN "unknown" ELSE s[i]
<1>1. Len(s) \in Nat /\ DOMAIN s = 1..Len(s) /\ \A i \in 1..Len(s) : s[i] \in AttemptStates
  BY LenProperties
<1>2. Unsettled(s) \in [1..Len(s) -> AttemptStates]
  BY <1>1 DEF Unsettled, AttemptStates
<1>3. \A i \in 1..Len(s) : Unsettled(s)[i] = IF s[i] = "running" THEN "unknown" ELSE s[i]
  BY <1>1 DEF Unsettled
<1> QED
  BY <1>1, <1>2, <1>3, SequenceOf

LEMMA PaddedFacts ==
    ASSUME NEW s \in Seq(AttemptStates), NEW k \in Nat, Len(s) <= k
    PROVE  LET t == s \o [i \in 1..(k - Len(s)) |-> "skipped"]
           IN  /\ t \in Seq(AttemptStates) /\ Len(t) = k
               /\ \A i \in 1..Len(s) : t[i] = s[i]
               /\ \A i \in 1..k : i > Len(s) => t[i] = "skipped"
<1> DEFINE m == k - Len(s)
           p == [i \in 1..m |-> "skipped"]
<1>1. Len(s) \in Nat /\ m \in Nat
  BY LenProperties
<1>2. p \in [1..m -> AttemptStates]
  BY DEF AttemptStates
<1>3. p \in Seq(AttemptStates) /\ Len(p) = m
  BY <1>1, <1>2, SequenceOf
<1> HIDE DEF p
<1>4. /\ s \o p \in Seq(AttemptStates) /\ Len(s \o p) = Len(s) + Len(p)
      /\ \A i \in 1..(Len(s) + Len(p)) :
            (s \o p)[i] = IF i <= Len(s) THEN s[i] ELSE p[i - Len(s)]
  BY <1>3, ConcatProperties
<1>5. \A j \in 1..m : p[j] = "skipped"
  BY DEF p
<1>6. Len(s \o p) = k /\ Len(s) + Len(p) = k
  BY <1>1, <1>3, <1>4
<1>7. \A i \in 1..Len(s) : (s \o p)[i] = s[i]
  BY <1>1, <1>3, <1>4
<1>8. \A i \in 1..k : i > Len(s) => (s \o p)[i] = "skipped"
  <2> SUFFICES ASSUME NEW i \in 1..k, i > Len(s)
               PROVE  (s \o p)[i] = "skipped"
    OBVIOUS
  <2>1. i - Len(s) \in 1..m
    BY <1>1
  <2>2. (s \o p)[i] = p[i - Len(s)]
    BY <1>1, <1>3, <1>4
  <2> QED
    BY <1>5, <2>1, <2>2
<1> QED
  BY <1>4, <1>6, <1>7, <1>8 DEF p

-----------------------------------------------------------------------------
(* One run: what each kind of write does to its row.                       *)

Attempted(row, attempts) == [row EXCEPT !.attempts = attempts]
Written(row, status) ==
    [row EXCEPT !.status = status,
                !.attempts = IF status \in Ended THEN Unsettled(@) ELSE @]

LEMMA AttemptsTyped ==
    ASSUME NEW row \in RunRow
    PROVE  /\ row.attempts \in Seq(AttemptStates) /\ Len(row.attempts) \in Nat
           /\ DOMAIN row.attempts = 1..Len(row.attempts)
           /\ \A i \in 1..Len(row.attempts) : row.attempts[i] \in AttemptStates
<1>1. row.attempts \in Seq(AttemptStates)
  BY DEF RunRow
<1> QED
  BY <1>1, LenProperties

LEMMA AttemptedRow ==
    ASSUME NEW row \in RunRow, NEW s \in Seq(AttemptStates)
    PROVE  /\ Attempted(row, s) \in RunRow /\ Attempted(row, s).attempts = s
           /\ Attempted(row, s).status = row.status /\ Attempted(row, s).plan = row.plan
           /\ Attempted(row, s).action = row.action
           /\ Attempted(row, s).occurrence = row.occurrence
BY DEF RunRow, Attempted

LEMMA WrittenRow ==
    ASSUME NEW row \in RunRow, NEW status \in RunStatuses
    PROVE  /\ Written(row, status) \in RunRow /\ Written(row, status).status = status
           /\ Written(row, status).plan = row.plan /\ Written(row, status).action = row.action
           /\ Written(row, status).occurrence = row.occurrence
           /\ Written(row, status).attempts =
                 IF status \in Ended THEN Unsettled(row.attempts) ELSE row.attempts
<1>1. Unsettled(row.attempts) \in Seq(AttemptStates)
  BY AttemptsTyped, UnsettledFacts
<1> QED
  BY <1>1 DEF RunRow, Written

\* Ending an open run: nothing stays open in its record.
LEMMA EndedIsSound ==
    ASSUME NEW row \in RunRow, NEW task, NEW driver, NEW done \in SUBSET Nat,
           NEW status \in {"succeeded", "failed", "cancelled", "interrupted"},
           NEW task2, NEW driver2,
           Sound(row, task, driver, done), row.status \in InFlight,
           status = "succeeded" => AllSucceeded(row),
           task2 \in Over \/ (task2 = "watching" /\ task = "watching"),
           driver2 = driver \/ driver2 = "none"
    PROVE  /\ Written(row, status) \in RunRow
           /\ Sound(Written(row, status), task2, driver2, done)
<1> DEFINE new == Written(row, status)
           n == Len(row.attempts)
<1>1. /\ new \in RunRow /\ new.status = status /\ new.plan = row.plan
      /\ new.attempts = Unsettled(row.attempts)
  BY WrittenRow DEF Ended, RunStatuses
<1>2. /\ n \in Nat /\ Len(new.attempts) = n
      /\ \A i \in 1..n : new.attempts[i] =
            IF row.attempts[i] = "running" THEN "unknown" ELSE row.attempts[i]
  BY <1>1, AttemptsTyped, UnsettledFacts
<1>3. status \in Ended /\ status \notin InFlight \cup {"absent", "deleted"}
      /\ row.status \notin {"absent", "deleted"}
  BY DEF Ended, InFlight
<1> HIDE DEF new, n
<1>4. Staged(new, task2, driver2)
  BY <1>1, <1>3 DEF Sound, Staged, Over, Walk, InFlight
<1>5. Recorded(row, task, driver, done)
  BY DEF Sound
<1>6. /\ n <= Plan[row.plan].steps /\ done \subseteq 1..n
      /\ \A i \in done : row.attempts[i] \notin {"skipped", "blocked"}
      /\ \A i \in 1..n : row.attempts[i] = "succeeded" => i \in done
      /\ driver \in Intending => n >= 1 /\ row.attempts[n] \notin {"skipped", "blocked"}
      /\ driver = "typing" => n \in done
  BY <1>5, <1>3 DEF Recorded, n
<1>7. \A i \in 1..n : new.attempts[i] # "running"
  BY <1>2
<1>8. \A i \in done : new.attempts[i] \notin {"skipped", "blocked"}
  BY <1>2, <1>6
<1>9. \A i \in 1..n : new.attempts[i] = "succeeded" => i \in done
  BY <1>2, <1>6
<1>10. Recorded(new, task2, driver2, done)
  BY <1>1, <1>2, <1>3, <1>6, <1>7, <1>8, <1>9 DEF Recorded, Over
<1>11. AllSucceeded(row) => AllSucceeded(new)
  BY <1>1, <1>2 DEF AllSucceeded, n
<1>12. Earned(new, driver2)
  BY <1>1, <1>3, <1>11 DEF Earned
<1> QED
  BY <1>1, <1>4, <1>10, <1>12 DEF Sound, new

\* A run that is over stays sound wherever its task and its tab go.
LEMMA OverIsSound ==
    ASSUME NEW row, NEW task, NEW driver, NEW done, NEW task2, NEW driver2,
           Sound(row, task, driver, done), row.status \in Ended \cup {"deleted"},
           task2 \in Over \/ (task2 = "watching" /\ task = "watching"),
           driver2 = driver \/ driver2 \notin {"typing"} \cup Intending
    PROVE  Sound(row, task2, driver2, done)
<1>1. row.status \notin InFlight /\ row.status # "absent"
  BY DEF InFlight, Ended
<1>2. Staged(row, task2, driver2)
  BY <1>1 DEF Sound, Staged, Over, Walk
<1>3. Recorded(row, task2, driver2, done)
  BY <1>1 DEF Sound, Recorded, Over
<1>4. Earned(row, driver2)
  BY <1>1 DEF Sound, Earned
<1> QED
  BY <1>2, <1>3, <1>4 DEF Sound

\* Marking an open run as running: the task took it, or the tab attached.
LEMMA RunningIsSound ==
    ASSUME NEW row \in RunRow, NEW task, NEW driver, NEW done \in SUBSET Nat, NEW task2,
           NEW driver2, Sound(row, task, driver, done), row.status \in InFlight,
           \/ task = "starting" /\ task2 \in {"walking", "failing"} /\ driver2 = driver
           \/ task = "watching" /\ task2 = task /\ driver2 = "ready"
    PROVE  Written(row, "running") \in RunRow /\ Sound(Written(row, "running"), task2, driver2, done)
<1> DEFINE new == Written(row, "running")
<1>1. /\ new \in RunRow /\ new.status = "running" /\ new.plan = row.plan
      /\ new.attempts = row.attempts
  BY WrittenRow DEF Ended, RunStatuses, InFlight
<1>2. row.status \notin {"absent", "deleted"} \cup Ended
  BY DEF Ended, InFlight
<1> HIDE DEF new
<1>3. Staged(new, task2, driver2)
  BY <1>1, <1>2 DEF Sound, Staged, Over, Walk, InFlight
<1>4. Recorded(new, task2, driver2, done)
  BY <1>1, <1>2 DEF Sound, Recorded, Ended, InFlight
<1>5. Earned(new, driver2)
  BY <1>1, <1>2 DEF Sound, Earned, Staged
<1> QED
  BY <1>1, <1>3, <1>4, <1>5 DEF Sound, new

Padded(row, s) == s \o [i \in 1..(Plan[row.plan].steps - Len(s)) |-> "skipped"]

LEMMA StepsTyped ==
    \A a \in Actions : Plan[a].steps \in Nat /\ Plan[a].steps >= 1
BY PlanAssumption

\* The intent of the next step, written by the task or by the tab.
LEMMA OpenedIsSound ==
    ASSUME NEW row \in RunRow, NEW task, NEW driver, NEW done \in SUBSET Nat, NEW task2,
           NEW driver2, Sound(row, task, driver, done), row.status = "running",
           Len(row.attempts) < Plan[row.plan].steps,
           \/ task = "walking" /\ task2 = "dispatching" /\ driver2 = driver
           \/ task = "watching" /\ task2 = task /\ driver2 = "leased"
    PROVE  LET new == Attempted(row, Append(row.attempts, "running"))
           IN  new \in RunRow /\ Sound(new, task2, driver2, done)
<1> DEFINE s == Append(row.attempts, "running")
           n == Len(row.attempts)
           new == Attempted(row, s)
<1>1. row.attempts \in Seq(AttemptStates) /\ n \in Nat /\ "running" \in AttemptStates
  BY AttemptsTyped DEF AttemptStates
<1>2. /\ s \in Seq(AttemptStates) /\ Len(s) = n + 1 /\ s[n + 1] = "running"
      /\ \A i \in 1..n : s[i] = row.attempts[i]
  BY <1>1, AppendProperties
<1> HIDE DEF s
<1>3. new \in RunRow /\ new.attempts = s /\ new.status = "running" /\ new.plan = row.plan
  BY <1>2, AttemptedRow
<1> HIDE DEF new
<1>4. Staged(new, task2, driver2)
  BY <1>3 DEF Sound, Staged, Walk, Over, InFlight
<1>5. row.plan \in Actions /\ n + 1 <= Plan[row.plan].steps
  BY <1>1, StepsTyped DEF Sound, Staged
<1>6. Recorded(row, task, driver, done)
  BY DEF Sound
<1>7. task # "failing" /\ task2 # "failing" /\ task2 # "executing" /\ driver2 # "typing" /\ row.status \in InFlight
  BY DEF Sound, Staged, Over, InFlight
<1>8. /\ done \subseteq 1..n
      /\ \A i \in done : row.attempts[i] \notin {"skipped", "blocked"}
      /\ \A i \in 1..n : row.attempts[i] = "succeeded" => i \in done
      /\ \A i \in 1..n : row.attempts[i] # "skipped"
  BY <1>6, <1>7 DEF Recorded, n
<1>9. /\ done \subseteq 1..(n + 1)
      /\ \A i \in done : s[i] \notin {"skipped", "blocked"}
      /\ \A i \in 1..(n + 1) : s[i] = "succeeded" => i \in done
      /\ \A i \in 1..(n + 1) : s[i] # "skipped"
      /\ n + 1 >= 1 /\ n + 1 \notin done
  <2>1. \A i \in 1..(n + 1) : i \in 1..n \/ i = n + 1
    BY <1>1
  <2>2. n + 1 \notin 1..n /\ n + 1 >= 1 /\ 1..n \subseteq 1..(n + 1)
    BY <1>1
  <2> QED
    BY <1>2, <1>8, <2>1, <2>2
<1>10. Recorded(new, task2, driver2, done)
  BY <1>2, <1>3, <1>5, <1>7, <1>9 DEF Recorded, Ended
<1>11. Earned(new, driver2)
  <2>1. CASE driver2 = "leased"
    BY <1>3, <2>1 DEF Earned
  <2>2. CASE driver2 = driver /\ task = "walking"
    BY <1>3, <2>2 DEF Sound, Staged, Earned, Over
  <2> QED
    BY <2>1, <2>2
<1> QED
  BY <1>3, <1>4, <1>10, <1>11 DEF Sound, new, s

\* The steps that are not reached are recorded as skipped, and the run fails.
LEMMA PaddedIsSound ==
    ASSUME NEW row \in RunRow, NEW task \in Walk, NEW driver, NEW done \in SUBSET Nat,
           Sound(row, task, driver, done)
    PROVE  LET new == Attempted(row, Padded(row, row.attempts))
           IN  new \in RunRow /\ Sound(new, "failing", driver, done)
<1> DEFINE s == Padded(row, row.attempts)
           n == Len(row.attempts)
           k == Plan[row.plan].steps
           new == Attempted(row, s)
<1>1. row.status = "running" /\ row.plan \in Actions /\ driver = "none"
  BY DEF Sound, Staged, Walk, Over
<1>2. /\ n <= k /\ done \subseteq 1..n
      /\ \A i \in done : row.attempts[i] \notin {"skipped", "blocked"}
      /\ \A i \in 1..n : row.attempts[i] = "succeeded" => i \in done
  BY <1>1 DEF Sound, Recorded
<1>3. row.attempts \in Seq(AttemptStates) /\ n \in Nat /\ k \in Nat
  BY <1>1, AttemptsTyped, StepsTyped
<1>4. /\ s \in Seq(AttemptStates) /\ Len(s) = k
      /\ \A i \in 1..n : s[i] = row.attempts[i]
      /\ \A i \in 1..k : i > n => s[i] = "skipped"
  BY <1>2, <1>3, PaddedFacts DEF Padded
<1> HIDE DEF s
<1>5. new \in RunRow /\ new.attempts = s /\ new.status = "running" /\ new.plan = row.plan
  BY <1>1, <1>4, AttemptedRow
<1> HIDE DEF new, k
<1>6. Staged(new, "failing", driver)
  BY <1>1, <1>5 DEF Sound, Staged, Walk, Over, InFlight
<1>7. /\ done \subseteq 1..k /\ \A i \in done : s[i] \notin {"skipped", "blocked"}
      /\ \A i \in 1..k : s[i] = "succeeded" => i \in done
  <2>1. 1..n \subseteq 1..k /\ \A i \in 1..k : i \in 1..n \/ i > n
    BY <1>2, <1>3
  <2> QED
    BY <1>2, <1>4, <2>1
<1>8. Recorded(new, "failing", driver, done)
  BY <1>1, <1>3, <1>4, <1>5, <1>7 DEF Recorded, Ended, k
<1>9. Earned(new, driver)
  BY <1>1, <1>5 DEF Earned
<1> QED
  BY <1>5, <1>6, <1>8, <1>9 DEF Sound, new, s

\* The outcome of the step under way.
LEMMA SettledIsSound ==
    ASSUME NEW row \in RunRow, NEW task, NEW driver, NEW done \in SUBSET Nat, NEW task2,
           NEW driver2, Sound(row, task, driver, done), row.status \in InFlight,
           NEW status \in {"succeeded", "failed", "blocked", "cancelled", "unknown"},
           \/ /\ task \in {"dispatching", "executing"} /\ driver2 = driver
              /\ task2 \in {"walking", "cancelling", "failing"}
              /\ status = "blocked" => task = "dispatching"
              /\ status = "succeeded" => task = "executing"
           \/ /\ driver \in {"typing"} \cup Intending /\ task2 = task /\ status # "blocked"
              /\ driver2 \in {"ready", "report_failed", "report_cancelled"}
              /\ status = "succeeded" => driver = "typing"
    PROVE  LET new == Attempted(row, [row.attempts EXCEPT ![Len(row.attempts)] = status])
           IN  new \in RunRow /\ Sound(new, task2, driver2, done)
<1> DEFINE n == Len(row.attempts)
           s == [row.attempts EXCEPT ![n] = status]
           new == Attempted(row, s)
<1>1. row.attempts \in Seq(AttemptStates) /\ n \in Nat /\ status \in AttemptStates
  BY AttemptsTyped DEF AttemptStates
<1>2. row.status \notin {"absent", "deleted"} \cup Ended
  BY DEF InFlight, Ended
<1>3. /\ n <= Plan[row.plan].steps /\ done \subseteq 1..n
      /\ \A i \in done : row.attempts[i] \notin {"skipped", "blocked"}
      /\ \A i \in 1..n : row.attempts[i] = "succeeded" => i \in done
      /\ task # "failing" => \A i \in 1..n : row.attempts[i] # "skipped"
  BY <1>2 DEF Sound, Recorded
<1>4. task # "failing"
  BY DEF Sound, Staged, Over
<1>5. /\ task = "dispatching" => n >= 1 /\ n \notin done
      /\ task = "executing" => n \in done
      /\ driver \in Intending => n >= 1
      /\ driver = "typing" => n \in done
  BY <1>2 DEF Sound, Recorded
<1>6. n \in 1..n
  BY <1>1, <1>3, <1>5
<1>7. /\ s \in Seq(AttemptStates) /\ Len(s) = n
      /\ \A i \in 1..n : s[i] = IF i = n THEN status ELSE row.attempts[i]
  BY <1>1, <1>6, ExceptSeq
<1> HIDE DEF s
<1>8. new \in RunRow /\ new.attempts = s /\ new.status = row.status /\ new.plan = row.plan
  BY <1>7, AttemptedRow
<1> HIDE DEF new
<1>9. Staged(new, task2, driver2)
  BY <1>2, <1>8 DEF Sound, Staged, Walk, Over, InFlight
<1>10. status = "blocked" => n \notin done
  BY <1>5 DEF Sound, Staged, Over
<1>11. status = "succeeded" => n \in done
  BY <1>5
<1>12. /\ \A i \in done : s[i] \notin {"skipped", "blocked"}
       /\ \A i \in 1..n : s[i] = "succeeded" => i \in done
       /\ \A i \in 1..n : s[i] # "skipped"
  BY <1>3, <1>4, <1>7, <1>10, <1>11
<1>13. Recorded(new, task2, driver2, done)
  <2>1. task2 \notin {"dispatching", "executing"}
    BY DEF Sound, Staged, Over
  <2>2. driver2 \notin {"typing"} \cup Intending
    BY DEF Sound, Staged, Over, Intending
  <2> QED
    BY <1>2, <1>3, <1>7, <1>8, <1>12, <2>1, <2>2 DEF Recorded
<1>14. Earned(new, driver2)
  <2>1. driver2 \notin {"report_succeeded", "succeeded"}
    BY DEF Sound, Staged, Over
  <2> QED
    BY <1>2, <1>8, <2>1 DEF Earned, Ended
<1> QED
  BY <1>8, <1>9, <1>13, <1>14 DEF Sound, new, s

-----------------------------------------------------------------------------
(* The steps of a task and of a tab keep every run sound.                  *)

LEMMA Unmoved ==
    ASSUME NEW S, NEW T, NEW f \in [S -> T], NEW x \in S
    PROVE  f = [f EXCEPT ![x] = f[x]]
OBVIOUS

LEMMA OneRun ==
    ASSUME RunsInv, NEW r \in Runs, NEW row \in RunRow, NEW task \in TaskStates,
           NEW driver \in DriverStates, NEW done \in SUBSET Nat,
           Sound(row, task, driver, done),
           runs' = [runs EXCEPT ![r] = row], tasks' = [tasks EXCEPT ![r] = task],
           drivers' = [drivers EXCEPT ![r] = driver], did' = [did EXCEPT ![r] = done]
    PROVE  RunsInv'
<1>1. MemoryType'
  BY DEF RunsInv, MemoryType
<1>2. ASSUME NEW s \in Runs
      PROVE  Sound(runs'[s], tasks'[s], drivers'[s], did'[s])
  <2>1. CASE s = r
    BY <2>1 DEF RunsInv, MemoryType
  <2>2. CASE s # r
    <3>1. /\ runs'[s] = runs[s] /\ tasks'[s] = tasks[s]
          /\ drivers'[s] = drivers[s] /\ did'[s] = did[s]
      BY <2>2 DEF RunsInv, MemoryType
    <3> QED
      BY <3>1 DEF RunsInv
  <2> QED
    BY <2>1, <2>2
<1> QED
  BY <1>1, <1>2 DEF RunsInv

LEMMA StatusWritten ==
    ASSUME MemoryType, NEW r \in Runs, NEW status, SetRunStatus(r, status)
    PROVE  \/ /\ runs[r].status \in InFlight
              /\ runs' = [runs EXCEPT ![r] = Written(runs[r], status)]
           \/ runs[r].status \notin InFlight /\ runs' = runs
<1>1. CASE runs[r].status \in InFlight
  BY <1>1 DEF SetRunStatus, Written, MemoryType, RunRow
<1>2. CASE runs[r].status \notin InFlight
  BY <1>2 DEF SetRunStatus
<1> QED
  BY <1>1, <1>2

LEMMA RunTyped ==
    ASSUME RunsInv, NEW r \in Runs
    PROVE  /\ runs[r] \in RunRow /\ tasks[r] \in TaskStates /\ drivers[r] \in DriverStates
           /\ did[r] \in SUBSET Nat /\ Sound(runs[r], tasks[r], drivers[r], did[r])
           /\ runs[r].status \in RunStatuses
BY DEF RunsInv, MemoryType, RunRow

\* Ending a run, unless it has ended already.
LEMMA EndKeeps ==
    ASSUME RunsInv, NEW r \in Runs,
           NEW status \in {"succeeded", "failed", "cancelled"}, SetRunStatus(r, status),
           NEW task2 \in TaskStates, NEW driver2 \in DriverStates,
           runs[r].status # "absent",
           status = "succeeded" /\ runs[r].status \in InFlight => AllSucceeded(runs[r]),
           task2 \in Over \/ (task2 = "watching" /\ tasks[r] = "watching"),
           driver2 = drivers[r] \/ driver2 = "none",
           tasks' = [tasks EXCEPT ![r] = task2], drivers' = [drivers EXCEPT ![r] = driver2],
           did' = did
    PROVE  RunsInv'
<1>1. did' = [did EXCEPT ![r] = did[r]] /\ runs = [runs EXCEPT ![r] = runs[r]]
  BY Unmoved DEF RunsInv, MemoryType
<1>2. MemoryType
  BY DEF RunsInv
<1>3. CASE runs[r].status \in InFlight /\ runs' = [runs EXCEPT ![r] = Written(runs[r], status)]
  <2>1. /\ Written(runs[r], status) \in RunRow
        /\ Sound(Written(runs[r], status), task2, driver2, did[r])
    BY <1>3, RunTyped, EndedIsSound
  <2> QED
    BY <1>1, <1>3, <2>1, RunTyped, OneRun
<1>4. CASE runs[r].status \notin InFlight /\ runs' = runs
  <2>1. Sound(runs[r], task2, driver2, did[r])
    BY <1>4, RunTyped, OverIsSound DEF RunStatuses
  <2> QED
    BY <1>1, <1>4, <2>1, RunTyped, OneRun
<1> QED
  BY <1>2, <1>3, <1>4, StatusWritten

\* The row stays as it is.
LEMMA MoveKeeps ==
    ASSUME RunsInv, NEW r \in Runs, NEW task2 \in TaskStates, NEW driver2 \in DriverStates,
           NEW done2 \in SUBSET Nat, Sound(runs[r], task2, driver2, done2),
           runs' = runs, tasks' = [tasks EXCEPT ![r] = task2],
           drivers' = [drivers EXCEPT ![r] = driver2], did' = [did EXCEPT ![r] = done2]
    PROVE  RunsInv'
<1>1. runs' = [runs EXCEPT ![r] = runs[r]]
  BY Unmoved DEF RunsInv, MemoryType
<1> QED
  BY <1>1, RunTyped, OneRun

LEMMA Names ==
    /\ DOMAIN Verdicts = {"report_succeeded", "report_failed", "report_cancelled"}
    /\ Verdicts.report_succeeded = "succeeded" /\ Verdicts.report_failed = "failed"
    /\ Verdicts.report_cancelled = "cancelled"
    /\ {"none", "fired", "ready", "leased", "cleared", "typing", "report_succeeded", "report_failed",
        "report_cancelled", "succeeded", "failed", "cancelled"} \subseteq DriverStates
    /\ Holding \cup Over \cup {"none", "committed", "queued"} \subseteq TaskStates
<1>1. DOMAIN Verdicts = {"report_succeeded", "report_failed", "report_cancelled"}
  BY DEF Verdicts
<1> QED
  BY <1>1 DEF Verdicts, DriverStates, TaskStates, Holding, Walk, Over

LEMMA TaskWaits ==
    ASSUME RunsInv, NEW r \in Runs, Spawn(r) \/ Admit(r)
    PROVE  RunsInv'
<1> USE RunTyped
<1>1. /\ did' = [did EXCEPT ![r] = did[r]] /\ drivers = [drivers EXCEPT ![r] = drivers[r]]
      /\ tasks' = [tasks EXCEPT ![r] = tasks'[r]] /\ runs' = runs
  BY Unmoved DEF RunsInv, MemoryType, Spawn, Admit, TaskTo
<1>2. CASE Spawn(r)
  <2>1. tasks[r] = "committed" /\ tasks'[r] = "queued" /\ drivers' = drivers
    BY <1>2 DEF Spawn, TaskAt, TaskTo, RunsInv, MemoryType
  <2>2. Sound(runs[r], "queued", drivers[r], did[r])
    BY <2>1 DEF Sound, Staged, Recorded, Over, Walk
  <2> QED
    BY <1>1, <2>1, <2>2, MoveKeeps DEF TaskStates
<1>3. CASE Admit(r)
  <2>1. tasks[r] = "queued" /\ drivers[r] = "none" /\ runs[r].plan \in Actions
    BY <1>3 DEF Admit, TaskAt, Sound, Staged, Over, FirstStatus
  <2>2. runs[r].status = FirstStatus(runs[r].plan)
    BY <2>1 DEF Sound, Staged
  <2>3. CASE IsTab(runs[r].plan)
    <3>1. PICK driver2 \in {"fired", "none"} : drivers' = [drivers EXCEPT ![r] = driver2]
      BY <1>3, <2>3 DEF Admit, PlanOf, DriverTo
    <3>2. tasks'[r] = "watching"
      BY <1>3, <2>3 DEF Admit, PlanOf, TaskTo, RunsInv, MemoryType
    <3>3. runs[r].status = "awaiting_target"
      BY <2>2, <2>3 DEF FirstStatus
    <3>4. Sound(runs[r], "watching", driver2, did[r])
      BY <2>1, <2>3, <3>3, <2>2 DEF Sound, Staged, Recorded, Earned, Over, Walk, InFlight, Ended
    <3> QED
      <4>1. driver2 \in DriverStates /\ "watching" \in TaskStates
        BY Names DEF Holding
      <4>2. tasks' = [tasks EXCEPT ![r] = "watching"]
        BY <1>1, <3>2
      <4> QED
        BY <1>1, <3>1, <3>4, <4>1, <4>2, MoveKeeps
  <2>4. CASE ~IsTab(runs[r].plan)
    <3>1. tasks'[r] = "starting" /\ drivers' = drivers
      BY <1>3, <2>4 DEF Admit, PlanOf, TaskTo, RunsInv, MemoryType
    <3>2. Sound(runs[r], "starting", drivers[r], did[r])
      BY <2>1, <2>2, <2>4 DEF Sound, Staged, Recorded, Earned, Over, Walk, FirstStatus, InFlight, Ended
    <3> QED
      BY <1>1, <3>1, <3>2, MoveKeeps DEF TaskStates
  <2> QED
    BY <2>3, <2>4
<1> QED
  BY <1>2, <1>3

LEMMA WholeWalk ==
    ASSUME NEW r \in Runs, RunsInv, runs[r].status \in InFlight,
           tasks[r] # "failing", WalkedAll(r), AllSettled(r)
    PROVE  AllSucceeded(runs[r])
<1> DEFINE n == Len(runs[r].attempts)
           k == Plan[runs[r].plan].steps
<1>1. /\ runs[r] \in RunRow /\ runs[r].status # "absent" /\ runs[r].plan \in Actions
      /\ n <= k /\ \A i \in 1..n : runs[r].attempts[i] # "skipped"
  BY RunTyped DEF Sound, Staged, Recorded, InFlight
<1>2. DOMAIN runs[r].attempts = 1..n /\ n \in Nat /\ k \in Nat /\ k >= 1
  BY <1>1, AttemptsTyped, StepsTyped
<1>3. 1..n = 1..k /\ \A i \in 1..k : runs[r].attempts[i] \in {"succeeded", "skipped"}
  BY <1>2 DEF WalkedAll, AllSettled, StepsOf, PlanOf, Settled
<1>4. n = k
  <2>1. k \in 1..k
    BY <1>2
  <2>2. k \in 1..n
    BY <1>3, <2>1
  <2> QED
    BY <1>1, <1>2, <2>2
<1> QED
  BY <1>1, <1>3, <1>4 DEF AllSucceeded

LEMMA TaskEnds ==
    ASSUME RunsInv, NEW r \in Runs,
           TurnAway(r) \/ Finish(r) \/ WatchCancel(r) \/ WatchDeadline(r)
    PROVE  RunsInv'
<1> USE RunTyped, Names
<1>1. PICK status \in {"succeeded", "failed", "cancelled"} :
         /\ SetRunStatus(r, status)
         /\ status = "succeeded" => /\ TaskAt(r, "walking") /\ WalkedAll(r) /\ AllSettled(r)
  BY DEF TurnAway, Finish, WatchCancel, WatchDeadline
<1>2. /\ tasks[r] # "none" /\ drivers' = [drivers EXCEPT ![r] = drivers[r]]
      /\ tasks' = [tasks EXCEPT ![r] = "releasing"] /\ did' = did
  BY Unmoved DEF TurnAway, Finish, WatchCancel, WatchDeadline, TaskTo, TaskAt, RunsInv, MemoryType
<1>3. runs[r].status # "absent"
  BY <1>2 DEF Sound, Staged
<1>4. ASSUME status = "succeeded", runs[r].status \in InFlight
      PROVE  AllSucceeded(runs[r])
  BY <1>1, <1>4, WholeWalk DEF TaskAt
<1> QED
  BY <1>1, <1>2, <1>3, <1>4, EndKeeps DEF Over

LEMMA TaskStarts ==
    ASSUME RunsInv, NEW r \in Runs, Start(r)
    PROVE  RunsInv'
<1> USE RunTyped, Names
<1>1. PICK task2 \in {"walking", "failing"} : tasks' = [tasks EXCEPT ![r] = task2]
  BY DEF Start, TaskTo
<1>2. /\ tasks[r] = "starting" /\ SetRunStatus(r, "running")
      /\ drivers' = [drivers EXCEPT ![r] = drivers[r]] /\ did' = [did EXCEPT ![r] = did[r]]
  BY Unmoved DEF Start, TaskAt, RunsInv, MemoryType
<1>3. runs[r].status \in InFlight
  BY <1>2 DEF Sound, Staged, InFlight
<1>4. runs' = [runs EXCEPT ![r] = Written(runs[r], "running")]
  BY <1>2, <1>3, StatusWritten DEF RunsInv
<1>5. /\ Written(runs[r], "running") \in RunRow
      /\ Sound(Written(runs[r], "running"), task2, drivers[r], did[r])
  BY <1>2, <1>3, RunningIsSound
<1>6. task2 \in TaskStates
  BY DEF Holding, Walk
<1> QED
  BY <1>1, <1>2, <1>4, <1>5, <1>6, OneRun

LEMMA TaskReleases ==
    ASSUME RunsInv, NEW r \in Runs, Release(r) \/ WatchEnded(r)
    PROVE  RunsInv'
<1> USE RunTyped, Names
<1>1. PICK task2 \in Over : tasks' = [tasks EXCEPT ![r] = task2]
  BY DEF Release, WatchEnded, TaskTo, Over
<1>2. /\ drivers' = [drivers EXCEPT ![r] = drivers[r]] /\ did' = [did EXCEPT ![r] = did[r]]
      /\ runs' = runs
  BY Unmoved DEF Release, WatchEnded, RunsInv, MemoryType
<1>3. runs[r].status \in Ended \cup {"deleted"}
  <2>1. tasks[r] \in {"releasing", "watching"} /\ runs[r].status # "absent"
    BY DEF Release, WatchEnded, TaskAt, Sound, Staged
  <2>2. CASE tasks[r] = "releasing"
    BY <2>1, <2>2 DEF Sound, Staged, RunStatuses, Over
  <2>3. CASE WatchEnded(r)
    BY <2>1, <2>3 DEF WatchEnded, TaskAt, Sound, Staged, RunStatuses, InFlight
  <2> QED
    BY <2>2, <2>3 DEF Release, TaskAt
<1>4. Sound(runs[r], task2, drivers[r], did[r])
  BY <1>3, OverIsSound
<1> QED
  BY <1>1, <1>2, <1>4, MoveKeeps

LEMMA TaskWalks ==
    ASSUME RunsInv, NEW r \in Runs, NextStep(r)
    PROVE  RunsInv'
<1> USE RunTyped, Names
<1> DEFINE n == Len(runs[r].attempts)
           k == Plan[runs[r].plan].steps
<1>1. /\ drivers' = [drivers EXCEPT ![r] = drivers[r]] /\ did' = [did EXCEPT ![r] = did[r]]
      /\ tasks[r] = "walking" /\ ~WalkedAll(r)
  BY Unmoved DEF NextStep, TaskAt, RunsInv, MemoryType
<1>2. runs[r].status = "running" /\ runs[r].plan \in Actions
  BY <1>1 DEF Sound, Staged, Walk
<1>3. n \in Nat /\ DOMAIN runs[r].attempts = 1..n
  BY AttemptsTyped
<1>4. CASE UNCHANGED runs /\ TaskTo(r, "cancelling")
  <2>1. Sound(runs[r], "cancelling", drivers[r], did[r])
    BY <1>1, <1>2 DEF Sound, Staged, Recorded, Earned, Over, Walk, InFlight
  <2> QED
    BY <1>1, <1>4, <2>1, MoveKeeps DEF TaskTo, Holding, Walk
<1>5. CASE InsertAttempt(r, "running") /\ TaskTo(r, "dispatching")
  <2>1. n < k
    <3>1. k \in Nat /\ n <= k
      BY <1>2, StepsTyped DEF Sound, Recorded
    <3>2. n # k
      BY <1>1, <1>3 DEF WalkedAll, StepsOf, PlanOf
    <3> QED
      BY <1>3, <3>1, <3>2
  <2> DEFINE new == Attempted(runs[r], Append(runs[r].attempts, "running"))
  <2>2. new \in RunRow /\ Sound(new, "dispatching", drivers[r], did[r])
    BY <1>1, <1>2, <2>1, OpenedIsSound
  <2>3. runs' = [runs EXCEPT ![r] = new]
    BY <1>5 DEF InsertAttempt, Attempted, RunsInv, MemoryType, RunRow
  <2> QED
    BY <1>1, <1>5, <2>2, <2>3, OneRun DEF TaskTo, Holding, Walk
<1>6. CASE /\ runs' = [runs EXCEPT ![r].attempts = SkipRest(r, @)]
           /\ TaskTo(r, "failing")
  <2> DEFINE new == Attempted(runs[r], Padded(runs[r], runs[r].attempts))
  <2>1. new \in RunRow /\ Sound(new, "failing", drivers[r], did[r])
    BY <1>1, PaddedIsSound DEF Walk
  <2>2. runs' = [runs EXCEPT ![r] = new]
    BY <1>6 DEF SkipRest, Padded, Attempted, RunsInv, MemoryType, RunRow
  <2> QED
    BY <1>1, <1>6, <2>1, <2>2, OneRun DEF TaskTo, Holding, Walk
<1> QED
  BY <1>4, <1>5, <1>6 DEF NextStep

LEMMA TaskDispatches ==
    ASSUME RunsInv, NEW r \in Runs, Dispatch(r)
    PROVE  RunsInv'
<1> USE RunTyped, Names
<1> DEFINE n == Len(runs[r].attempts)
           done2 == did[r] \cup {n}
<1>1. /\ drivers' = [drivers EXCEPT ![r] = drivers[r]] /\ did' = [did EXCEPT ![r] = done2]
      /\ tasks[r] = "dispatching" /\ tasks' = [tasks EXCEPT ![r] = "executing"] /\ runs' = runs
  BY Unmoved DEF Dispatch, TaskAt, TaskTo, LastAttempt, RunsInv, MemoryType
<1>2. /\ runs[r].status = "running" /\ runs[r].plan \in Actions /\ drivers[r] = "none"
      /\ runs[r].status \notin {"deleted", "absent"} \cup Ended
  BY <1>1 DEF Sound, Staged, Walk, Over, Ended
<1>3. n \in Nat /\ n >= 1 /\ n \in 1..n /\ n \notin did[r]
  BY <1>1, AttemptsTyped DEF Sound, Recorded
<1>4. /\ did[r] \subseteq 1..n
      /\ \A i \in did[r] : runs[r].attempts[i] \notin {"skipped", "blocked"}
      /\ \A i \in 1..n : runs[r].attempts[i] = "succeeded" => i \in did[r]
      /\ \A i \in 1..n : runs[r].attempts[i] # "skipped"
  BY <1>1, <1>2 DEF Sound, Recorded, InFlight
<1>5. runs[r].attempts[n] # "blocked"
  BY <1>1, <1>2 DEF Sound, Recorded, InFlight
<1>6. Sound(runs[r], "executing", drivers[r], done2)
  <2>1. Staged(runs[r], "executing", drivers[r])
    BY <1>1, <1>2 DEF Sound, Staged, Walk, Over
  <2>2. Recorded(runs[r], "executing", drivers[r], done2)
    BY <1>1, <1>2, <1>3, <1>4, <1>5 DEF Sound, Recorded
  <2>3. Earned(runs[r], drivers[r])
    BY DEF Sound
  <2> QED
    BY <2>1, <2>2, <2>3 DEF Sound
<1>7. done2 \in SUBSET Nat /\ "executing" \in TaskStates
  BY <1>3 DEF Holding, Walk
<1> HIDE DEF done2
<1> QED
  BY <1>1, <1>6, <1>7, MoveKeeps

LEMMA TaskStepEnds ==
    ASSUME RunsInv, NEW r \in Runs, StepEnds(r)
    PROVE  RunsInv'
<1> USE RunTyped, Names
<1> DEFINE row == runs[r]
           n == Len(row.attempts)
<1>1. PICK outcome \in {"succeeded", "failed", "blocked", "cancelled", "time_budget"},
           status \in {"succeeded", "failed", "blocked", "cancelled"},
           task2 \in {"cancelling", "failing", "walking"} :
         /\ status = IF outcome = "time_budget" THEN "failed" ELSE outcome
         /\ \/ TaskAt(r, "executing") /\ outcome # "blocked"
            \/ TaskAt(r, "dispatching") /\ outcome \in {"blocked", "cancelled", "time_budget"}
         /\ \/ runs' = [runs EXCEPT ![r].attempts = [row.attempts EXCEPT ![n] = status]]
            \/ /\ runs' = [runs EXCEPT ![r].attempts =
                              SkipRest(r, [row.attempts EXCEPT ![n] = status])]
               /\ task2 = "failing"
         /\ tasks' = [tasks EXCEPT ![r] = task2]
  <2>1. PICK outcome \in {"succeeded", "failed", "blocked", "cancelled", "time_budget"} :
           LET i == LastAttempt(r)
               status == IF outcome = "time_budget" THEN "failed" ELSE outcome
               settledRow == [runs[r].attempts EXCEPT ![i] = status]
               stops == \/ outcome = "time_budget"
                        \/ outcome # "cancelled" /\ Blocks(PlanOf(r), status)
           IN  /\ \/ TaskAt(r, "executing") /\ outcome # "blocked"
                  \/ TaskAt(r, "dispatching") /\ outcome \in {"blocked", "cancelled", "time_budget"}
               /\ runs' = [runs EXCEPT ![r].attempts =
                                  IF stops THEN SkipRest(r, settledRow) ELSE settledRow]
               /\ TaskTo(r, IF outcome = "cancelled" THEN "cancelling"
                                ELSE IF stops THEN "failing" ELSE "walking")
    BY DEF StepEnds
  <2> DEFINE status == IF outcome = "time_budget" THEN "failed" ELSE outcome
             stops == outcome = "time_budget" \/ (outcome # "cancelled" /\ Blocks(PlanOf(r), status))
             task2 == IF outcome = "cancelled" THEN "cancelling"
                      ELSE IF stops THEN "failing" ELSE "walking"
  <2>2. /\ status \in {"succeeded", "failed", "blocked", "cancelled"}
        /\ task2 \in {"cancelling", "failing", "walking"}
    OBVIOUS
  <2>3. stops => task2 = "failing"
    OBVIOUS
  <2>4. \/ runs' = [runs EXCEPT ![r].attempts = [row.attempts EXCEPT ![n] = status]]
        \/ /\ runs' = [runs EXCEPT ![r].attempts =
                          SkipRest(r, [row.attempts EXCEPT ![n] = status])]
           /\ task2 = "failing"
    BY <2>1, <2>3 DEF LastAttempt
  <2>5. tasks' = [tasks EXCEPT ![r] = task2]
    BY <2>1 DEF TaskTo
  <2> HIDE DEF task2, stops
  <2> QED
    BY <2>1, <2>2, <2>4, <2>5
<1>2. /\ drivers' = [drivers EXCEPT ![r] = drivers[r]] /\ did' = [did EXCEPT ![r] = did[r]]
  BY Unmoved DEF StepEnds, RunsInv, MemoryType
<1>3. /\ tasks[r] \in {"dispatching", "executing"}
      /\ status = "blocked" => tasks[r] = "dispatching"
      /\ status = "succeeded" => tasks[r] = "executing"
  BY <1>1 DEF TaskAt
<1>4. row.status \in InFlight
  BY <1>3 DEF Sound, Staged, Walk, InFlight
<1> DEFINE settled == Attempted(row, [row.attempts EXCEPT ![n] = status])
<1>5. settled \in RunRow /\ Sound(settled, task2, drivers[r], did[r])
  BY <1>3, <1>4, SettledIsSound
<1>6. task2 \in TaskStates
  BY DEF Holding, Walk
<1>7. CASE runs' = [runs EXCEPT ![r].attempts = [row.attempts EXCEPT ![n] = status]]
  <2>1. runs' = [runs EXCEPT ![r] = settled]
    BY <1>7 DEF Attempted, RunsInv, MemoryType, RunRow
  <2> HIDE DEF settled
  <2> QED
    BY <1>1, <1>2, <1>5, <1>6, <2>1, OneRun
<1>8. CASE /\ runs' = [runs EXCEPT ![r].attempts =
                          SkipRest(r, [row.attempts EXCEPT ![n] = status])]
           /\ task2 = "failing"
  <2> DEFINE new == Attempted(settled, Padded(settled, settled.attempts))
  <2>1. new \in RunRow /\ Sound(new, "failing", drivers[r], did[r])
    BY <1>5, <1>8, PaddedIsSound DEF Walk
  <2>2. settled.attempts = [row.attempts EXCEPT ![n] = status] /\ settled.plan = row.plan
    BY DEF Attempted, RunRow
  <2>3. Padded(settled, settled.attempts) = SkipRest(r, [row.attempts EXCEPT ![n] = status])
    BY <2>2 DEF Padded, SkipRest
  <2>4. new = [row EXCEPT !.attempts = SkipRest(r, [row.attempts EXCEPT ![n] = status])]
    BY <2>3 DEF Attempted, RunRow
  <2>5. runs' = [runs EXCEPT ![r] = new]
    BY <1>8, <2>4 DEF RunsInv, MemoryType
  <2> HIDE DEF new
  <2> QED
    BY <1>1, <1>2, <1>6, <1>8, <2>1, <2>5, OneRun
<1> QED
  BY <1>1, <1>7, <1>8

-----------------------------------------------------------------------------
(* The tab.                                                                *)

LEMMA TabAttaches ==
    ASSUME RunsInv, NEW r \in Runs, Attach(r)
    PROVE  RunsInv'
<1> USE RunTyped, Names
<1>1. /\ drivers[r] = "fired" /\ tasks' = [tasks EXCEPT ![r] = tasks[r]]
      /\ did' = [did EXCEPT ![r] = did[r]] /\ runs[r].status # "absent"
  BY Unmoved DEF Attach, DriverAt, RunsInv, MemoryType, Sound, Staged
<1>2. CASE /\ runs[r].status = "awaiting_target"
           /\ SetRunStatus(r, "running") /\ DriverTo(r, "ready")
  <2>1. tasks[r] = "watching" /\ runs[r].status \in InFlight
    BY <1>1, <1>2 DEF Sound, Staged, InFlight
  <2>2. runs' = [runs EXCEPT ![r] = Written(runs[r], "running")]
    BY <1>2, <2>1, StatusWritten DEF RunsInv
  <2>3. /\ Written(runs[r], "running") \in RunRow
        /\ Sound(Written(runs[r], "running"), tasks[r], "ready", did[r])
    BY <2>1, RunningIsSound
  <2> QED
    BY <1>1, <1>2, <2>2, <2>3, OneRun DEF DriverTo
<1>3. CASE DriverTo(r, "report_failed") /\ UNCHANGED runs
  <2>1. Sound(runs[r], tasks[r], "report_failed", did[r])
    BY <1>1 DEF Sound, Staged, Recorded, Earned
  <2> QED
    BY <1>1, <1>3, <2>1, MoveKeeps DEF DriverTo
<1> QED
  BY <1>2, <1>3 DEF Attach

LEMMA TabBegins ==
    ASSUME RunsInv, NEW r \in Runs, StepBegin(r)
    PROVE  RunsInv'
<1> USE RunTyped, Names
<1> DEFINE n == Len(runs[r].attempts)
           k == Plan[runs[r].plan].steps
<1>1. /\ drivers[r] = "ready" /\ tasks' = [tasks EXCEPT ![r] = tasks[r]]
      /\ did' = [did EXCEPT ![r] = did[r]] /\ runs[r].status # "absent"
  BY Unmoved DEF StepBegin, DriverAt, RunsInv, MemoryType, Sound, Staged
<1>2. tasks[r] \in {"watching"} \cup Over
  BY <1>1 DEF Sound, Staged
<1>3. CASE InsertAttempt(r, "running") /\ DriverTo(r, "leased") /\ ~WalkedAll(r) /\ Active(r)
  <2>1. runs[r].status = "running" /\ tasks[r] = "watching" /\ runs[r].plan \in Actions
    BY <1>1, <1>2, <1>3 DEF Active, Sound, Staged, InFlight
  <2>2. n < k
    <3>1. n \in Nat /\ DOMAIN runs[r].attempts = 1..n /\ k \in Nat /\ n <= k
      BY <1>1, <2>1, AttemptsTyped, StepsTyped DEF Sound, Recorded
    <3>2. n # k
      BY <1>3, <3>1 DEF WalkedAll, StepsOf, PlanOf
    <3> QED
      BY <3>1, <3>2
  <2> DEFINE new == Attempted(runs[r], Append(runs[r].attempts, "running"))
  <2>3. new \in RunRow /\ Sound(new, tasks[r], "leased", did[r])
    BY <2>1, <2>2, OpenedIsSound
  <2>4. runs' = [runs EXCEPT ![r] = new]
    BY <1>3 DEF InsertAttempt, Attempted, RunsInv, MemoryType, RunRow
  <2> QED
    BY <1>1, <1>3, <2>3, <2>4, OneRun DEF DriverTo
<1>4. CASE UNCHANGED runs /\ DriverTo(r, "report_succeeded") /\ WalkedAll(r) /\ AllSettled(r)
  <2>1. runs[r].status \in InFlight => AllSucceeded(runs[r])
    BY <1>2, <1>4, WholeWalk DEF Over
  <2>2. Sound(runs[r], tasks[r], "report_succeeded", did[r])
    <3>1. Staged(runs[r], tasks[r], "report_succeeded")
      BY <1>1, <1>2 DEF Sound, Staged
    <3>2. Recorded(runs[r], tasks[r], "report_succeeded", did[r])
      BY DEF Sound, Recorded
    <3>3. Earned(runs[r], "report_succeeded")
      BY <2>1 DEF Sound, Earned
    <3> QED
      BY <3>1, <3>2, <3>3 DEF Sound
  <2> QED
    BY <1>1, <1>4, <2>2, MoveKeeps DEF DriverTo
<1>5. ASSUME NEW report \in {"report_cancelled", "report_failed"},
             UNCHANGED runs, DriverTo(r, report)
      PROVE  RunsInv'
  <2>1. Sound(runs[r], tasks[r], report, did[r])
    BY <1>1, <1>2 DEF Sound, Staged, Recorded, Earned
  <2> QED
    BY <1>1, <1>5, <2>1, MoveKeeps DEF DriverTo
<1> QED
  BY <1>3, <1>4, <1>5 DEF StepBegin

LEMMA TabAsks ==
    ASSUME RunsInv, NEW r \in Runs, AskBack(r)
    PROVE  RunsInv'
<1> USE RunTyped, Names
<1>1. /\ drivers[r] = "leased" /\ drivers' = [drivers EXCEPT ![r] = "cleared"]
      /\ did' = [did EXCEPT ![r] = did[r]]
      /\ tasks' = [tasks EXCEPT ![r] = tasks[r]] /\ runs' = runs
  BY Unmoved DEF AskBack, DriverAt, DriverTo, RunsInv, MemoryType
<1>2. Sound(runs[r], tasks[r], "cleared", did[r])
  BY <1>1 DEF Sound, Staged, Recorded, Earned, Intending
<1> QED
  BY <1>1, <1>2, MoveKeeps

LEMMA TabTypes ==
    ASSUME RunsInv, NEW r \in Runs, TypeStep(r)
    PROVE  RunsInv'
<1> USE RunTyped, Names
<1> DEFINE n == Len(runs[r].attempts)
           done2 == did[r] \cup {n}
<1>1. /\ drivers[r] = "cleared" /\ drivers' = [drivers EXCEPT ![r] = "typing"]
      /\ did' = [did EXCEPT ![r] = done2]
      /\ tasks' = [tasks EXCEPT ![r] = tasks[r]] /\ runs' = runs
  BY Unmoved DEF TypeStep, DriverAt, DriverTo, LastAttempt, RunsInv, MemoryType
<1>2. tasks[r] \in {"watching"} \cup Over /\ runs[r].status # "absent"
  BY <1>1 DEF Sound, Staged
<1>3. n \in Nat
  BY AttemptsTyped
<1>4. runs[r].status # "deleted" =>
      /\ n \in 1..n /\ runs[r].attempts[n] \notin {"skipped", "blocked"}
      /\ did[r] \subseteq 1..n
      /\ \A i \in did[r] : runs[r].attempts[i] \notin {"skipped", "blocked"}
      /\ \A i \in 1..n : runs[r].attempts[i] = "succeeded" => i \in did[r]
  BY <1>1, <1>3 DEF Sound, Recorded, Intending
<1>5. Sound(runs[r], tasks[r], "typing", done2)
  <2>1. Staged(runs[r], tasks[r], "typing")
    BY <1>1, <1>2 DEF Sound, Staged
  <2>2. Recorded(runs[r], tasks[r], "typing", done2)
    BY <1>2, <1>3, <1>4 DEF Sound, Recorded, Over, Intending
  <2>3. Earned(runs[r], "typing")
    BY DEF Sound, Earned
  <2> QED
    BY <2>1, <2>2, <2>3 DEF Sound
<1>6. done2 \in SUBSET Nat
  BY <1>3
<1> HIDE DEF done2
<1> QED
  BY <1>1, <1>5, <1>6, MoveKeeps

LEMMA TabFinishes ==
    ASSUME RunsInv, NEW r \in Runs, StepFinish(r)
    PROVE  RunsInv'
<1> USE RunTyped, Names
<1> DEFINE row == runs[r]
           n == Len(row.attempts)
<1>1. PICK result \in {"succeeded", "failed", "unknown", "cancelled"},
           driver2 \in {"report_cancelled", "report_failed", "ready"} :
         /\ drivers[r] \in {"typing"} \cup Intending
         /\ result = "succeeded" => drivers[r] = "typing"
         /\ \/ row.status \in InFlight /\ SetAttempt(r, n, result)
            \/ runs' = runs
         /\ drivers' = [drivers EXCEPT ![r] = driver2]
  <2>1. PICK result \in {"succeeded", "failed", "unknown", "cancelled"} :
           LET i == LastAttempt(r)
               taken == gate /\ runs[r].status \in InFlight /\ runs[r].attempts[i] = "running"
           IN  /\ \/ DriverAt(r, "typing") /\ result # "cancelled"
                  \/ drivers[r] \in {"leased", "cleared"} /\ result \in {"failed", "cancelled"}
               /\ IF taken THEN SetAttempt(r, i, result) ELSE UNCHANGED runs
               /\ DriverTo(r, IF ~Active(r) THEN "report_cancelled"
                              ELSE IF Blocks(PlanOf(r), result) THEN "report_failed" ELSE "ready")
    BY DEF StepFinish
  <2> DEFINE driver2 == IF ~Active(r) THEN "report_cancelled"
                        ELSE IF Blocks(PlanOf(r), result) THEN "report_failed" ELSE "ready"
  <2>2. driver2 \in {"report_cancelled", "report_failed", "ready"}
    OBVIOUS
  <2>3. drivers' = [drivers EXCEPT ![r] = driver2]
    BY <2>1 DEF DriverTo
  <2>4. \/ row.status \in InFlight /\ SetAttempt(r, n, result)
        \/ runs' = runs
    BY <2>1 DEF LastAttempt
  <2>5. drivers[r] \in {"typing"} \cup Intending /\ (result = "succeeded" => drivers[r] = "typing")
    BY <2>1 DEF DriverAt, Intending
  <2> HIDE DEF driver2
  <2> QED
    BY <2>2, <2>3, <2>4, <2>5
<1>2. tasks' = [tasks EXCEPT ![r] = tasks[r]] /\ did' = [did EXCEPT ![r] = did[r]]
  BY Unmoved DEF StepFinish, RunsInv, MemoryType
<1>3. tasks[r] \in {"watching"} \cup Over /\ row.status # "absent"
  BY <1>1 DEF Sound, Staged
<1>4. CASE row.status \in InFlight /\ SetAttempt(r, n, result)
  <2> DEFINE new == Attempted(row, [row.attempts EXCEPT ![n] = result])
  <2>1. new \in RunRow /\ Sound(new, tasks[r], driver2, did[r])
    <3>1. result \in {"succeeded", "failed", "blocked", "cancelled", "unknown"} /\ result # "blocked"
      OBVIOUS
    <3>2. driver2 \in {"ready", "report_failed", "report_cancelled"}
      OBVIOUS
    <3>3. row \in RunRow /\ did[r] \in SUBSET Nat /\ Sound(row, tasks[r], drivers[r], did[r])
      OBVIOUS
    <3> HIDE DEF row
    <3> QED
      BY <1>1, <1>4, <3>1, <3>2, <3>3, SettledIsSound
  <2>2. runs' = [runs EXCEPT ![r] = new]
    BY <1>4 DEF SetAttempt, Attempted, RunsInv, MemoryType, RunRow
  <2> HIDE DEF new
  <2> QED
    BY <1>1, <1>2, <2>1, <2>2, OneRun
<1>5. CASE runs' = runs
  <2>1. Sound(row, tasks[r], driver2, did[r])
    BY <1>1, <1>3 DEF Sound, Staged, Recorded, Earned
  <2> QED
    BY <1>1, <1>2, <1>5, <2>1, MoveKeeps
<1> QED
  BY <1>1, <1>4, <1>5

LEMMA TabReports ==
    ASSUME RunsInv, NEW r \in Runs, ReportVerdict(r)
    PROVE  RunsInv'
<1> USE RunTyped, Names
<1> DEFINE driver2 == IF ~gate THEN "none"
                      ELSE IF Cancelled(r) THEN "cancelled" ELSE Verdicts[drivers[r]]
<1>1. /\ drivers[r] \in {"report_succeeded", "report_failed", "report_cancelled"}
      /\ drivers' = [drivers EXCEPT ![r] = driver2] /\ runs' = runs
      /\ tasks' = [tasks EXCEPT ![r] = tasks[r]] /\ did' = [did EXCEPT ![r] = did[r]]
  BY Unmoved DEF ReportVerdict, DriverTo, RunsInv, MemoryType
<1>2. /\ driver2 \in {"none", "succeeded", "failed", "cancelled"}
      /\ driver2 = "succeeded" => drivers[r] = "report_succeeded"
  BY <1>1
<1> HIDE DEF driver2
<1>3. Sound(runs[r], tasks[r], driver2, did[r])
  BY <1>1, <1>2 DEF Sound, Staged, Recorded, Earned
<1>4. driver2 \in DriverStates
  BY <1>2
<1> QED
  BY <1>1, <1>3, <1>4, MoveKeeps

LEMMA TabVerdict ==
    ASSUME RunsInv, NEW r \in Runs, WriteVerdict(r)
    PROVE  RunsInv'
<1> USE RunTyped, Names
<1>1. /\ drivers[r] \in {"succeeded", "failed", "cancelled"} /\ SetRunStatus(r, drivers[r])
      /\ drivers' = [drivers EXCEPT ![r] = "none"]
      /\ tasks' = [tasks EXCEPT ![r] = tasks[r]] /\ did' = did
  BY Unmoved DEF WriteVerdict, DriverTo, RunsInv, MemoryType, Ended, DriverStates
<1>2. tasks[r] \in {"watching"} \cup Over /\ runs[r].status # "absent"
  BY <1>1 DEF Sound, Staged
<1>3. drivers[r] = "succeeded" /\ runs[r].status \in InFlight => AllSucceeded(runs[r])
  BY DEF Sound, Earned
<1> QED
  BY <1>1, <1>2, <1>3, EndKeeps

\* Everything a task and a tab can do.
LEMMA RunStepKeepsRuns ==
    ASSUME RunsInv, NEW r \in Runs, TaskStep(r) \/ DriverStep(r)
    PROVE  RunsInv'
BY TaskWaits, TaskEnds, TaskStarts, TaskReleases, TaskWalks, TaskDispatches, TaskStepEnds,
   TabAttaches, TabBegins, TabAsks, TabTypes, TabFinishes, TabReports, TabVerdict
   DEF TaskStep, DriverStep

-----------------------------------------------------------------------------
(* The list, the order of run numbers and the permit, when one run moves.  *)

LEMMA StatusKeepsList ==
    ASSUME WorldType, MemoryType, ListInv, InOrder, NEW r \in Runs,
           NEW status \in {"running", "succeeded", "failed", "cancelled"},
           runs[r].status # "absent", SetRunStatus(r, status), torn' = torn
    PROVE  actions' \in [Actions -> ActionRow] /\ ListInv' /\ InOrder'
<1> DEFINE new == Written(runs[r], status)
<1>1. CASE runs[r].status \notin InFlight
  BY <1>1 DEF SetRunStatus, WorldType, ListInv, ListedInv, OwnedInv, InOrder
<1>2. CASE runs[r].status \in InFlight
  <2>1. /\ runs' = [runs EXCEPT ![r] = new]
        /\ new.status = status /\ new.action = runs[r].action
    BY <1>2, StatusWritten, WrittenRow DEF MemoryType, RunStatuses, InFlight, Ended
  <2> HIDE DEF new
  <2>2. /\ runs'[r].status = status /\ runs'[r].action = runs[r].action
        /\ \A s \in Runs \ {r} : runs'[s] = runs[s]
    BY <2>1 DEF MemoryType
  <2>3. actions' = [a \in Actions |->
            IF actions[a].lastRun = r THEN [actions[a] EXCEPT !.lastStatus = status]
            ELSE actions[a]]
    BY <1>2 DEF SetRunStatus
  <2>4. /\ \A a \in Actions : [actions[a] EXCEPT !.lastStatus = status] \in ActionRow
        /\ \A a \in Actions :
              /\ [actions[a] EXCEPT !.lastStatus = status].lastStatus = status
              /\ [actions[a] EXCEPT !.lastStatus = status].lastRun = actions[a].lastRun
              /\ [actions[a] EXCEPT !.lastStatus = status].exists = actions[a].exists
    BY DEF WorldType, ActionRow, RunStatuses, InFlight, Ended
  <2>5. actions' \in [Actions -> ActionRow]
    BY <2>3, <2>4 DEF WorldType
  <2>6. \A a \in Actions :
          /\ actions'[a].lastRun = actions[a].lastRun /\ actions'[a].exists = actions[a].exists
          /\ actions'[a].lastStatus =
                IF actions[a].lastRun = r THEN status ELSE actions[a].lastStatus
    BY <2>3, <2>4
  <2>7. \A a \in Actions : actions[a].lastRun \in Runs \cup {NoRun}
    BY DEF WorldType, ActionRow
  <2>8. ListedInv'
    BY <2>2, <2>6, <2>7 DEF ListInv, ListedInv
  <2>9. \A s \in Runs : runs[s].action \in Actions \cup {NoAction}
    BY DEF MemoryType, RunRow
  <2>10. OwnedInv'
    BY <1>2, <2>2, <2>6, <2>9 DEF ListInv, OwnedInv
  <2>11. InOrder'
    BY <2>2 DEF InOrder
  <2> QED
    BY <2>5, <2>8, <2>10, <2>11 DEF ListInv
<1> QED
  BY <1>1, <1>2

LEMMA SameKeepsList ==
    ASSUME WorldType, MemoryType, ListInv, InOrder, torn' = torn,
           \A a \in Actions :
              /\ actions'[a].lastRun = actions[a].lastRun /\ actions'[a].exists = actions[a].exists
              /\ actions'[a].lastStatus = actions[a].lastStatus,
           \A s \in Runs : /\ runs'[s].status = runs[s].status
                           /\ runs'[s].action = runs[s].action
    PROVE  ListInv' /\ InOrder'
<1>1. \A a \in Actions : actions[a].lastRun \in Runs \cup {NoRun}
  BY DEF WorldType, ActionRow
<1>2. \A s \in Runs : runs[s].action \in Actions \cup {NoAction}
  BY DEF MemoryType, RunRow
<1>3. ListedInv'
  BY <1>1 DEF ListInv, ListedInv
<1>4. OwnedInv'
  BY <1>2 DEF ListInv, OwnedInv
<1>5. InOrder'
  BY DEF InOrder
<1> QED
  BY <1>3, <1>4, <1>5 DEF ListInv

\* A step of a run writes a status or leaves every status alone.
LEMMA RunStepStatus ==
    ASSUME MemoryType, NEW r \in Runs, TaskStep(r) \/ DriverStep(r),
           drivers[r] \in DriverStates
    PROVE  \/ \E status \in {"running", "succeeded", "failed", "cancelled"} :
                 SetRunStatus(r, status)
           \/ /\ actions' = actions
              /\ \A s \in Runs : /\ runs'[s].status = runs[s].status
                                 /\ runs'[s].action = runs[s].action
                                 /\ runs'[s].occurrence = runs[s].occurrence
<1>1. CASE TurnAway(r) \/ Start(r) \/ Finish(r) \/ WatchCancel(r) \/ WatchDeadline(r)
  BY <1>1 DEF TurnAway, Start, Finish, WatchCancel, WatchDeadline
<1>2. CASE WriteVerdict(r)
  BY <1>2, Names DEF WriteVerdict, Ended, DriverStates
<1>3. CASE Spawn(r) \/ Admit(r) \/ Dispatch(r) \/ Release(r) \/ WatchEnded(r) \/ AskBack(r)
            \/ TypeStep(r)
             \/ ReportVerdict(r)
  BY <1>3 DEF Spawn, Admit, Dispatch, Release, WatchEnded, AskBack, TypeStep, ReportVerdict
<1>4. CASE Attach(r)
  BY <1>4 DEF Attach
<1>5. CASE NextStep(r) \/ StepEnds(r) \/ StepBegin(r) \/ StepFinish(r)
  <2>1. actions' = actions
    BY <1>5 DEF NextStep, StepEnds, StepBegin, StepFinish
  <2>2. runs' = runs \/ \E s : runs' = [runs EXCEPT ![r].attempts = s]
    <3>1. CASE NextStep(r)
      BY <3>1 DEF NextStep, InsertAttempt
    <3>2. CASE StepEnds(r)
      BY <3>2 DEF StepEnds
    <3>3. CASE StepBegin(r)
      BY <3>3 DEF StepBegin, InsertAttempt
    <3>4. CASE StepFinish(r)
      BY <3>4 DEF StepFinish, SetAttempt
    <3> QED
      BY <1>5, <3>1, <3>2, <3>3, <3>4
  <2>3. \A s \in Runs : /\ runs'[s].status = runs[s].status
                        /\ runs'[s].action = runs[s].action
                        /\ runs'[s].occurrence = runs[s].occurrence
    BY <2>2 DEF MemoryType, RunRow
  <2> QED
    BY <2>1, <2>3
<1> QED
  BY <1>1, <1>2, <1>3, <1>4, <1>5 DEF TaskStep, DriverStep

LEMMA RunStepPermit ==
    ASSUME WorldType, RunsInv, PermitInv, NEW r \in Runs, TaskStep(r) \/ DriverStep(r)
    PROVE  PermitInv'
<1> USE RunTyped
<1>1. tasks \in [Runs -> TaskStates] /\ NoRun \notin Runs
  BY DEF RunsInv, MemoryType, Runs, NoRun
<1>2. CASE Admit(r)
  <2>1. permit = NoRun /\ permit' = r /\ \A s \in Runs \ {r} : tasks'[s] = tasks[s]
    BY <1>1, <1>2 DEF Admit, TaskTo
  <2> QED
    BY <1>1, <2>1 DEF PermitInv
<1>3. CASE Release(r)
  <2>1. /\ tasks'[r] = "done" /\ \A s \in Runs \ {r} : tasks'[s] = tasks[s]
        /\ permit = r \/ permit' = permit
    BY <1>1, <1>3 DEF Release, TaskTo
  <2> QED
    BY <1>1, <2>1 DEF PermitInv, Holding, Walk
<1>4. CASE Start(r) \/ NextStep(r) \/ Dispatch(r) \/ StepEnds(r)
  <2>1. /\ tasks[r] \in Holding /\ permit' = permit
        /\ \E t \in TaskStates : tasks' = [tasks EXCEPT ![r] = t]
    <3>1. CASE Start(r)
      BY <3>1 DEF Start, TaskAt, TaskTo, Holding, Walk, TaskStates
    <3>2. CASE NextStep(r)
      BY <3>2 DEF NextStep, TaskAt, TaskTo, Holding, Walk, TaskStates
    <3>3. CASE Dispatch(r)
      BY <3>3 DEF Dispatch, TaskAt, TaskTo, Holding, Walk, TaskStates
    <3>4. CASE StepEnds(r)
      BY <3>4 DEF StepEnds, TaskAt, TaskTo, Holding, Walk, TaskStates
    <3> QED
      BY <1>4, <3>1, <3>2, <3>3, <3>4
  <2>2. \A s \in Runs \ {r} : tasks'[s] = tasks[s]
    BY <1>1, <2>1
  <2> QED
    BY <2>1, <2>2 DEF PermitInv
<1>5. CASE \/ Spawn(r) \/ TurnAway(r) \/ Finish(r)
           \/ WatchCancel(r) \/ WatchDeadline(r) \/ WatchEnded(r)
  <2>1. /\ permit' = permit
        /\ \E t \in {"queued", "releasing"} : tasks' = [tasks EXCEPT ![r] = t]
    BY <1>5 DEF Spawn, TurnAway, Finish, WatchCancel, WatchDeadline, WatchEnded, TaskTo
  <2>2. tasks'[r] \in {"queued", "releasing"} /\ \A s \in Runs \ {r} : tasks'[s] = tasks[s]
    BY <1>1, <2>1
  <2> QED
    BY <2>1, <2>2 DEF PermitInv, Holding, Walk
<1>6. CASE DriverStep(r)
  <2>1. permit' = permit /\ tasks' = tasks
    BY <1>6 DEF DriverStep, Attach, StepBegin, AskBack, TypeStep, StepFinish, ReportVerdict, WriteVerdict
  <2> QED
    BY <2>1 DEF PermitInv
<1> QED
  BY <1>2, <1>3, <1>4, <1>5, <1>6 DEF TaskStep

LEMMA RunStepWorld ==
    ASSUME WorldType, NEW r \in Runs, TaskStep(r) \/ DriverStep(r),
           actions' \in [Actions -> ActionRow]
    PROVE  WorldType'
<1>1. UNCHANGED <<loop, gate, clock, zone, era, torn>>
  BY DEF TaskStep, DriverStep, Spawn, TurnAway, Admit, Start, NextStep, Dispatch, StepEnds,
         Finish, Release, WatchCancel, WatchDeadline, WatchEnded, Attach, StepBegin, AskBack, TypeStep,
         StepFinish, ReportVerdict, WriteVerdict, world
<1>2. \/ cancels' = cancels
      \/ \E c \in {"armed", "none"} : cancels' = [cancels EXCEPT ![r] = c]
  BY DEF TaskStep, DriverStep, Spawn, TurnAway, Admit, Start, NextStep, Dispatch, StepEnds,
         Finish, Release, WatchCancel, WatchDeadline, WatchEnded, Attach, StepBegin, AskBack, TypeStep,
         StepFinish, ReportVerdict, WriteVerdict
<1>3. permit' \in {permit, NoRun, r}
  BY DEF TaskStep, DriverStep, Spawn, TurnAway, Admit, Start, NextStep, Dispatch, StepEnds,
         Finish, Release, WatchCancel, WatchDeadline, WatchEnded, Attach, StepBegin, AskBack, TypeStep,
         StepFinish, ReportVerdict, WriteVerdict
<1>4. cancels' \in [Runs -> {"none", "armed", "sent"}]
  BY <1>2 DEF WorldType
<1> QED
  BY <1>1, <1>3, <1>4 DEF WorldType

LEMMA RunStepKeepsInv ==
    ASSUME ScheduleInv, NEW r \in Runs, TaskStep(r) \/ DriverStep(r)
    PROVE  ScheduleInv'
<1> USE DEF ScheduleInv
<1>1. RunsInv' /\ PermitInv'
  BY RunStepKeepsRuns, RunStepPermit
<1>2. MemoryType /\ drivers[r] \in DriverStates
  BY RunTyped DEF RunsInv
<1>3. runs[r].status # "absent"
  <2>1. tasks[r] # "none" \/ drivers[r] # "none"
    BY DEF TaskStep, DriverStep, Spawn, TurnAway, Admit, Start, NextStep, Dispatch, StepEnds,
         Finish, Release, WatchCancel, WatchDeadline, WatchEnded, Attach, StepBegin, AskBack, TypeStep,
         StepFinish, ReportVerdict, WriteVerdict, TaskAt, DriverAt, Verdicts, Ended
  <2> QED
    BY <2>1, RunTyped DEF Sound, Staged
<1>4. actions' \in [Actions -> ActionRow] /\ ListInv' /\ InOrder'
  <2>0. torn' = torn
    BY DEF TaskStep, DriverStep, Spawn, TurnAway, Admit, Start, NextStep, Dispatch, StepEnds,
         Finish, Release, WatchCancel, WatchDeadline, WatchEnded, Attach, StepBegin, AskBack, TypeStep,
         StepFinish, ReportVerdict, WriteVerdict, world
  <2>1. CASE \E status \in {"running", "succeeded", "failed", "cancelled"} :
                 SetRunStatus(r, status)
    BY <1>2, <1>3, <2>0, <2>1, StatusKeepsList
  <2>2. CASE /\ actions' = actions
             /\ \A s \in Runs : /\ runs'[s].status = runs[s].status
                                /\ runs'[s].action = runs[s].action
                                /\ runs'[s].occurrence = runs[s].occurrence
    BY <1>2, <2>0, <2>2, SameKeepsList DEF WorldType
  <2> QED
    BY <1>2, <2>1, <2>2, RunStepStatus
<1>5. WorldType'
  BY <1>4, RunStepWorld
<1> QED
  BY <1>1, <1>4, <1>5

-----------------------------------------------------------------------------
(* The rules.                                                              *)

LEMMA Division ==
    ASSUME NEW x \in Int, NEW p \in Nat \ {0}
    PROVE  x \div p \in Int /\ p * (x \div p) <= x /\ x < p * (x \div p) + p
OBVIOUS

Ahead(next, moment) == next = NoTime \/ next > moment

\* A next fire lies strictly ahead, whatever the rule, the anchor, the zone
\* and the moment.
LEMMA NextFireLiesAhead ==
    ASSUME NEW a \in Actions, NEW anchor \in Int, NEW z \in Zones, NEW now \in Int
    PROVE  LET t == NextFireAfter(Plan[a].rule, anchor, z, now)
           IN  t \in Int /\ (t = NoTime \/ t > now)
<1> DEFINE rule == Plan[a].rule
           p == rule.period
<1> SUFFICES /\ NextFireAfter(rule, anchor, z, now) \in Int
             /\ \/ NextFireAfter(rule, anchor, z, now) = NoTime
                \/ NextFireAfter(rule, anchor, z, now) > now
  OBVIOUS
<1>1. /\ rule.kind \in {"once", "daily", "interval"} /\ p \in Nat \ {0} /\ rule.at \in Int
      /\ NoTime \in Int /\ z \in Int
  BY PlanAssumption DEF NoTime, Zones
<1> HIDE DEF rule
<1>2. NextOnGrid(p, z, now) \in Int /\ NextOnGrid(p, z, now) > now
  <2> DEFINE x == now - z + p
             q == x \div p
  <2>1. x \in Int
    BY <1>1
  <2>2. NextOnGrid(p, z, now) = q * p + z
    BY DEF NextOnGrid
  <2>3. x = now - z + p
    OBVIOUS
  <2> HIDE DEF x
  <2>4. q \in Int /\ x < p * q + p
    BY <1>1, <2>1, Division
  <2> HIDE DEF q
  <2>5. q * p = p * q /\ p * q \in Int
    BY <1>1, <2>4
  <2> QED
    BY <1>1, <2>2, <2>3, <2>4, <2>5
<1>3. NextInterval(p, anchor, now) \in Int /\ NextInterval(p, anchor, now) > now
  <2> DEFINE base == IF anchor = NoTime THEN now ELSE anchor
             x == now - base
             q == x \div p
  <2>1. base \in Int
    BY <1>1
  <2>2. NextInterval(p, anchor, now) = IF base > now THEN base ELSE base + (q + 1) * p
    BY DEF NextInterval
  <2> HIDE DEF base
  <2>3. x \in Int /\ x = now - base
    BY <2>1
  <2> HIDE DEF x
  <2>4. q \in Int /\ x < p * q + p
    BY <1>1, <2>3, Division
  <2> HIDE DEF q
  <2> DEFINE m == (q + 1) * p
  <2>5. m = p * q + p /\ p * q \in Int
    BY <1>1, <2>4
  <2>6. m \in Int /\ now - base < m /\ NextInterval(p, anchor, now) = IF base > now THEN base ELSE base + m
    BY <1>1, <2>2, <2>3, <2>4, <2>5
  <2> HIDE DEF m
  <2> QED
    BY <2>1, <2>6
<1>4. NextFireAfter(rule, anchor, z, now) =
         CASE rule.kind = "interval" -> NextInterval(p, anchor, now)
           [] rule.kind = "daily" -> NextOnGrid(p, z, now)
           [] rule.kind = "once" -> IF rule.at > now THEN rule.at ELSE NoTime
  BY DEF NextFireAfter
<1>5. CASE rule.kind = "interval"
  BY <1>3, <1>4, <1>5
<1>6. CASE rule.kind = "daily"
  BY <1>2, <1>4, <1>6
<1>7. CASE rule.kind = "once"
  BY <1>1, <1>4, <1>7
<1> QED
  BY <1>1, <1>5, <1>6, <1>7

\* What one look at an action decides: a slot that is recorded was due, and
\* the next one lies ahead of the moment the loop read.
LEMMA DueFacts ==
    ASSUME NEW a \in Actions, NEW row \in ActionRow, NEW z \in Zones, NEW now \in Int,
           NEW busy \in BOOLEAN, NEW settled \in BOOLEAN
    PROVE  LET d == EvaluateDue(row, Plan[a], now, z, busy, settled)
           IN  /\ d.kind \in {"none", "reschedule", "skip", "fire"}
               /\ d.kind # "none" => d.next \in Int
               /\ d.kind = "fire" => /\ d.anchor \in Int /\ ~busy
                                     /\ d.trigger \in {"schedule", "catch_up"}
               /\ d.kind \in {"skip", "fire"} =>
                     /\ d.slot = row.next /\ row.next # NoTime /\ row.next <= now
                     /\ Ahead(d.next, now)
               /\ d.kind = "reschedule" => d.next = row.next \/ Ahead(d.next, now)
<1> DEFINE Roll(anchor) == NextFireAfter(Plan[a].rule, IF anchor = NoTime THEN row.anchor ELSE anchor,
                                         z, now)
           moved == IF Plan[a].rule.kind \in {"once", "interval"} /\ row.next # NoTime
                    THEN row.next ELSE Roll(NoTime)
           d == EvaluateDue(row, Plan[a], now, z, busy, settled)
<1>1. row.next \in Int /\ row.anchor \in Int /\ NoTime \in Int
  BY DEF ActionRow, NoTime
<1>2. \A anchor \in Int : Roll(anchor) \in Int /\ Ahead(Roll(anchor), now)
  BY <1>1, NextFireLiesAhead DEF Ahead
<1> HIDE DEF Roll
<1>3. /\ moved \in Int /\ Roll(now) \in Int /\ Roll(NoTime) \in Int /\ Roll(row.next) \in Int
      /\ Ahead(Roll(now), now) /\ Ahead(Roll(row.next), now) /\ Ahead(Roll(NoTime), now)
      /\ moved = row.next \/ Ahead(moved, now)
  BY <1>1, <1>2
<1>4. \/ d = Nothing
      \/ d = Reschedule(moved) \/ d = Reschedule(Roll(NoTime))
      \/ /\ row.next # NoTime /\ row.next <= now
         /\ \/ d = Skip(row.next, Roll(now))
            \/ ~busy /\ d = Fire("schedule", row.next, Roll(row.next), row.next)
            \/ ~busy /\ d = Fire("catch_up", row.next, Roll(now), now)
  BY <1>1 DEF EvaluateDue, Roll
<1> HIDE DEF moved, d
<1> SUFFICES /\ d.kind \in {"none", "reschedule", "skip", "fire"}
             /\ d.kind # "none" => d.next \in Int
             /\ d.kind = "fire" => /\ d.anchor \in Int /\ ~busy
                                   /\ d.trigger \in {"schedule", "catch_up"}
             /\ d.kind \in {"skip", "fire"} =>
                   /\ d.slot = row.next /\ row.next # NoTime /\ row.next <= now
                   /\ Ahead(d.next, now)
             /\ d.kind = "reschedule" => d.next = row.next \/ Ahead(d.next, now)
  BY DEF d
<1> QED
  BY <1>1, <1>3, <1>4 DEF Nothing, Reschedule, Skip, Fire

-----------------------------------------------------------------------------
(* New runs.                                                               *)

LEMMA IssuedCount ==
    ASSUME NEW n \in 0..MaxRuns, \A r \in Runs : runs[r].status # "absent" <=> r <= n
    PROVE  Issued = n
<1>1. {r \in Runs : runs[r].status # "absent"} = 1..n
  BY ScheduleAssumption DEF Runs
<1>2. Cardinality(1..n) = n
  BY FS_Interval
<1> QED
  BY <1>1, <1>2 DEF Issued

Rank(S, a) == Cardinality({b \in S : b <= a})

\* Counting the recorded actions up to each one numbers them without a gap.
LEMMA RanksAreNumbers ==
    ASSUME NEW S \in SUBSET Actions
    PROVE  /\ Cardinality(S) \in Nat
           /\ \A a \in S : Rank(S, a) \in 1..Cardinality(S)
           /\ \A a, b \in S : Rank(S, a) = Rank(S, b) => a = b
           /\ \A k \in 1..Cardinality(S) : \E a \in S : Rank(S, a) = k
<1> DEFINE c == Cardinality(S)
           Upto(a) == {b \in S : b <= a}
           f == [a \in S |-> Rank(S, a)]
<1>1. IsFiniteSet(S) /\ c \in Nat
  <2>1. IsFiniteSet(Actions)
    BY FS_Interval, ScheduleAssumption DEF Actions
  <2>2. IsFiniteSet(S)
    BY <2>1, FS_Subset
  <2> QED
    BY <2>2, FS_CardinalityType
<1>2. \A a \in S : IsFiniteSet(Upto(a)) /\ Cardinality(Upto(a)) \in Nat /\ Cardinality(Upto(a)) <= c
  <2> SUFFICES ASSUME NEW a \in S
               PROVE  IsFiniteSet(Upto(a)) /\ Cardinality(Upto(a)) \in Nat /\ Cardinality(Upto(a)) <= c
    OBVIOUS
  <2>1. Upto(a) \in SUBSET S
    OBVIOUS
  <2> HIDE DEF Upto
  <2>2. IsFiniteSet(Upto(a)) /\ Cardinality(Upto(a)) <= c
    BY <1>1, <2>1, FS_Subset
  <2> QED
    BY <2>2, FS_CardinalityType
<1>3. \A a \in S : Cardinality(Upto(a)) # 0
  <2> SUFFICES ASSUME NEW a \in S
               PROVE  Cardinality(Upto(a)) # 0
    OBVIOUS
  <2>1. a \in Upto(a)
    BY DEF Actions
  <2> HIDE DEF Upto
  <2> QED
    BY <1>2, <2>1, FS_EmptySet
<1>4. \A a \in S : Rank(S, a) = Cardinality(Upto(a))
  BY DEF Rank
<1> HIDE DEF c, Upto
<1>5. \A a \in S : Rank(S, a) \in 1..c
  <2> SUFFICES ASSUME NEW a \in S
               PROVE  Cardinality(Upto(a)) \in 1..c
    BY <1>4
  <2> DEFINE k == Cardinality(Upto(a))
  <2>1. k \in Nat /\ k <= c /\ k # 0
    BY <1>2, <1>3
  <2> HIDE DEF k
  <2>2. k \in 1..c
    BY <1>1, <2>1
  <2> QED
    BY <2>2 DEF k
<1>6. ASSUME NEW a \in S, NEW b \in S, a < b
      PROVE  Rank(S, a) # Rank(S, b)
  <2>1. a \in Int /\ b \in Int
    BY DEF Actions
  <2>2. Upto(a) \in SUBSET Upto(b) /\ b \in Upto(b) /\ b \notin Upto(a)
    <3> USE DEF Upto
    <3>1. \A x \in S : x \in Int /\ (x <= a => x <= b)
      BY <1>6, <2>1 DEF Actions
    <3>2. b <= b /\ ~(b <= a)
      BY <1>6, <2>1
    <3> QED
      BY <3>1, <3>2
  <2>3. IsFiniteSet(Upto(b)) /\ Upto(b) # Upto(a)
    BY <1>2, <2>2
  <2>4. Cardinality(Upto(b)) # Cardinality(Upto(a))
    BY <2>2, <2>3, FS_Subset
  <2> QED
    BY <1>4, <2>4
<1>7. \A a, b \in S : Rank(S, a) = Rank(S, b) => a = b
  <2>1. \A a, b \in S : a < b \/ b < a \/ a = b
    BY DEF Actions
  <2> QED
    BY <1>6, <2>1
<1>8. f \in Injection(S, 1..c)
  BY <1>5, <1>7 DEF Injection, IsInjective
<1>9. IsFiniteSet(1..c) /\ Cardinality(1..c) = c
  BY <1>1, FS_Interval
<1>10. f \in Surjection(S, 1..c)
  BY <1>8, <1>9, FS_Injection DEF c
<1>11. \A k \in 1..c : \E a \in S : f[a] = k
  BY <1>10 DEF Surjection
<1> QED
  BY <1>1, <1>5, <1>7, <1>11 DEF c

LEMMA NewRowFacts ==
    ASSUME NEW a \in Actions, NEW trigger \in Triggers, NEW occurrence \in Occurrences,
           NEW status \in {"skipped", FirstStatus(a)}
    PROVE  LET row == NewRow(a, trigger, status, occurrence)
               task == IF status = "skipped" THEN "none" ELSE "committed"
           IN  /\ row \in RunRow /\ row.status = status /\ row.action = a
               /\ Sound(row, task, "none", {})
<1> DEFINE row == NewRow(a, trigger, status, occurrence)
           task == IF status = "skipped" THEN "none" ELSE "committed"
<1>1. /\ row.status = status /\ row.action = a /\ row.plan = a /\ row.attempts = <<>>
      /\ row.trigger = trigger /\ row.occurrence = occurrence
  BY DEF NewRow
<1>2. <<>> \in Seq(AttemptStates) /\ Len(<<>>) = 0
  BY EmptySeq
<1>3. status \in {"skipped", "awaiting_target", "pending"}
  BY DEF FirstStatus
<1>4. row \in RunRow
  BY <1>2, <1>3 DEF NewRow, RunRow, RunStatuses, Ended, InFlight
<1> HIDE DEF row
<1>5. status = "skipped" \/ status = FirstStatus(a)
  OBVIOUS
<1>6. Staged(row, task, "none")
  BY <1>1, <1>3, <1>5 DEF Staged, InFlight, Over, Walk
<1>7. Recorded(row, task, "none", {})
  BY <1>1, <1>2, <1>3, StepsTyped DEF Recorded
<1>8. Earned(row, "none")
  BY <1>1, <1>3 DEF Earned
<1> QED
  BY <1>1, <1>4, <1>6, <1>7, <1>8 DEF Sound, row

\* Runs number n+1 to m are recorded for the actions of S, those of F to be
\* carried out; R names the run of each.
NewRuns(S, F, R, n, m) ==
    /\ \A r \in Runs : runs[r].status # "absent" <=> r <= n
    /\ \A r \in Runs : (n < r /\ r <= m) <=> \E a \in S : R[a] = r
    /\ \A a, b \in S : R[a] = R[b] => a = b
    /\ \A a \in F : ~Busy(a)
    /\ runs' = [r \in Runs |-> runs'[r]] /\ tasks' = [r \in Runs |-> tasks'[r]]
    /\ \A a \in S : \E trigger \in Triggers, occurrence \in Occurrences :
          runs'[R[a]] = NewRow(a, trigger, IF a \in F THEN FirstStatus(a) ELSE "skipped",
                               occurrence)
    /\ \A a \in S : tasks'[R[a]] = IF a \in F THEN "committed" ELSE "none"
    /\ \A r \in Runs : (\A a \in S : R[a] # r) => runs'[r] = runs[r] /\ tasks'[r] = tasks[r]
    /\ drivers' = drivers /\ did' = did /\ permit' = permit
    /\ \A a \in Actions : actions'[a].exists = actions[a].exists
    /\ \A a \in Actions :
          IF a \in S /\ ~Busy(a)
          THEN /\ actions'[a].lastRun = R[a]
               /\ actions'[a].lastStatus = IF a \in F THEN FirstStatus(a) ELSE "skipped"
          ELSE /\ actions'[a].lastRun = actions[a].lastRun
               /\ actions'[a].lastStatus = actions[a].lastStatus

LEMMA NewRunsKeepInv ==
    ASSUME ScheduleInv, NEW S \in SUBSET Live, NEW F \in SUBSET S, NEW R \in [S -> Runs],
           NEW n \in 0..MaxRuns, NEW m \in 0..MaxRuns, n <= m, NewRuns(S, F, R, n, m),
           torn' = torn
    PROVE  RunsInv' /\ PermitInv' /\ ListInv' /\ InOrder'
<1> USE DEF NewRuns
<1> DEFINE Status(a) == IF a \in F THEN FirstStatus(a) ELSE "skipped"
<1>1. /\ S \subseteq Actions /\ RunsInv /\ WorldType /\ ListedInv /\ OwnedInv /\ PermitInv
      /\ \A a \in S : actions[a].exists
  BY DEF Live, ScheduleInv, ListInv
<1>2. \A a \in S : /\ R[a] \in Runs /\ runs[R[a]].status = "absent" /\ n < R[a] /\ R[a] <= m
  <2>1. \A a \in S : R[a] \in Runs /\ n < R[a] /\ R[a] <= m
    OBVIOUS
  <2>2. \A a \in S : ~(R[a] <= n)
    BY <2>1 DEF Runs
  <2> QED
    BY <2>1, <2>2
<1>3. \A a \in S : /\ tasks[R[a]] = "none" /\ drivers[R[a]] = "none" /\ did[R[a]] = {}
                   /\ R[a] # NoRun
  <2> SUFFICES ASSUME NEW a \in S
               PROVE  tasks[R[a]] = "none" /\ drivers[R[a]] = "none" /\ did[R[a]] = {} /\ R[a] # NoRun
    OBVIOUS
  <2>1. Sound(runs[R[a]], tasks[R[a]], drivers[R[a]], did[R[a]])
    BY <1>1, <1>2, RunTyped
  <2> QED
    BY <1>2, <2>1 DEF Sound, Staged, Recorded, Runs, NoRun
<1>4. \A a \in S : /\ runs'[R[a]] \in RunRow /\ runs'[R[a]].status = Status(a)
                   /\ runs'[R[a]].action = a
                   /\ Sound(runs'[R[a]], tasks'[R[a]], "none", {})
                   /\ tasks'[R[a]] \in {"none", "committed"}
                   /\ Status(a) \in {"skipped", "awaiting_target", "pending"}
  <2> SUFFICES ASSUME NEW a \in S
               PROVE  /\ runs'[R[a]] \in RunRow /\ runs'[R[a]].status = Status(a)
                      /\ runs'[R[a]].action = a
                      /\ Sound(runs'[R[a]], tasks'[R[a]], "none", {})
                      /\ tasks'[R[a]] \in {"none", "committed"}
                      /\ Status(a) \in {"skipped", "awaiting_target", "pending"}
    OBVIOUS
  <2>1. PICK trigger \in Triggers, occurrence \in Occurrences :
           runs'[R[a]] = NewRow(a, trigger, Status(a), occurrence)
    OBVIOUS
  <2>2. Status(a) \in {"skipped", FirstStatus(a)} /\ (Status(a) = "skipped" <=> a \notin F)
    BY DEF FirstStatus
  <2>3. tasks'[R[a]] = IF Status(a) = "skipped" THEN "none" ELSE "committed"
    BY <2>2
  <2>4. Status(a) \in {"skipped", "awaiting_target", "pending"}
    BY DEF FirstStatus
  <2> HIDE DEF Status
  <2> QED
    BY <1>1, <2>1, <2>2, <2>3, <2>4, NewRowFacts
<1> HIDE DEF Status
<1>5. \A r \in Runs : \/ \E a \in S : R[a] = r
                      \/ runs'[r] = runs[r] /\ tasks'[r] = tasks[r]
  OBVIOUS
<1>6. \A r \in Runs : /\ runs'[r] \in RunRow /\ tasks'[r] \in TaskStates
                      /\ Sound(runs'[r], tasks'[r], drivers'[r], did'[r])
  <2> SUFFICES ASSUME NEW r \in Runs
               PROVE  /\ runs'[r] \in RunRow /\ tasks'[r] \in TaskStates
                      /\ Sound(runs'[r], tasks'[r], drivers'[r], did'[r])
    OBVIOUS
  <2>1. CASE \E a \in S : R[a] = r
    <3>1. PICK a \in S : R[a] = r
      BY <2>1
    <3>2. drivers'[r] = "none" /\ did'[r] = {}
      BY <1>3, <3>1
    <3>3. /\ runs'[r] \in RunRow /\ Sound(runs'[r], tasks'[r], "none", {})
          /\ tasks'[r] \in {"none", "committed"}
      BY <1>4, <3>1
    <3> QED
      BY <3>2, <3>3 DEF TaskStates
  <2>2. CASE runs'[r] = runs[r] /\ tasks'[r] = tasks[r]
    BY <1>1, <2>2, RunTyped
  <2> QED
    BY <1>5, <2>1, <2>2
<1>7. RunsInv'
  <2>1. runs' \in [Runs -> RunRow] /\ tasks' \in [Runs -> TaskStates]
    BY <1>6
  <2>2. drivers' \in [Runs -> DriverStates] /\ did' \in [Runs -> SUBSET Nat]
    BY <1>1 DEF RunsInv, MemoryType
  <2> QED
    BY <1>6, <2>1, <2>2 DEF RunsInv, MemoryType
<1>8. PermitInv'
  <2> SUFFICES ASSUME NEW r \in Runs, tasks'[r] \in Holding
               PROVE  permit = r
    BY DEF PermitInv
  <2>1. tasks'[r] = tasks[r]
    BY <1>4, <1>5 DEF Holding, Walk
  <2> QED
    BY <1>1, <2>1 DEF PermitInv
<1>9. ListedInv'
  <2> SUFFICES ASSUME NEW a \in Actions
               PROVE  /\ ~actions'[a].exists => actions'[a].lastRun = NoRun
                      /\ actions'[a].lastRun # NoRun =>
                            /\ runs'[actions'[a].lastRun].status # "absent"
                            /\ runs'[actions'[a].lastRun].status # "deleted"
                                  /\ actions'[a].lastRun \notin torn =>
                                  actions'[a].lastStatus = runs'[actions'[a].lastRun].status
    BY DEF ListedInv
  <2>1. CASE a \in S /\ ~Busy(a)
    BY <1>1, <1>2, <1>4, <2>1 DEF Status
  <2>2. CASE ~(a \in S /\ ~Busy(a))
    <3>1. /\ actions'[a].lastRun = actions[a].lastRun
          /\ actions'[a].lastStatus = actions[a].lastStatus
      BY <2>2
    <3>2. CASE actions[a].lastRun # NoRun
      <4>1. actions[a].lastRun \in Runs /\ runs[actions[a].lastRun].status # "absent"
        BY <1>1, <3>2 DEF ListedInv, WorldType, ActionRow
      <4>2. runs'[actions[a].lastRun] = runs[actions[a].lastRun]
        BY <1>2, <1>5, <4>1
      <4> QED
        BY <1>1, <3>1, <3>2, <4>2 DEF ListedInv
    <3> QED
      BY <1>1, <3>1, <3>2 DEF ListedInv
  <2> QED
    BY <2>1, <2>2
<1>10. OwnedInv'
  <2> SUFFICES ASSUME NEW r \in Runs, runs'[r].action # NoAction
               PROVE  /\ actions'[runs'[r].action].exists
                      /\ runs'[r].status \in InFlight => actions'[runs'[r].action].lastRun = r
    BY DEF OwnedInv
  <2>1. CASE \E a \in S : R[a] = r
    <3>1. PICK a \in S : R[a] = r
      BY <2>1
    <3>2. runs'[r].action = a /\ runs'[r].status = Status(a)
      BY <1>4, <3>1
    <3>3. Status(a) \in InFlight => a \in F
      BY DEF Status, InFlight
    <3> QED
      BY <1>1, <3>1, <3>2, <3>3
  <2>2. CASE runs'[r] = runs[r]
    <3> DEFINE a == runs[r].action
    <3>1. a \in Actions /\ a # NoAction
      BY <1>1, <2>2 DEF RunsInv, MemoryType, RunRow
    <3>2. actions[a].exists /\ (runs[r].status \in InFlight => actions[a].lastRun = r)
      BY <1>1, <3>1 DEF OwnedInv
    <3>3. runs[r].status \in InFlight => Busy(a)
      BY DEF Busy
    <3> QED
      BY <2>2, <3>1, <3>2, <3>3
  <2> QED
    BY <1>5, <2>1, <2>2
<1>11. InOrder'
  <2>1. \A r \in Runs : runs'[r].status # "absent" <=> r <= m
    <3> SUFFICES ASSUME NEW r \in Runs
                 PROVE  runs'[r].status # "absent" <=> r <= m
      OBVIOUS
    <3>1. r \in Int /\ n \in Int /\ m \in Int
      BY DEF Runs
    <3>2. CASE \E a \in S : R[a] = r
      BY <1>2, <1>4, <3>2
    <3>3. CASE ~\E a \in S : R[a] = r
      BY <3>1, <3>3
    <3> QED
      BY <3>2, <3>3
  <2> QED
    BY <2>1 DEF InOrder
<1> QED
  BY <1>7, <1>8, <1>9, <1>10, <1>11 DEF ListInv

\* One pass of the loop: the runs of S are new, each records the slot and the
\* reckonings it was decided in, and every slot that was due is rolled on.
Recording(S, R) ==
    /\ \A a \in S : /\ runs[R[a]].status = "absent"
                    /\ actions[a].next # NoTime /\ actions[a].next <= loop.now
                    /\ \E trigger \in Triggers, status \in {"skipped", FirstStatus(a)} :
                          runs'[R[a]] = NewRow(a, trigger, status,
                              <<a, actions[a].next, actions[a].era, loop.era>>)
                    /\ Ahead(actions'[a].next, loop.now)
    /\ \A a, b \in S : R[a] = R[b] => a = b
    /\ \A r \in Runs : (\A a \in S : R[a] # r) => runs'[r] = runs[r]
    /\ \A a \in Actions : /\ actions'[a].next = actions[a].next \/ Ahead(actions'[a].next, loop.now)
                          /\ actions'[a].era \in {actions[a].era, loop.era}

LEMMA DecideKeepsInv ==
    ASSUME ScheduleInv, Decide
    PROVE  /\ ScheduleInv'
           /\ \E S \in SUBSET Actions : \E R \in [S -> Runs] : Recording(S, R)
<1> USE DEF ScheduleInv
<1>1. PICK settled \in BOOLEAN :
       LET decision == [a \in Actions |->
               IF a \notin Live THEN Nothing
               ELSE EvaluateDue(actions[a], Plan[a], loop.now, zone, Busy(a), settled)]
           recorded == {a \in Actions : decision[a].kind \in {"skip", "fire"}}
           RunOf(a) == Issued + Cardinality({b \in recorded : b <= a})
       IN  /\ Issued + Cardinality(recorded) <= MaxRuns
           /\ \E refused \in SUBSET {a \in recorded : decision[a].kind = "fire"} :
                LET fired == {a \in recorded : decision[a].kind = "fire"} \ refused
                    status == [a \in Actions |->
                                 IF a \in fired THEN FirstStatus(a) ELSE "skipped"]
                    trigger == [a \in Actions |->
                                 IF decision[a].kind = "fire" THEN decision[a].trigger
                                 ELSE "schedule"]
                IN  /\ actions' = [a \in Actions |->
                          IF a \in recorded THEN Rolled(a, decision[a], RunOf(a), status[a])
                          ELSE IF decision[a].kind = "reschedule"
                          THEN [actions[a] EXCEPT !.next = decision[a].next, !.zone = zone,
                                                     !.era = loop.era]
                          ELSE actions[a]]
                    /\ runs' = [r \in Runs |->
                          IF \E a \in recorded : RunOf(a) = r
                          THEN LET a == CHOOSE b \in recorded : RunOf(b) = r
                               IN  NewRow(a, trigger[a], status[a],
                                          <<a, decision[a].slot, actions[a].era, loop.era>>)
                          ELSE runs[r]]
                    /\ tasks' = [r \in Runs |->
                          IF \E a \in fired : RunOf(a) = r THEN "committed" ELSE tasks[r]]
  BY DEF Decide
<1> DEFINE decision == [a \in Actions |->
               IF a \notin Live THEN Nothing
               ELSE EvaluateDue(actions[a], Plan[a], loop.now, zone, Busy(a), settled)]
           recorded == {a \in Actions : decision[a].kind \in {"skip", "fire"}}
           RunOf(a) == Issued + Cardinality({b \in recorded : b <= a})
<1>2. PICK fired \in SUBSET {a \in recorded : decision[a].kind = "fire"} :
        LET status == [a \in Actions |-> IF a \in fired THEN FirstStatus(a) ELSE "skipped"]
            trigger == [a \in Actions |->
                          IF decision[a].kind = "fire" THEN decision[a].trigger ELSE "schedule"]
        IN  /\ actions' = [a \in Actions |->
                  IF a \in recorded THEN Rolled(a, decision[a], RunOf(a), status[a])
                  ELSE IF decision[a].kind = "reschedule"
                  THEN [actions[a] EXCEPT !.next = decision[a].next, !.zone = zone,
                                             !.era = loop.era]
                  ELSE actions[a]]
            /\ runs' = [r \in Runs |->
                  IF \E a \in recorded : RunOf(a) = r
                  THEN LET a == CHOOSE b \in recorded : RunOf(b) = r
                       IN  NewRow(a, trigger[a], status[a],
                                  <<a, decision[a].slot, actions[a].era, loop.era>>)
                  ELSE runs[r]]
            /\ tasks' = [r \in Runs |->
                  IF \E a \in fired : RunOf(a) = r THEN "committed" ELSE tasks[r]]
  BY <1>1
<1> DEFINE Status(a) == IF a \in fired THEN FirstStatus(a) ELSE "skipped"
           Trigger(a) == IF decision[a].kind = "fire" THEN decision[a].trigger ELSE "schedule"
           Occurrence(a) == <<a, decision[a].slot, actions[a].era, loop.era>>
<1>3. \A a \in Actions :
        /\ decision[a].kind \in {"none", "reschedule", "skip", "fire"}
        /\ decision[a].kind # "none" => decision[a].next \in Int /\ a \in Live
        /\ decision[a].kind = "fire" => /\ decision[a].anchor \in Int /\ ~Busy(a)
                                        /\ decision[a].trigger \in {"schedule", "catch_up"}
        /\ decision[a].kind \in {"skip", "fire"} =>
              /\ decision[a].slot = actions[a].next /\ decision[a].slot \in Int
              /\ actions[a].next # NoTime /\ actions[a].next <= loop.now
              /\ Ahead(decision[a].next, loop.now)
        /\ decision[a].kind = "reschedule" =>
              decision[a].next = actions[a].next \/ Ahead(decision[a].next, loop.now)
  <2> SUFFICES ASSUME NEW a \in Actions
               PROVE  /\ decision[a].kind \in {"none", "reschedule", "skip", "fire"}
                      /\ decision[a].kind # "none" => decision[a].next \in Int /\ a \in Live
                      /\ decision[a].kind = "fire" =>
                            /\ decision[a].anchor \in Int /\ ~Busy(a)
                            /\ decision[a].trigger \in {"schedule", "catch_up"}
                      /\ decision[a].kind \in {"skip", "fire"} =>
                            /\ decision[a].slot = actions[a].next /\ decision[a].slot \in Int
                            /\ actions[a].next # NoTime /\ actions[a].next <= loop.now
                            /\ Ahead(decision[a].next, loop.now)
                      /\ decision[a].kind = "reschedule" =>
                            decision[a].next = actions[a].next \/ Ahead(decision[a].next, loop.now)
    OBVIOUS
  <2>1. CASE a \notin Live
    BY <2>1 DEF Nothing
  <2>2. CASE a \in Live
    <3>1. decision[a] = EvaluateDue(actions[a], Plan[a], loop.now, zone, Busy(a), settled)
      BY <2>2
    <3>2. /\ actions[a] \in ActionRow /\ zone \in Zones /\ loop.now \in Int /\ Busy(a) \in BOOLEAN
          /\ actions[a].next \in Int
      BY DEF WorldType, LoopRow, ActionRow, Busy
    <3> HIDE DEF decision
    <3> QED
      BY <2>2, <3>1, <3>2, DueFacts
  <2> QED
    BY <2>1, <2>2
<1>4. Issued + Cardinality(recorded) <= MaxRuns
  BY <1>1
<1> HIDE DEF decision
<1>5. recorded \in SUBSET Live /\ recorded \in SUBSET Actions /\ fired \in SUBSET recorded
  BY <1>3 DEF Live
<1>6. PICK n \in 0..MaxRuns : \A r \in Runs : runs[r].status # "absent" <=> r <= n
  BY DEF InOrder
<1> DEFINE m == n + Cardinality(recorded)
           R == [a \in recorded |-> RunOf(a)]
<1> HIDE DEF recorded
<1>7. /\ Issued = n /\ Cardinality(recorded) \in Nat /\ m \in 0..MaxRuns /\ n <= m
  BY <1>4, <1>5, <1>6, IssuedCount, RanksAreNumbers, ScheduleAssumption
<1>8. \A a \in recorded : RunOf(a) = n + Rank(recorded, a)
  BY <1>7 DEF Rank
<1> HIDE DEF RunOf
<1>9. /\ \A a \in recorded : RunOf(a) \in Runs /\ n < RunOf(a) /\ RunOf(a) <= m
      /\ \A a, b \in recorded : RunOf(a) = RunOf(b) => a = b
  <2>1. \A a \in recorded : Rank(recorded, a) \in 1..Cardinality(recorded)
    BY <1>5, RanksAreNumbers
  <2>2. \A a, b \in recorded : Rank(recorded, a) = Rank(recorded, b) => a = b
    BY <1>5, RanksAreNumbers
  <2>3. \A a \in recorded : RunOf(a) \in Runs /\ n < RunOf(a) /\ RunOf(a) <= m
    <3> SUFFICES ASSUME NEW a \in recorded
                 PROVE  RunOf(a) \in Runs /\ n < RunOf(a) /\ RunOf(a) <= m
      OBVIOUS
    <3> DEFINE k == Rank(recorded, a)
               c == Cardinality(recorded)
    <3>1. k \in 1..c /\ c \in Nat /\ n + c \in 0..MaxRuns /\ RunOf(a) = n + k
      BY <1>7, <1>8, <2>1
    <3> HIDE DEF k, c
    <3>2. n + k \in 1..MaxRuns /\ n < n + k /\ n + k <= n + c
      BY <3>1, ScheduleAssumption
    <3> QED
      BY <3>1, <3>2 DEF c, Runs
  <2>4. \A a, b \in recorded : RunOf(a) = RunOf(b) => Rank(recorded, a) = Rank(recorded, b)
    BY <1>7, <1>8, <2>1
  <2> QED
    BY <2>2, <2>3, <2>4
<1>10. \A r \in Runs : (n < r /\ r <= m) <=> \E a \in recorded : RunOf(a) = r
  <2> SUFFICES ASSUME NEW r \in Runs, n < r, r <= m
               PROVE  \E a \in recorded : RunOf(a) = r
    BY <1>9
  <2>1. r - n \in 1..Cardinality(recorded)
    BY <1>7 DEF Runs
  <2>2. PICK a \in recorded : Rank(recorded, a) = r - n
    BY <1>5, <2>1, RanksAreNumbers
  <2>3. RunOf(a) = r
    BY <1>7, <1>8, <2>2 DEF Runs
  <2> QED
    BY <2>3
<1>11. \A a \in recorded :
         /\ runs'[RunOf(a)] = NewRow(a, Trigger(a), Status(a), Occurrence(a))
         /\ Trigger(a) \in Triggers /\ Occurrence(a) \in Occurrences
  <2> SUFFICES ASSUME NEW a \in recorded
               PROVE  /\ runs'[RunOf(a)] = NewRow(a, Trigger(a), Status(a), Occurrence(a))
                      /\ Trigger(a) \in Triggers /\ Occurrence(a) \in Occurrences
    OBVIOUS
  <2>1. a = CHOOSE b \in recorded : RunOf(b) = RunOf(a)
    BY <1>9
  <2>2. a \in Actions /\ decision[a].kind \in {"skip", "fire"} /\ RunOf(a) \in Runs
    BY <1>9 DEF recorded
  <2>3. runs'[RunOf(a)] = NewRow(a, Trigger(a), Status(a), Occurrence(a))
    BY <1>2, <2>1, <2>2
  <2>4. actions[a].era \in Nat /\ loop.era \in Nat
    BY <2>2 DEF WorldType, ActionRow, LoopRow
  <2> QED
    BY <1>3, <2>2, <2>3, <2>4 DEF Triggers, Occurrences
<1>12. /\ runs' = [r \in Runs |-> runs'[r]] /\ tasks' = [r \in Runs |-> tasks'[r]]
       /\ \A r \in Runs : (\A a \in recorded : RunOf(a) # r) =>
             runs'[r] = runs[r] /\ tasks'[r] = tasks[r]
  BY <1>2, <1>5
<1>13. \A a \in recorded : tasks'[RunOf(a)] = IF a \in fired THEN "committed" ELSE "none"
  <2> SUFFICES ASSUME NEW a \in recorded
               PROVE  tasks'[RunOf(a)] = IF a \in fired THEN "committed" ELSE "none"
    OBVIOUS
  <2>1. RunOf(a) \in Runs /\ ~(RunOf(a) <= n)
    BY <1>9 DEF Runs
  <2>2. runs[RunOf(a)].status = "absent"
    BY <1>6, <2>1
  <2>3. tasks[RunOf(a)] = "none"
    BY <2>1, <2>2, RunTyped DEF Sound, Staged
  <2>4. tasks'[RunOf(a)] = IF \E b \in fired : RunOf(b) = RunOf(a) THEN "committed" ELSE tasks[RunOf(a)]
    BY <1>2, <2>1
  <2>5. (\E b \in fired : RunOf(b) = RunOf(a)) <=> a \in fired
    BY <1>5, <1>9
  <2> QED
    BY <2>3, <2>4, <2>5
<1>14. \A a \in Actions :
         /\ actions'[a] \in ActionRow /\ actions'[a].exists = actions[a].exists
         /\ IF a \in recorded /\ ~Busy(a)
            THEN actions'[a].lastRun = RunOf(a) /\ actions'[a].lastStatus = Status(a)
            ELSE /\ actions'[a].lastRun = actions[a].lastRun
                 /\ actions'[a].lastStatus = actions[a].lastStatus
         /\ a \in recorded => Ahead(actions'[a].next, loop.now)
         /\ actions'[a].next = actions[a].next \/ Ahead(actions'[a].next, loop.now)
         /\ actions'[a].era \in {actions[a].era, loop.era}
  <2> SUFFICES ASSUME NEW a \in Actions
               PROVE  /\ actions'[a] \in ActionRow /\ actions'[a].exists = actions[a].exists
                      /\ IF a \in recorded /\ ~Busy(a)
                         THEN actions'[a].lastRun = RunOf(a) /\ actions'[a].lastStatus = Status(a)
                         ELSE /\ actions'[a].lastRun = actions[a].lastRun
                              /\ actions'[a].lastStatus = actions[a].lastStatus
                      /\ a \in recorded => Ahead(actions'[a].next, loop.now)
                      /\ actions'[a].next = actions[a].next \/ Ahead(actions'[a].next, loop.now)
                      /\ actions'[a].era \in {actions[a].era, loop.era}
    OBVIOUS
  <2>1. /\ actions[a] \in ActionRow /\ zone \in Zones /\ loop.era \in Nat
        /\ Status(a) \in RunStatuses
    BY DEF WorldType, LoopRow, FirstStatus, RunStatuses, InFlight, Ended
  <2> HIDE DEF Status
  <2>2. CASE a \in recorded
    <3>1. actions'[a] = Rolled(a, decision[a], RunOf(a), Status(a))
      BY <1>2, <2>2 DEF Status
    <3>2. decision[a].kind \in {"skip", "fire"} /\ RunOf(a) \in Runs
      BY <1>9, <2>2 DEF recorded
    <3>3. /\ decision[a].next \in Int
          /\ decision[a].kind = "fire" => decision[a].anchor \in Int
          /\ Busy(a) => decision[a].kind = "skip"
          /\ Ahead(decision[a].next, loop.now)
      BY <1>3, <3>2
    <3> DEFINE d == decision[a]
               row == actions[a]
               rolled == [row EXCEPT !.next = d.next, !.era = loop.era,
                             !.anchor = IF d.kind = "fire" THEN d.anchor ELSE @,
                             !.enabled = IF Plan[a].rule.kind = "once" /\ d.next = NoTime
                                         THEN FALSE ELSE @]
    <3>4. /\ actions'[a] = IF d.kind = "skip" /\ Busy(a) THEN rolled
                           ELSE [rolled EXCEPT !.lastRun = RunOf(a), !.lastStatus = Status(a)]
      BY <3>1 DEF Rolled
    <3>5. /\ rolled \in ActionRow /\ rolled.exists = row.exists
          /\ rolled.lastRun = row.lastRun /\ rolled.lastStatus = row.lastStatus
          /\ rolled.next = d.next /\ rolled.era = loop.era
      BY <2>1, <3>3 DEF ActionRow
    <3> HIDE DEF rolled
    <3>6. [rolled EXCEPT !.lastRun = RunOf(a), !.lastStatus = Status(a)] \in ActionRow
      BY <2>1, <3>2, <3>5 DEF ActionRow
    <3>7. /\ [rolled EXCEPT !.lastRun = RunOf(a), !.lastStatus = Status(a)].exists = rolled.exists
          /\ [rolled EXCEPT !.lastRun = RunOf(a), !.lastStatus = Status(a)].lastRun = RunOf(a)
          /\ [rolled EXCEPT !.lastRun = RunOf(a), !.lastStatus = Status(a)].lastStatus = Status(a)
          /\ [rolled EXCEPT !.lastRun = RunOf(a), !.lastStatus = Status(a)].next = rolled.next
          /\ [rolled EXCEPT !.lastRun = RunOf(a), !.lastStatus = Status(a)].era = rolled.era
      BY <3>5 DEF ActionRow
    <3>8. CASE Busy(a)
      BY <3>3, <3>4, <3>5, <3>8
    <3>9. CASE ~Busy(a)
      <4> DEFINE new == [rolled EXCEPT !.lastRun = RunOf(a), !.lastStatus = Status(a)]
      <4>1. /\ new \in ActionRow /\ new.exists = row.exists
            /\ new.lastRun = RunOf(a) /\ new.lastStatus = Status(a)
            /\ new.next = d.next /\ new.era = loop.era
        BY <3>5, <3>6, <3>7
      <4>2. actions'[a] = new
        BY <3>4, <3>9
      <4> HIDE DEF new
      <4> QED
        BY <2>2, <3>3, <3>9, <4>1, <4>2
    <3> QED
      BY <3>8, <3>9
  <2>3. CASE a \notin recorded /\ decision[a].kind = "reschedule"
    <3>1. /\ actions'[a] = [actions[a] EXCEPT !.next = decision[a].next, !.zone = zone,
                                             !.era = loop.era]
          /\ decision[a].next \in Int
          /\ decision[a].next = actions[a].next \/ Ahead(decision[a].next, loop.now)
      BY <1>2, <1>3, <2>3
    <3> QED
      BY <2>1, <2>3, <3>1 DEF ActionRow
  <2>4. CASE a \notin recorded /\ decision[a].kind # "reschedule"
    <3>1. actions'[a] = actions[a]
      BY <1>2, <2>4
    <3> QED
      BY <2>1, <2>4, <3>1
  <2> QED
    BY <2>2, <2>3, <2>4
<1>15. UNCHANGED <<gate, clock, zone, era, torn, cancels, permit, drivers, did>> /\ loop' \in LoopRow
  BY DEF Decide, world, WorldType, LoopRow
<1>16. WorldType'
  <2>1. actions' \in [Actions -> ActionRow]
    <3>1. actions' = [a \in Actions |-> actions'[a]]
      BY <1>2
    <3> QED
      BY <1>14, <3>1
  <2> QED
    BY <1>15, <2>1 DEF WorldType
<1>17. \A a \in fired : ~Busy(a)
  BY <1>3, <1>5
<1> QED
  <2>1. R \in [recorded -> Runs] /\ \A a \in recorded : R[a] = RunOf(a)
    BY <1>9
  <2> HIDE DEF R, m
  <2>2. \A r \in Runs : (n < r /\ r <= m) <=> \E a \in recorded : R[a] = r
    BY <1>10, <2>1
  <2>3. \A a, b \in recorded : R[a] = R[b] => a = b
    BY <1>9, <2>1
  <2>4. \A a \in recorded : \E trigger \in Triggers, occurrence \in Occurrences :
           runs'[R[a]] = NewRow(a, trigger, IF a \in fired THEN FirstStatus(a) ELSE "skipped",
                                occurrence)
    BY <1>11, <2>1
  <2>5. \A a \in recorded : tasks'[R[a]] = IF a \in fired THEN "committed" ELSE "none"
    BY <1>13, <2>1
  <2>6. \A r \in Runs : (\A a \in recorded : R[a] # r) => runs'[r] = runs[r] /\ tasks'[r] = tasks[r]
    BY <1>12, <2>1
  <2>7. \A a \in Actions :
           IF a \in recorded /\ ~Busy(a)
           THEN /\ actions'[a].lastRun = R[a]
                /\ actions'[a].lastStatus = IF a \in fired THEN FirstStatus(a) ELSE "skipped"
           ELSE /\ actions'[a].lastRun = actions[a].lastRun
                /\ actions'[a].lastStatus = actions[a].lastStatus
    BY <1>14, <2>1
  <2>8. \A a \in Actions : actions'[a].exists = actions[a].exists
    BY <1>14
  <2>9. /\ drivers' = drivers /\ did' = did /\ permit' = permit
        /\ runs' = [r \in Runs |-> runs'[r]] /\ tasks' = [r \in Runs |-> tasks'[r]]
        /\ m \in 0..MaxRuns /\ n <= m /\ recorded \in SUBSET Live /\ fired \in SUBSET recorded
    BY <1>5, <1>7, <1>12, <1>15
  <2> HIDE DEF ScheduleInv
  <2>10. NewRuns(recorded, fired, R, n, m)
    BY <1>6, <1>17, <2>2, <2>3, <2>4, <2>5, <2>6, <2>7, <2>8, <2>9 DEF NewRuns
  <2>11. RunsInv' /\ PermitInv' /\ ListInv' /\ InOrder'
    BY <1>15, <2>1, <2>9, <2>10, NewRunsKeepInv
  <2>12. Recording(recorded, R)
    <3>1. \A a \in recorded : runs[R[a]].status = "absent"
      <4>1. \A a \in recorded : R[a] \in Runs /\ ~(R[a] <= n)
        BY <1>7, <1>9, <2>1 DEF Runs
      <4> QED
        BY <1>6, <4>1
    <3>2. \A a \in recorded :
             /\ actions[a].next # NoTime /\ actions[a].next <= loop.now
             /\ decision[a].slot = actions[a].next
             /\ Status(a) \in {"skipped", FirstStatus(a)}
      BY <1>3, <1>5 DEF recorded
    <3>3. \A a \in recorded : \E trigger \in Triggers, status \in {"skipped", FirstStatus(a)} :
             runs'[R[a]] = NewRow(a, trigger, status, <<a, actions[a].next, actions[a].era, loop.era>>)
      <4> SUFFICES ASSUME NEW a \in recorded
                   PROVE  \E trigger \in Triggers, status \in {"skipped", FirstStatus(a)} :
             runs'[R[a]] = NewRow(a, trigger, status, <<a, actions[a].next, actions[a].era, loop.era>>)
        OBVIOUS
      <4>1. /\ Status(a) \in {"skipped", FirstStatus(a)} /\ Trigger(a) \in Triggers
            /\ runs'[R[a]] = NewRow(a, Trigger(a), Status(a), Occurrence(a))
        BY <1>11, <2>1, <3>2
      <4>2. Occurrence(a) = <<a, actions[a].next, actions[a].era, loop.era>>
        BY <3>2
      <4> QED
        BY <4>1, <4>2
    <3> QED
      BY <1>5, <1>14, <2>3, <2>6, <3>1, <3>2, <3>3 DEF Recording
  <2> QED
    BY <1>5, <1>16, <2>1, <2>11, <2>12 DEF ScheduleInv

LEMMA RunNowKeepsInv ==
    ASSUME ScheduleInv, NEW a \in Actions, RunNow(a)
    PROVE  ScheduleInv'
<1>1. PICK n \in 0..MaxRuns : \A r \in Runs : runs[r].status # "absent" <=> r <= n
  BY DEF ScheduleInv, InOrder
<1>2. Issued = n
  BY <1>1, IssuedCount
<1> DEFINE m == n + 1
           S == {a}
           R == [x \in S |-> m]
<1>3. n \in Nat /\ m \in 0..MaxRuns /\ n <= m /\ m \in Runs
  BY <1>2, ScheduleAssumption DEF RunNow, Runs
<1>4. /\ runs' = [runs EXCEPT ![m] = NewRow(a, "manual", FirstStatus(a), <<>>)]
      /\ tasks' = [tasks EXCEPT ![m] = "committed"] /\ a \in Live /\ ~Busy(a)
      /\ actions' = [actions EXCEPT ![a].lastRun = m, ![a].lastStatus = FirstStatus(a),
                  ![a].enabled = IF Plan[a].rule.kind = "once" /\ actions[a].next = NoTime
                                 THEN FALSE ELSE @]
      /\ UNCHANGED <<gate, clock, zone, era, torn, loop, cancels, permit, drivers, did>>
  BY <1>2 DEF RunNow, TaskTo, world
<1> HIDE DEF m
<1>5. \A r \in Runs : (n < r /\ r <= m) <=> r = m
  BY <1>3 DEF Runs, m
<1>6. /\ runs \in [Runs -> RunRow] /\ tasks \in [Runs -> TaskStates]
      /\ actions \in [Actions -> ActionRow] /\ FirstStatus(a) \in RunStatuses
  BY DEF ScheduleInv, WorldType, RunsInv, MemoryType, FirstStatus, RunStatuses, InFlight
<1>7. /\ \A r \in Runs : r # m => runs'[r] = runs[r] /\ tasks'[r] = tasks[r]
      /\ runs'[m] = NewRow(a, "manual", FirstStatus(a), <<>>) /\ tasks'[m] = "committed"
      /\ runs' = [r \in Runs |-> runs'[r]] /\ tasks' = [r \in Runs |-> tasks'[r]]
  BY <1>3, <1>4, <1>6
<1>8. /\ actions' \in [Actions -> ActionRow]
      /\ \A b \in Actions \ {a} : actions'[b] = actions[b]
      /\ actions'[a].exists = actions[a].exists
      /\ actions'[a].lastRun = m /\ actions'[a].lastStatus = FirstStatus(a)
  <2> DEFINE row == actions[a]
             on == IF Plan[a].rule.kind = "once" /\ actions[a].next = NoTime
                   THEN FALSE ELSE row.enabled
             new == [row EXCEPT !.lastRun = m, !.lastStatus = FirstStatus(a), !.enabled = on]
  <2>1. row \in ActionRow /\ on \in BOOLEAN
    BY <1>6 DEF ActionRow
  <2>2. actions' = [actions EXCEPT ![a] = new]
    BY <1>4, <1>6
  <2> HIDE DEF row, on
  <2>3. /\ new \in ActionRow /\ new.exists = row.exists
        /\ new.lastRun = m /\ new.lastStatus = FirstStatus(a)
    BY <1>3, <1>6, <2>1 DEF ActionRow
  <2> HIDE DEF new
  <2> QED
    BY <1>6, <2>2, <2>3 DEF row
<1>9. "manual" \in Triggers /\ <<>> \in Occurrences
  BY DEF Triggers, Occurrences
<1>10. R \in [S -> Runs] /\ R[a] = m /\ S \in SUBSET Live
  BY <1>3, <1>4
<1> HIDE DEF R
<1>11. NewRuns(S, S, R, n, m)
  BY <1>1, <1>4, <1>5, <1>7, <1>8, <1>9, <1>10 DEF NewRuns
<1>12. RunsInv' /\ PermitInv' /\ ListInv' /\ InOrder'
  BY <1>3, <1>4, <1>10, <1>11, NewRunsKeepInv
<1>13. WorldType'
  BY <1>4, <1>8 DEF ScheduleInv, WorldType
<1> QED
  BY <1>12, <1>13 DEF ScheduleInv

-----------------------------------------------------------------------------
(* The other steps of the loop, the user's commands and the world.         *)

\* No run moves and the list keeps what it says of runs.
LEMMA RestKeepsInv ==
    ASSUME ScheduleInv, WorldType', UNCHANGED <<runs, tasks, drivers, did, permit, torn>>,
           \A a \in Actions :
              /\ actions'[a].lastRun = actions[a].lastRun /\ actions'[a].exists = actions[a].exists
              /\ actions'[a].lastStatus = actions[a].lastStatus
    PROVE  ScheduleInv'
<1>1. RunsInv' /\ PermitInv'
  BY DEF ScheduleInv, RunsInv, MemoryType, PermitInv
<1>2. ListInv' /\ InOrder'
  BY SameKeepsList DEF ScheduleInv, RunsInv
<1> QED
  BY <1>1, <1>2 DEF ScheduleInv

LEMMA LoopKeepsInv ==
    ASSUME ScheduleInv, LoopTop \/ LoopLeave \/ RescheduleAll \/ LoopTurn
    PROVE  ScheduleInv'
<1>1. WorldType
  BY DEF ScheduleInv
<1>2. UNCHANGED <<runs, tasks, drivers, did, permit, cancels, gate, clock, zone, torn>>
  BY DEF LoopTop, LoopLeave, RescheduleAll, LoopTurn, memory, world
<1>3. loop' \in LoopRow
  <2>1. loop \in LoopRow /\ clock \in Int /\ era \in Nat
    BY <1>1 DEF WorldType
  <2>2. CASE LoopTop
    <3> DEFINE pc == IF clock < loop.last THEN "rescheduling" ELSE "deciding"
    <3>1. \/ loop' = [loop EXCEPT !.pc = "leaving"]
          \/ loop' = [loop EXCEPT !.now = clock, !.era = era, !.last = clock, !.pc = pc]
      BY <2>2 DEF LoopTop
    <3>2. pc \in {"rescheduling", "deciding"}
      OBVIOUS
    <3> HIDE DEF pc
    <3>3. CASE loop' = [loop EXCEPT !.pc = "leaving"]
      BY <2>1, <3>3 DEF LoopRow
    <3>4. CASE loop' = [loop EXCEPT !.now = clock, !.era = era, !.last = clock, !.pc = pc]
      BY <2>1, <3>2, <3>4 DEF LoopRow
    <3> QED
      BY <3>1, <3>3, <3>4
  <2>3. CASE LoopLeave
    <3>1. loop' = [loop EXCEPT !.pc = "off", !.running = FALSE]
      BY <2>3 DEF LoopLeave
    <3> QED
      BY <2>1, <3>1 DEF LoopRow
  <2>4. CASE RescheduleAll
    <3>1. loop' = [loop EXCEPT !.pc = "spawning"]
      BY <2>4 DEF RescheduleAll
    <3> QED
      BY <2>1, <3>1 DEF LoopRow
  <2>5. CASE LoopTurn
    <3>1. loop' = [loop EXCEPT !.pc = "top", !.now = 0, !.era = 0]
      BY <2>5 DEF LoopTurn
    <3> DEFINE at == [loop EXCEPT !.pc = "top"]
               blank == [at EXCEPT !.now = 0]
    <3>2. at \in LoopRow
      BY <2>1 DEF LoopRow
    <3>3. blank \in LoopRow
      <4> HIDE DEF at
      <4> QED
        BY <3>2 DEF LoopRow
    <3>4. loop' = [blank EXCEPT !.era = 0]
      BY <3>1
    <3> HIDE DEF blank
    <3> QED
      BY <3>3, <3>4 DEF LoopRow
  <2> QED
    BY <2>2, <2>3, <2>4, <2>5
<1>4. CASE RescheduleAll
  <2>1. \A a \in Actions :
          actions'[a] = IF a \notin Live \/ ~actions[a].enabled THEN actions[a]
                        ELSE [actions[a] EXCEPT !.era = era + 1, !.next =
                                NextFireAfter(Plan[a].rule, actions[a].anchor, zone, loop.now)]
    BY <1>4 DEF RescheduleAll
  <2>2. \A a \in Actions :
          NextFireAfter(Plan[a].rule, actions[a].anchor, zone, loop.now) \in Int
    BY <1>1, NextFireLiesAhead DEF WorldType, ActionRow, LoopRow
  <2>3. \A a \in Actions :
          /\ actions'[a] \in ActionRow
          /\ actions'[a].lastRun = actions[a].lastRun /\ actions'[a].exists = actions[a].exists
          /\ actions'[a].lastStatus = actions[a].lastStatus
    <3> SUFFICES ASSUME NEW a \in Actions
                 PROVE  /\ actions'[a] \in ActionRow
                        /\ actions'[a].lastRun = actions[a].lastRun
                        /\ actions'[a].exists = actions[a].exists
                        /\ actions'[a].lastStatus = actions[a].lastStatus
      OBVIOUS
    <3> DEFINE next == NextFireAfter(Plan[a].rule, actions[a].anchor, zone, loop.now)
    <3>1. actions[a] \in ActionRow /\ next \in Int /\ era + 1 \in Nat
      BY <1>1, <2>2 DEF WorldType
    <3>2. \/ actions'[a] = actions[a]
          \/ actions'[a] = [actions[a] EXCEPT !.era = era + 1, !.next = next]
      BY <2>1
    <3> HIDE DEF next
    <3> QED
      BY <3>1, <3>2 DEF ActionRow
  <2>4. actions' \in [Actions -> ActionRow]
    <3>1. actions' = [a \in Actions |-> actions'[a]]
      BY <1>4 DEF RescheduleAll
    <3> QED
      BY <2>3, <3>1
  <2>5. era' \in Nat
    <3>1. era \in Nat /\ era' = era + 1
      BY <1>1, <1>4 DEF RescheduleAll, WorldType
    <3> QED
      BY <3>1
  <2>6. WorldType'
    BY <1>1, <1>2, <1>3, <2>4, <2>5 DEF WorldType
  <2> QED
    BY <1>2, <2>3, <2>6, RestKeepsInv
<1>5. CASE LoopTop \/ LoopLeave \/ LoopTurn
  <2>1. actions' = actions /\ era' = era
    BY <1>5 DEF LoopTop, LoopLeave, LoopTurn, world
  <2>2. WorldType'
    BY <1>1, <1>2, <1>3, <2>1 DEF WorldType
  <2> QED
    BY <1>2, <2>1, <2>2, RestKeepsInv
<1> QED
  BY <1>4, <1>5

LEMMA SettingsKeepInv ==
    ASSUME ScheduleInv,
           \/ SwitchOff \/ SwitchOn \/ Advance \/ SetClockBack \/ MoveZone
           \/ \E a \in Actions : DeleteCancel(a)
           \/ \E r \in Runs : CancelRun(r)
    PROVE  ScheduleInv'
<1>1. WorldType
  BY DEF ScheduleInv
<1>2. UNCHANGED <<runs, tasks, drivers, did, permit, actions, torn>>
  BY DEF SwitchOff, SwitchOn, Advance, SetClockBack, MoveZone, DeleteCancel, CancelRun, memory, world
<1>3. loop' \in LoopRow
  BY <1>1 DEF SwitchOff, SwitchOn, StartIfEnabled, Advance, SetClockBack, MoveZone,
              DeleteCancel, CancelRun, WorldType, LoopRow
<1>4. gate' \in BOOLEAN /\ clock' \in Nat /\ zone' \in Zones /\ era' \in Nat
  <2>1. gate \in BOOLEAN /\ clock \in Nat /\ era \in Nat /\ zone \in {0, 1}
    BY <1>1 DEF WorldType, Zones
  <2>2. CASE SwitchOff \/ SwitchOn
    BY <2>1, <2>2 DEF SwitchOff, SwitchOn, world, Zones
  <2>3. CASE Advance
    BY <2>1, <2>3 DEF Advance, Zones
  <2>4. CASE SetClockBack
    BY <2>1, <2>4, ScheduleAssumption DEF SetClockBack, Zones
  <2>5. CASE MoveZone
    BY <2>1, <2>5 DEF MoveZone, Zones
  <2>6. CASE \/ \E a \in Actions : DeleteCancel(a)
             \/ \E r \in Runs : CancelRun(r)
    BY <2>1, <2>6 DEF DeleteCancel, CancelRun, world, Zones
  <2> QED
    BY <2>2, <2>3, <2>4, <2>5, <2>6
<1>5. cancels' \in [Runs -> {"none", "armed", "sent"}]
  BY <1>1 DEF SwitchOff, SwitchOn, Advance, SetClockBack, MoveZone, DeleteCancel, CancelRun,
              WorldType, memory
<1>6. WorldType'
  BY <1>1, <1>2, <1>3, <1>4, <1>5 DEF WorldType
<1> QED
  BY <1>2, <1>6, RestKeepsInv

LEMMA EditKeepsInv ==
    ASSUME ScheduleInv, NEW a \in Actions, SaveAction(a) \/ SetEnabled(a)
    PROVE  ScheduleInv'
<1>1. WorldType
  BY DEF ScheduleInv
<1>2. UNCHANGED <<runs, tasks, drivers, did, permit, gate, clock, zone, era, cancels, torn>>
  BY DEF SaveAction, SetEnabled, memory, world
<1>3. loop' \in LoopRow
  BY <1>1 DEF SaveAction, SetEnabled, StartIfEnabled, WorldType, LoopRow
<1>4. /\ NextFireAfter(Plan[a].rule, actions[a].anchor, zone, clock) \in Int
      /\ NextFireAfter(Plan[a].rule, NoTime, zone, clock) \in Int /\ NoTime \in Int
  <2>1. NoTime \in Int /\ actions[a].anchor \in Int /\ zone \in Zones /\ clock \in Int
    BY <1>1 DEF WorldType, ActionRow, NoTime
  <2> QED
    BY <2>1, NextFireLiesAhead
<1>5. PICK next \in Int, enabled \in BOOLEAN, z \in Zones :
         actions' = [actions EXCEPT ![a].enabled = enabled, ![a].zone = z, ![a].era = era,
                                    ![a].next = next]
  <2>1. CASE SaveAction(a)
    BY <1>1, <1>4, <2>1 DEF SaveAction, WorldType
  <2>2. CASE SetEnabled(a)
    <3>1. actions[a].zone \in Zones /\ actions \in [Actions -> ActionRow]
      BY <1>1 DEF WorldType, ActionRow
    <3>2. PICK enabled \in BOOLEAN, next \in Int :
            actions' = [actions EXCEPT ![a].enabled = enabled, ![a].era = era, ![a].next = next]
      BY <1>4, <2>2 DEF SetEnabled
    <3>3. actions' = [actions EXCEPT ![a].enabled = enabled, ![a].zone = actions[a].zone,
                                     ![a].era = era, ![a].next = next]
      BY <3>1, <3>2 DEF ActionRow
    <3> QED
      BY <3>1, <3>3
  <2> QED
    BY <2>1, <2>2
<1>6. /\ actions' \in [Actions -> ActionRow]
      /\ \A b \in Actions :
            /\ actions'[b].lastRun = actions[b].lastRun /\ actions'[b].exists = actions[b].exists
            /\ actions'[b].lastStatus = actions[b].lastStatus
  <2> DEFINE row == actions[a]
             new == [row EXCEPT !.enabled = enabled, !.zone = z, !.era = era, !.next = next]
  <2>1. actions \in [Actions -> ActionRow] /\ row \in ActionRow /\ era \in Nat
    BY <1>1 DEF WorldType
  <2>2. actions' = [actions EXCEPT ![a] = new]
    BY <1>5, <2>1
  <2>3. /\ new \in ActionRow /\ new.lastRun = row.lastRun /\ new.exists = row.exists
        /\ new.lastStatus = row.lastStatus
    BY <2>1 DEF ActionRow
  <2> HIDE DEF new
  <2> QED
    BY <2>1, <2>2, <2>3
<1>7. WorldType'
  BY <1>1, <1>2, <1>3, <1>6 DEF WorldType
<1> QED
  BY <1>2, <1>6, <1>7, RestKeepsInv

LEMMA DeleteRunKeepsInv ==
    ASSUME ScheduleInv, NEW r \in Runs, DeleteRun(r)
    PROVE  ScheduleInv'
<1> DEFINE row == runs[r]
           new == [NoRow EXCEPT !.status = "deleted", !.plan = row.plan, !.occurrence = row.occurrence]
<1>1. RunsInv /\ WorldType /\ ListInv /\ InOrder /\ PermitInv
  BY DEF ScheduleInv
<1>2. /\ row \in RunRow /\ row.status \in Ended /\ Sound(row, tasks[r], drivers[r], did[r])
      /\ row.plan \in Actions
  BY <1>1, RunTyped DEF DeleteRun, Sound, Staged, Ended
<1>3. /\ new \in RunRow /\ new.status = "deleted" /\ new.plan = row.plan
      /\ new.action = NoAction /\ new.attempts = <<>> /\ Len(<<>>) = 0
  <2>1. <<>> \in Seq(AttemptStates) /\ Len(<<>>) = 0
    BY EmptySeq
  <2>2. row.plan \in Actions /\ row.occurrence \in Occurrences /\ "none" \in Triggers
    BY <1>2 DEF RunRow, Triggers
  <2> QED
    BY <2>1, <2>2 DEF NoRow, RunRow, RunStatuses, NoAction
<1>4. runs' = [runs EXCEPT ![r] = new] /\ UNCHANGED <<actions, gate, clock, zone, era, torn, loop, cancels, permit, tasks, drivers, did>>
  BY DEF DeleteRun, PlanOf, world, memory
<1> HIDE DEF new
<1>5. Sound(new, tasks[r], drivers[r], did[r])
  <2>1. row.status \notin InFlight \cup {"absent"} /\ new.status \notin InFlight \cup Ended \cup {"absent"}
    BY <1>2, <1>3 DEF Ended, InFlight
  <2>2. tasks[r] \notin {"committed", "queued", "starting"} \cup Walk
    BY <1>2, <2>1 DEF Sound, Staged, FirstStatus, InFlight
  <2>3. Staged(new, tasks[r], drivers[r])
    BY <1>2, <1>3, <2>1, <2>2 DEF Sound, Staged
  <2>4. Recorded(new, tasks[r], drivers[r], did[r])
    BY <1>2, <1>3, <2>1, <2>2, StepsTyped DEF Recorded, Walk
  <2>5. Earned(new, drivers[r])
    BY <1>3, <2>1 DEF Earned
  <2> QED
    BY <2>3, <2>4, <2>5 DEF Sound
<1>6. RunsInv'
  <2>1. /\ tasks' = [tasks EXCEPT ![r] = tasks[r]] /\ drivers' = [drivers EXCEPT ![r] = drivers[r]]
        /\ did' = [did EXCEPT ![r] = did[r]]
    BY <1>1, <1>4, Unmoved DEF RunsInv, MemoryType
  <2> QED
    BY <1>1, <1>3, <1>4, <1>5, <2>1, RunTyped, OneRun
<1>7. /\ \A s \in Runs \ {r} : runs'[s] = runs[s]
      /\ runs'[r].status = "deleted" /\ runs'[r].action = NoAction
      /\ actions' = actions
  BY <1>1, <1>3, <1>4 DEF RunsInv, MemoryType
<1>8. ListInv'
  <2>1. \A a \in Actions : actions[a].lastRun \in Runs \cup {NoRun}
    BY <1>1 DEF WorldType, ActionRow
  <2>2. ListedInv'
    BY <1>1, <1>4, <1>7, <2>1 DEF ListInv, ListedInv
  <2>3. OwnedInv'
    BY <1>1, <1>7 DEF ListInv, OwnedInv
  <2> QED
    BY <2>2, <2>3 DEF ListInv
<1>9. InOrder'
  <2>1. \A s \in Runs : runs'[s].status = "absent" <=> runs[s].status = "absent"
    BY <1>2, <1>7 DEF Ended
  <2> QED
    BY <1>1, <2>1 DEF InOrder
<1>10. WorldType' /\ PermitInv'
  BY <1>1, <1>4 DEF WorldType, PermitInv
<1> QED
  BY <1>6, <1>8, <1>9, <1>10 DEF ScheduleInv

LEMMA DeleteRowKeepsInv ==
    ASSUME ScheduleInv, NEW a \in Actions, DeleteRow(a)
    PROVE  ScheduleInv'
<1>1. RunsInv /\ WorldType /\ ListInv /\ InOrder /\ PermitInv
  BY DEF ScheduleInv
<1>2. UNCHANGED <<gate, clock, zone, era, torn, loop, cancels, permit, tasks, drivers, did>>
  BY DEF DeleteRow, world, memory
<1>3. /\ runs \in [Runs -> RunRow] /\ actions \in [Actions -> ActionRow]
      /\ NoRun \in Runs \cup {NoRun} /\ NoAction \notin Actions
  BY <1>1 DEF RunsInv, MemoryType, WorldType, NoAction, Actions
<1>4. \A r \in Runs :
         /\ runs'[r] \in RunRow /\ runs'[r].status = runs[r].status
         /\ runs'[r].plan = runs[r].plan /\ runs'[r].attempts = runs[r].attempts
         /\ runs'[r].occurrence = runs[r].occurrence
         /\ runs'[r].action = IF runs[r].action = a THEN NoAction ELSE runs[r].action
  <2> SUFFICES ASSUME NEW r \in Runs
               PROVE  /\ runs'[r] \in RunRow /\ runs'[r].status = runs[r].status
                      /\ runs'[r].plan = runs[r].plan /\ runs'[r].attempts = runs[r].attempts
                      /\ runs'[r].occurrence = runs[r].occurrence
                      /\ runs'[r].action = IF runs[r].action = a THEN NoAction ELSE runs[r].action
    OBVIOUS
  <2>1. runs'[r] = IF runs[r].action = a THEN [runs[r] EXCEPT !.action = NoAction] ELSE runs[r]
    BY DEF DeleteRow
  <2>2. runs[r] \in RunRow
    BY <1>3
  <2> QED
    BY <2>1, <2>2 DEF RunRow
<1>5. RunsInv'
  <2>1. runs' \in [Runs -> RunRow]
    <3>1. runs' = [r \in Runs |-> runs'[r]]
      BY DEF DeleteRow
    <3> QED
      BY <1>4, <3>1
  <2>2. ASSUME NEW r \in Runs
        PROVE  Sound(runs'[r], tasks[r], drivers[r], did[r])
    <3>1. Sound(runs[r], tasks[r], drivers[r], did[r])
      BY <1>1, RunTyped
    <3>2. Staged(runs'[r], tasks[r], drivers[r])
      BY <1>4, <3>1 DEF Sound, Staged
    <3>3. Recorded(runs'[r], tasks[r], drivers[r], did[r])
      BY <1>4, <3>1, <1>3 DEF Sound, Recorded
    <3>4. Earned(runs'[r], drivers[r])
      BY <1>4, <3>1 DEF Sound, Earned, AllSucceeded
    <3> QED
      BY <3>2, <3>3, <3>4 DEF Sound
  <2> QED
    BY <1>1, <1>2, <2>1, <2>2 DEF RunsInv, MemoryType
<1>6. /\ \A b \in Actions \ {a} : actions'[b] = actions[b]
      /\ actions'[a].exists = FALSE /\ actions'[a].lastRun = NoRun
      /\ actions' \in [Actions -> ActionRow]
  <2> DEFINE new == [actions[a] EXCEPT !.exists = FALSE, !.enabled = FALSE,
          !.next = NoTime, !.anchor = NoTime, !.lastRun = NoRun, !.lastStatus = "none"]
  <2>1. actions' = [actions EXCEPT ![a] = new]
    BY <1>3 DEF DeleteRow
  <2>2. new \in ActionRow /\ new.exists = FALSE /\ new.lastRun = NoRun
    <3>1. actions[a] \in ActionRow /\ NoTime \in Int
      BY <1>3 DEF NoTime
    <3> QED
      BY <3>1 DEF ActionRow
  <2> HIDE DEF new
  <2> QED
    BY <1>3, <2>1, <2>2
<1>7. ListInv'
  <2>1. \A b \in Actions : actions[b].lastRun \in Runs \cup {NoRun}
    BY <1>1 DEF WorldType, ActionRow
  <2>2. \A r \in Runs : runs[r].action \in Actions \cup {NoAction}
    BY <1>1 DEF RunsInv, MemoryType, RunRow
  <2>3. ListedInv'
    BY <1>1, <1>2, <1>4, <1>6, <2>1 DEF ListInv, ListedInv
  <2>4. OwnedInv'
    BY <1>1, <1>3, <1>4, <1>6, <2>2 DEF ListInv, OwnedInv
  <2> QED
    BY <2>3, <2>4 DEF ListInv
<1>8. InOrder' /\ WorldType' /\ PermitInv'
  BY <1>1, <1>2, <1>4, <1>6 DEF InOrder, WorldType, PermitInv
<1> QED
  BY <1>5, <1>7, <1>8 DEF ScheduleInv

LEMMA ReloadKeepsInv ==
    ASSUME ScheduleInv, ReloadWebview
    PROVE  ScheduleInv'
<1>1. RunsInv /\ WorldType /\ ListInv /\ InOrder /\ PermitInv
  BY DEF ScheduleInv
<1>2. /\ drivers' = [r \in Runs |-> "none"]
      /\ UNCHANGED <<actions, runs, gate, clock, zone, era, torn, loop, cancels, permit, tasks, did>>
  BY DEF ReloadWebview, world
<1>3. ASSUME NEW r \in Runs
      PROVE  Sound(runs[r], tasks[r], "none", did[r])
  BY <1>1, RunTyped DEF Sound, Staged, Recorded, Earned
<1>4. RunsInv'
  BY <1>1, <1>2, <1>3, Names DEF RunsInv, MemoryType
<1> QED
  BY <1>1, <1>2, <1>4 DEF ScheduleInv, WorldType, ListInv, ListedInv, OwnedInv, InOrder, PermitInv

\* What a process loss may leave of a run, as the next process finds it:
\* untouched, or ended with the verdict that was being written.
Found(found, r) ==
    \/ found[r] = runs[r]
    \/ /\ runs[r].status \in InFlight
       /\ \E status \in Ending(r) :
             \/ found[r] = [runs[r] EXCEPT !.status = status]
             \/ found[r] = [runs[r] EXCEPT !.status = status, !.attempts = Unsettled(@)]

LEMMA FoundRows ==
    ASSUME MemoryType, NEW found \in RowsFound, NEW r \in Runs
    PROVE  Found(found, r)
<1>1. runs \in [Runs -> RunRow]
  BY DEF MemoryType
<1>2. CASE found = runs
  BY <1>2 DEF Found
<1>3. ASSUME NEW s \in Runs, NEW status \in Ending(s), NEW settled \in BOOLEAN,
             found = CutShort(s, status, settled)
      PROVE  Found(found, r)
  <2>1. found = [runs EXCEPT ![s].status = status,
                             ![s].attempts = IF settled THEN Unsettled(@) ELSE @]
    BY <1>3 DEF CutShort
  <2>2. runs[s].status \in InFlight
    BY <2>1 DEF Ending
  <2>3. CASE s # r
    BY <1>1, <2>1, <2>3 DEF Found
  <2>4. CASE s = r /\ settled
    <3>1. found[r] = [runs[r] EXCEPT !.status = status, !.attempts = Unsettled(@)]
      BY <1>1, <2>1, <2>4
    <3> QED
      BY <2>1, <2>2, <2>4, <3>1 DEF Found
  <2>5. CASE s = r /\ ~settled
    <3>1. found[r] = [runs[r] EXCEPT !.status = status]
      BY <1>1, <2>1, <2>5 DEF RunRow
    <3> QED
      BY <2>1, <2>2, <2>5, <3>1 DEF Found
  <2> QED
    BY <2>3, <2>4, <2>5
<1> QED
  BY <1>2, <1>3 DEF RowsFound

\* Only a whole walk is about to be recorded as a success.
LEMMA EndingIsEarned ==
    ASSUME RunsInv, NEW r \in Runs, NEW status \in Ending(r)
    PROVE  /\ runs[r].status \in InFlight
           /\ status \in {"succeeded", "failed", "cancelled"}
           /\ status = "succeeded" => AllSucceeded(runs[r])
<1> USE RunTyped, Names
<1>1. runs[r].status \in InFlight
  BY DEF Ending
<1>2. /\ status \in Ended
      /\ \/ status \in {"cancelled", "failed"}
         \/ /\ TaskAt(r, "walking") /\ WalkedAll(r)
            /\ status = IF AllSettled(r) THEN "succeeded" ELSE "failed"
         \/ drivers[r] = status
  BY DEF Ending
<1>3. drivers[r] = status => status \in {"succeeded", "failed", "cancelled"}
  BY <1>2 DEF Ended, DriverStates, Verdicts
<1>4. CASE TaskAt(r, "walking") /\ WalkedAll(r) /\ AllSettled(r)
  BY <1>1, <1>2, <1>3, <1>4, WholeWalk DEF TaskAt, Walk
<1>5. drivers[r] = "succeeded" => AllSucceeded(runs[r])
  BY <1>1 DEF Sound, Earned
<1> QED
  BY <1>1, <1>2, <1>3, <1>4, <1>5

\* Cut after its first statement, the verdict leaves the record as it was.
LEMMA CutIsSound ==
    ASSUME NEW row \in RunRow, NEW task, NEW driver, NEW done \in SUBSET Nat,
           NEW status \in {"succeeded", "failed", "cancelled"},
           Sound(row, task, driver, done), row.status \in InFlight,
           status = "succeeded" => AllSucceeded(row)
    PROVE  LET new == [row EXCEPT !.status = status]
           IN  /\ new \in RunRow /\ Sound(new, "done", "none", done)
               /\ new.status = status /\ new.action = row.action
               /\ new.occurrence = row.occurrence
<1> DEFINE new == [row EXCEPT !.status = status]
<1>1. /\ new \in RunRow /\ new.status = status /\ new.plan = row.plan
      /\ new.attempts = row.attempts
      /\ new.action = row.action /\ new.occurrence = row.occurrence
  BY DEF RunRow, RunStatuses, Ended
<1>2. status \in Ended /\ status \notin InFlight \cup {"absent", "deleted"}
      /\ row.status \notin {"absent", "deleted"}
  BY DEF Ended, InFlight
<1> HIDE DEF new
<1>3. Staged(new, "done", "none")
  BY <1>1, <1>2 DEF Sound, Staged, Over, Walk
<1>4. Recorded(new, "done", "none", done)
  BY <1>1, <1>2 DEF Sound, Recorded
<1>5. Earned(new, "none")
  BY <1>1, <1>2 DEF Earned, AllSucceeded
<1> QED
  BY <1>1, <1>3, <1>4, <1>5 DEF Sound, new

\* What the restart makes of one run.
LEMMA RestartedRow ==
    ASSUME ScheduleInv, Restart, NEW r \in Runs
    PROVE  /\ runs'[r] \in RunRow /\ Sound(runs'[r], tasks'[r], "none", did[r])
           /\ runs'[r].action = runs[r].action /\ runs'[r].occurrence = runs[r].occurrence
           /\ \/ runs'[r] = runs[r] /\ runs[r].status \notin InFlight /\ (r \in torn' <=> r \in torn)
              \/ /\ runs[r].status \in InFlight /\ runs'[r] = Written(runs[r], "interrupted")
                 /\ runs'[r].status = "interrupted" /\ (r \in torn' <=> r \in torn)
              \/ /\ runs[r].status \in InFlight /\ r \in torn'
                 /\ runs'[r].status \in {"succeeded", "failed", "cancelled"}
<1> DEFINE row == runs[r]
<1>1. RunsInv /\ MemoryType /\ WorldType
  BY DEF ScheduleInv, RunsInv
<1>2. PICK found \in RowsFound :
         /\ torn' = torn \cup {s \in Runs : found[s].status # runs[s].status}
         /\ runs' = [s \in Runs |->
               IF found[s].status \in InFlight
               THEN [found[s] EXCEPT !.status = "interrupted", !.attempts = Unsettled(@)]
               ELSE found[s]]
  BY DEF Restart
<1>3. Found(found, r)
  BY <1>1, FoundRows
<1>4. /\ row \in RunRow /\ Sound(row, tasks[r], drivers[r], did[r]) /\ did[r] \in SUBSET Nat
      /\ row.status \in RunStatuses
  BY <1>1, RunTyped
<1>5. tasks'[r] = IF tasks[r] = "none" THEN "none" ELSE "done"
  BY DEF Restart
<1>6. row.status \in InFlight => tasks'[r] = "done"
  BY <1>4, <1>5 DEF Sound, Staged
<1>7. CASE found[r] = row /\ row.status \in InFlight
  <2>1. runs'[r] = Written(row, "interrupted") /\ (r \in torn' <=> r \in torn)
    BY <1>2, <1>7 DEF Written, Ended
  <2>2. Written(row, "interrupted") \in RunRow /\ Sound(Written(row, "interrupted"), "done", "none", did[r])
    BY <1>4, <1>7, EndedIsSound DEF Over
  <2>3. /\ Written(row, "interrupted").status = "interrupted"
        /\ Written(row, "interrupted").action = row.action
        /\ Written(row, "interrupted").occurrence = row.occurrence
    BY <1>4, WrittenRow DEF RunStatuses, Ended
  <2> QED
    BY <1>6, <1>7, <2>1, <2>2, <2>3
<1>8. CASE found[r] = row /\ row.status \notin InFlight
  <2>1. runs'[r] = row /\ (r \in torn' <=> r \in torn)
    BY <1>2, <1>8
  <2>2. CASE row.status \in Ended \cup {"deleted"}
    <3>1. Sound(row, "done", "none", did[r])
      BY <1>4, <2>2, OverIsSound DEF Over
    <3>2. tasks[r] = "none" => Sound(row, "none", "none", did[r])
      BY <1>4 DEF Sound, Staged, Recorded, Earned
    <3>3. tasks'[r] \in {"none", "done"} /\ (tasks'[r] = "none" => tasks[r] = "none")
      BY <1>5
    <3> QED
      BY <1>4, <1>8, <2>1, <3>1, <3>2, <3>3
  <2>3. CASE row.status = "absent"
    <3>1. tasks[r] = "none" /\ drivers[r] = "none"
      BY <1>4, <2>3 DEF Sound, Staged
    <3> QED
      BY <1>4, <1>5, <1>8, <2>1, <3>1
  <2> QED
    BY <1>4, <1>8, <2>2, <2>3 DEF RunStatuses
<1>9. ASSUME row.status \in InFlight, NEW status \in Ending(r),
             \/ found[r] = [row EXCEPT !.status = status]
             \/ found[r] = [row EXCEPT !.status = status, !.attempts = Unsettled(@)]
      PROVE  /\ runs'[r] \in RunRow /\ Sound(runs'[r], tasks'[r], "none", did[r])
             /\ runs'[r].action = row.action /\ runs'[r].occurrence = row.occurrence
             /\ r \in torn' /\ runs'[r].status \in {"succeeded", "failed", "cancelled"}
  <2>1. /\ status \in {"succeeded", "failed", "cancelled"}
        /\ status = "succeeded" => AllSucceeded(row)
    BY <1>1, EndingIsEarned
  <2>2. status \in Ended /\ status \notin InFlight /\ status # row.status /\ status \in RunStatuses
    BY <1>9, <2>1 DEF Ended, InFlight, RunStatuses
  <2>3. CASE found[r] = [row EXCEPT !.status = status]
    <3> DEFINE new == [row EXCEPT !.status = status]
    <3>0. /\ new \in RunRow /\ Sound(new, "done", "none", did[r])
          /\ new.status = status /\ new.action = row.action
          /\ new.occurrence = row.occurrence
      <4> HIDE DEF row
      <4> QED
        BY <1>4, <1>9, <2>1, CutIsSound
    <3> HIDE DEF new
    <3>1. /\ found[r] \in RunRow /\ Sound(found[r], "done", "none", did[r])
          /\ found[r].status = status /\ found[r].action = row.action
          /\ found[r].occurrence = row.occurrence
      BY <2>3, <3>0 DEF new
    <3>2. runs'[r] = found[r] /\ r \in torn'
      BY <1>2, <2>2, <3>1
    <3> QED
      BY <1>6, <1>9, <2>1, <3>1, <3>2
  <2>4. CASE found[r] = [row EXCEPT !.status = status, !.attempts = Unsettled(@)]
    <3>1. found[r] = Written(row, status)
      BY <2>2, <2>4 DEF Written
    <3>2. /\ found[r] \in RunRow /\ found[r].status = status /\ found[r].action = row.action
          /\ found[r].occurrence = row.occurrence
      BY <1>4, <2>2, <3>1, WrittenRow
    <3>3. Sound(found[r], "done", "none", did[r])
      BY <1>4, <1>9, <2>1, <3>1, EndedIsSound DEF Over
    <3>4. runs'[r] = found[r] /\ r \in torn'
      BY <1>2, <2>2, <3>2
    <3> QED
      BY <1>6, <1>9, <2>1, <3>2, <3>3, <3>4
  <2> QED
    BY <1>9, <2>3, <2>4
<1> QED
  BY <1>3, <1>7, <1>8, <1>9 DEF Found

LEMMA RestartKeepsInv ==
    ASSUME ScheduleInv, Restart
    PROVE  ScheduleInv'
<1>1. RunsInv /\ WorldType /\ ListInv /\ InOrder /\ MemoryType
  BY DEF ScheduleInv, RunsInv
<1>2. /\ runs \in [Runs -> RunRow] /\ actions \in [Actions -> ActionRow] /\ tasks \in [Runs -> TaskStates]
      /\ UNCHANGED <<gate, clock, zone, era, did>>
  BY <1>1 DEF MemoryType, WorldType, Restart
<1>3. ASSUME NEW r \in Runs
      PROVE  /\ tasks'[r] \in {"none", "done"} /\ drivers'[r] = "none" /\ did'[r] = did[r]
  BY <1>2 DEF Restart
<1>4. ASSUME NEW r \in Runs
      PROVE  /\ runs'[r] \in RunRow /\ Sound(runs'[r], tasks'[r], drivers'[r], did'[r])
             /\ runs'[r].action = runs[r].action /\ runs'[r].status \notin InFlight
             /\ runs'[r].status = "absent" <=> runs[r].status = "absent"
  BY <1>3, RestartedRow DEF InFlight
<1>5. RunsInv'
  <2>1. /\ runs' = [r \in Runs |-> runs'[r]] /\ tasks' = [r \in Runs |-> tasks'[r]]
        /\ drivers' = [r \in Runs |-> drivers'[r]] /\ did' = did
    BY DEF Restart
  <2>2. \A r \in Runs : /\ tasks'[r] \in TaskStates /\ drivers'[r] \in DriverStates
                        /\ runs'[r] \in RunRow
    BY <1>3, <1>4, Names DEF Over
  <2>3. did \in [Runs -> SUBSET Nat]
    BY <1>1 DEF MemoryType
  <2>4. MemoryType'
    BY <2>1, <2>2, <2>3 DEF MemoryType
  <2> QED
    BY <1>4, <2>4 DEF RunsInv
<1>6. \A a \in Actions :
         /\ actions'[a] \in ActionRow /\ actions'[a].exists = actions[a].exists
         /\ actions'[a].lastRun = actions[a].lastRun
         /\ actions'[a].lastStatus =
               IF /\ actions[a].lastRun # NoRun
                  /\ runs'[actions[a].lastRun].status = "interrupted"
                  /\ actions[a].lastStatus \in InFlight
               THEN "interrupted" ELSE actions[a].lastStatus
  <2> SUFFICES ASSUME NEW a \in Actions
               PROVE  /\ actions'[a] \in ActionRow /\ actions'[a].exists = actions[a].exists
                      /\ actions'[a].lastRun = actions[a].lastRun
                      /\ actions'[a].lastStatus =
                            IF /\ actions[a].lastRun # NoRun
                               /\ runs'[actions[a].lastRun].status = "interrupted"
                               /\ actions[a].lastStatus \in InFlight
                            THEN "interrupted" ELSE actions[a].lastStatus
    OBVIOUS
  <2> DEFINE cut == \E r \in Runs : actions[a].lastRun = r /\ runs'[r].status = "interrupted"
                                     /\ actions[a].lastStatus \in InFlight
  <2>1. actions'[a] = IF cut THEN [actions[a] EXCEPT !.lastStatus = "interrupted"] ELSE actions[a]
    BY DEF Restart
  <2>2. actions[a] \in ActionRow /\ actions[a].lastRun \in Runs \cup {NoRun} /\ NoRun \notin Runs
    BY <1>2 DEF ActionRow, NoRun, Runs
  <2>3. cut <=> /\ actions[a].lastRun # NoRun
                /\ runs'[actions[a].lastRun].status = "interrupted"
                /\ actions[a].lastStatus \in InFlight
    BY <2>2
  <2> HIDE DEF cut
  <2> QED
    BY <2>1, <2>2, <2>3 DEF ActionRow, RunStatuses, Ended
<1>7. ListInv'
  <2>1. \A a \in Actions : actions[a].lastRun \in Runs \cup {NoRun}
    BY <1>1 DEF WorldType, ActionRow
  <2>2. \A r \in Runs : runs[r].action \in Actions \cup {NoAction}
    BY <1>1 DEF MemoryType, RunRow
  <2>3. ASSUME NEW a \in Actions, actions[a].lastRun # NoRun,
               runs'[actions[a].lastRun].status # "deleted", actions[a].lastRun \notin torn'
        PROVE  actions'[a].lastStatus = runs'[actions[a].lastRun].status
    <3> DEFINE r == actions[a].lastRun
    <3>1. r \in Runs
      BY <2>1, <2>3
    <3>2. r \notin torn
      BY <2>3 DEF Restart
    <3>3. \/ runs'[r] = runs[r] /\ runs[r].status \notin InFlight
          \/ runs[r].status \in InFlight /\ runs'[r].status = "interrupted"
      BY <2>3, <3>1, RestartedRow
    <3>4. runs[r].status # "deleted" => actions[a].lastStatus = runs[r].status
      BY <1>1, <2>3, <3>2 DEF ListInv, ListedInv
    <3> QED
      BY <1>6, <2>3, <3>3, <3>4 DEF InFlight
  <2>4. ListedInv'
    BY <1>1, <1>4, <1>6, <2>1, <2>3 DEF ListInv, ListedInv
  <2>5. OwnedInv'
    BY <1>1, <1>4, <1>6, <2>2 DEF ListInv, OwnedInv
  <2> QED
    BY <2>4, <2>5 DEF ListInv
<1>8. InOrder'
  BY <1>1, <1>4 DEF InOrder
<1>9. PermitInv'
  BY <1>3 DEF PermitInv, Holding, Walk
<1>10. WorldType'
  <2>1. /\ loop' = [pc |-> IF gate THEN "top" ELSE "off", running |-> gate,
                   now |-> 0, era |-> era, last |-> NoTime]
        /\ cancels' = [r \in Runs |-> "none"] /\ permit' = NoRun
    BY DEF Restart
  <2>2. loop' \in LoopRow
    <3>1. gate \in BOOLEAN /\ era \in Nat /\ NoTime \in Int
      BY <1>1 DEF WorldType, NoTime
    <3> QED
      BY <2>1, <3>1 DEF LoopRow
  <2>3. actions' \in [Actions -> ActionRow]
    <3>1. actions' = [a \in Actions |-> actions'[a]]
      BY DEF Restart
    <3> QED
      BY <1>6, <3>1
  <2>4. torn' \in SUBSET Runs
    BY <1>1 DEF Restart, WorldType
  <2> QED
    BY <1>1, <1>2, <2>1, <2>2, <2>3, <2>4 DEF WorldType
<1> QED
  BY <1>5, <1>7, <1>8, <1>9, <1>10 DEF ScheduleInv

-----------------------------------------------------------------------------
(* The invariant, and the properties that follow from it.                  *)

LEMMA InitInv == Init => ScheduleInv
<1> SUFFICES ASSUME Init
             PROVE  ScheduleInv
  OBVIOUS
<1> USE DEF Init
<1>1. <<>> \in Seq(AttemptStates) /\ Len(<<>>) = 0
  BY EmptySeq
<1>2. /\ NoRow \in RunRow /\ NoRow.status = "absent" /\ NoRow.attempts = <<>>
      /\ NoRow.action = NoAction /\ NoRow.occurrence = <<>>
  BY <1>1 DEF NoRow, RunRow, RunStatuses, Triggers, Occurrences
<1>3. WorldType
  <2>1. \A a \in Actions : NextFireAfter(Plan[a].rule, NoTime, 0, 0) \in Int
    BY NextFireLiesAhead DEF NoTime, Zones
  <2>2. actions \in [Actions -> ActionRow]
    BY <2>1 DEF ActionRow, NoTime, Zones
  <2> QED
    BY <2>2 DEF WorldType, LoopRow, Zones, NoTime
<1>4. RunsInv
  <2>1. MemoryType
    BY <1>2, Names DEF MemoryType
  <2>2. Sound(NoRow, "none", "none", {})
    BY <1>1, <1>2 DEF Sound, Staged, Recorded, Earned, InFlight, Ended, Walk, Over
  <2> QED
    BY <2>1, <2>2 DEF RunsInv
<1>5. PermitInv
  BY DEF PermitInv, Holding, Walk
<1>6. ListInv
  BY <1>2 DEF ListInv, ListedInv, OwnedInv
<1>7. InOrder
  <2>1. \A r \in Runs : ~(r <= 0)
    BY DEF Runs
  <2>2. 0 \in 0..MaxRuns
    BY ScheduleAssumption
  <2> QED
    BY <1>2, <2>1, <2>2 DEF InOrder
<1> QED
  BY <1>3, <1>4, <1>5, <1>6, <1>7 DEF ScheduleInv

LEMMA NextInv == ScheduleInv /\ [Next]_vars => ScheduleInv'
<1> SUFFICES ASSUME ScheduleInv, [Next]_vars
             PROVE  ScheduleInv'
  OBVIOUS
<1>1. CASE LoopStep
  BY <1>1, LoopKeepsInv, DecideKeepsInv DEF LoopStep
<1>2. CASE UserStep
  BY <1>2, SettingsKeepInv, EditKeepsInv, RunNowKeepsInv, DeleteRunKeepsInv, DeleteRowKeepsInv
     DEF UserStep
<1>3. CASE WorldStep
  BY <1>3, SettingsKeepInv, ReloadKeepsInv, RestartKeepsInv DEF WorldStep
<1>4. CASE \E r \in Runs : TaskStep(r) \/ DriverStep(r)
  BY <1>4, RunStepKeepsInv
<1>5. CASE UNCHANGED vars
  BY <1>5 DEF vars, world, memory, ScheduleInv, WorldType, RunsInv, MemoryType, PermitInv,
              ListInv, ListedInv, OwnedInv, InOrder
<1> QED
  BY <1>1, <1>2, <1>3, <1>4, <1>5 DEF Next

THEOREM ScheduleInvariant == Spec => []ScheduleInv
<1> QED
  BY InitInv, NextInv, PTL DEF Spec

(* Every row and every piece of memory keeps its type: no interleaving of  *)
(* tasks, tabs, commands and restarts appends a step past the plan.        *)
THEOREM ScheduleTypes == Spec => []TypeOK
<1>1. ScheduleInv => TypeOK
  <2> SUFFICES ASSUME ScheduleInv
               PROVE  TypeOK
    OBVIOUS
  <2>1. WorldType /\ RunsInv
    BY DEF ScheduleInv
  <2>2. ASSUME NEW a \in Actions
        PROVE  /\ actions[a].enabled \in BOOLEAN /\ actions[a].exists \in BOOLEAN
               /\ actions[a].next \in Int /\ actions[a].anchor \in Int
               /\ actions[a].zone \in Zones /\ actions[a].lastRun \in Runs \cup {NoRun}
    BY <2>1 DEF WorldType, ActionRow
  <2>3. ASSUME NEW r \in Runs
        PROVE  /\ runs[r].status \in InFlight \cup Ended \cup {"absent", "deleted"}
               /\ runs[r].action \in Actions \cup {NoAction}
               /\ runs[r].plan # NoAction => DOMAIN runs[r].attempts \subseteq StepsOf(r)
               /\ \A i \in DOMAIN runs[r].attempts : runs[r].attempts[i] \in AttemptStates
               /\ tasks[r] \in TaskStates /\ drivers[r] \in DriverStates
               /\ cancels[r] \in {"none", "armed", "sent"} /\ did[r] \subseteq Nat
    <3>1. /\ runs[r] \in RunRow /\ Sound(runs[r], tasks[r], drivers[r], did[r])
          /\ tasks[r] \in TaskStates /\ drivers[r] \in DriverStates /\ did[r] \in SUBSET Nat
      BY <2>1, RunTyped
    <3> DEFINE n == Len(runs[r].attempts)
               k == Plan[runs[r].plan].steps
    <3>2. n \in Nat /\ DOMAIN runs[r].attempts = 1..n
          /\ \A i \in 1..n : runs[r].attempts[i] \in AttemptStates
      BY <3>1, AttemptsTyped
    <3>3. runs[r].plan # NoAction => 1..n \subseteq 1..k
      <4>1. CASE runs[r].status = "absent"
        <5>1. n = 0
          BY <3>1, <4>1, EmptySeq DEF Sound, Recorded
        <5> QED
          BY <5>1
      <4>2. CASE runs[r].status # "absent"
        <5>1. k \in Nat /\ n <= k
          BY <3>1, <4>2, StepsTyped DEF Sound, Staged, Recorded
        <5> QED
          BY <3>2, <5>1
      <4> QED
        BY <4>1, <4>2
    <3> QED
      BY <2>1, <3>1, <3>2, <3>3 DEF RunRow, RunStatuses, StepsOf, PlanOf, WorldType
  <2>4. /\ permit \in Runs \cup {NoRun} /\ gate \in BOOLEAN /\ loop.running \in BOOLEAN
        /\ torn \subseteq Runs
    BY <2>1 DEF WorldType, LoopRow
  <2> QED
    BY <2>2, <2>3, <2>4 DEF TypeOK
<1> QED
  BY <1>1, ScheduleInvariant, PTL

(* A run recorded as succeeded has every step of its plan in a shell, and  *)
(* each succeeded.                                                         *)
THEOREM SuccessEarned == Spec => []SuccessIsWhole
<1>1. ScheduleInv => SuccessIsWhole
  <2> SUFFICES ASSUME ScheduleInv, NEW r \in Runs, runs[r].status = "succeeded"
               PROVE  /\ did[r] = StepsOf(r)
                      /\ \A i \in StepsOf(r) : runs[r].attempts[i] = "succeeded"
    BY DEF SuccessIsWhole
  <2>1. runs[r] \in RunRow /\ Sound(runs[r], tasks[r], drivers[r], did[r])
    BY RunTyped DEF ScheduleInv
  <2>2. AllSucceeded(runs[r])
    BY <2>1 DEF Sound, Earned
  <2> QED
    BY <2>1, <2>2 DEF Sound, Recorded, AllSucceeded, StepsOf, PlanOf
<1> QED
  BY <1>1, ScheduleInvariant, PTL

(* Whoever is marked running holds the only permit.                        *)
THEOREM OneRunAtATime == Spec => []RunningHoldsPermit
<1>1. ScheduleInv => RunningHoldsPermit
  <2> SUFFICES ASSUME ScheduleInv, NEW r \in Runs, runs[r].status = "running"
               PROVE  permit = r
    BY DEF RunningHoldsPermit
  <2>1. Sound(runs[r], tasks[r], drivers[r], did[r]) /\ tasks[r] \in TaskStates
    BY RunTyped DEF ScheduleInv
  <2>2. tasks[r] \in Holding
    <3>1. tasks[r] \notin {"none", "committed", "queued"} \cup Over
      BY <2>1 DEF Sound, Staged, FirstStatus, InFlight
    <3> QED
      BY <2>1, <3>1 DEF TaskStates, Holding, Walk, Over
  <2> QED
    BY <2>2 DEF ScheduleInv, PermitInv
<1> QED
  BY <1>1, ScheduleInvariant, PTL

-----------------------------------------------------------------------------
(* The contract.  An occurrence is a moment with the reckonings of the     *)
(* clock in which its row was computed and in which the loop looked.  While*)
(* neither has moved on, the row's next fire lies past every occurrence    *)
(* that is accounted for (Past).                                           *)

Past(occurrence, row) ==
    LET slot == occurrence[2]
        computed == occurrence[3]
        looked == occurrence[4]
    IN  /\ computed <= era /\ looked <= era
        /\ looked = era => clock >= slot /\ Ahead(row.next, slot)
        /\ loop.pc = "deciding" =>
              /\ looked <= loop.era
              /\ looked = era => loop.now >= slot
              /\ looked = loop.era => computed <= looked /\ (row.era > looked \/ Ahead(row.next, slot))

ClockInv ==
    /\ loop.era <= era /\ \A a \in Actions : actions[a].era <= era
    /\ loop.pc = "deciding" /\ loop.era = era => loop.now <= clock
PastInv == \A r \in Runs : runs[r].occurrence # <<>> =>
    Past(runs[r].occurrence, actions[runs[r].occurrence[1]])
OnceInv == \A r, s \in Runs :
    runs[r].occurrence # <<>> /\ runs[r].occurrence = runs[s].occurrence => r = s
ErasedInv == \A r \in Runs : runs[r].status = "deleted" => runs[r].action = NoAction

LedgerInv == ScheduleInv /\ ClockInv /\ PastInv /\ OnceInv /\ ErasedInv

LEMMA Numbers ==
    ASSUME ScheduleInv
    PROVE  /\ loop.era \in Nat /\ loop.now \in Int /\ clock \in Nat /\ era \in Nat
           /\ \A a \in Actions : actions[a].next \in Int /\ actions[a].era \in Nat
           /\ \A r \in Runs : LET o == runs[r].occurrence
                              IN  o # <<>> => /\ o[1] \in Actions /\ o[2] \in Int
                                              /\ o[3] \in Nat /\ o[4] \in Nat
<1>1. WorldType /\ \A r \in Runs : runs[r] \in RunRow
  BY RunTyped DEF ScheduleInv
<1> QED
  BY <1>1 DEF WorldType, LoopRow, ActionRow, RunRow, Occurrences

\* What every step but the loop's decision leaves of the times.
Quiet ==
    /\ \A r \in Runs : runs'[r].occurrence = runs[r].occurrence
    /\ loop'.era <= era' /\ era' \in {era, era + 1}
    /\ era' = era => clock' >= clock
    /\ \A a \in Actions :
          \/ actions'[a].next \in {actions[a].next, NoTime} /\ actions'[a].era = actions[a].era
          \/ actions'[a].era = era' /\ (era' = era => Ahead(actions'[a].next, clock))
    /\ loop'.pc = "deciding" =>
          \/ loop.pc = "deciding" /\ loop'.era = loop.era /\ loop'.now = loop.now
          \/ /\ loop'.era = era /\ loop'.now = clock
             /\ UNCHANGED <<actions, clock, era>>

LEMMA QuietKeepsTimes ==
    ASSUME LedgerInv, ScheduleInv', Quiet
    PROVE  ClockInv' /\ PastInv' /\ OnceInv'
<1> USE DEF LedgerInv, Ahead
<1>1. /\ loop.era \in Nat /\ loop.now \in Int /\ clock \in Nat /\ era \in Nat
      /\ loop'.era \in Nat /\ loop'.now \in Int /\ clock' \in Nat /\ era' \in Nat
      /\ \A a \in Actions : /\ actions[a].next \in Int /\ actions[a].era \in Nat
                            /\ actions'[a].next \in Int /\ actions'[a].era \in Nat
      /\ NoTime \in Int
  <2>1. /\ WorldType /\ WorldType'
    BY DEF ScheduleInv
  <2> QED
    BY <2>1 DEF WorldType, LoopRow, ActionRow, NoTime
<1>2. ClockInv'
  BY <1>1 DEF ClockInv, Quiet
<1>3. OnceInv'
  BY DEF OnceInv, Quiet
<1>4. ASSUME NEW r \in Runs, runs'[r].occurrence # <<>>
      PROVE  Past(runs[r].occurrence, actions[runs[r].occurrence[1]])'
  <2> DEFINE o == runs[r].occurrence
             a == o[1]
             slot == o[2]
             computed == o[3]
             looked == o[4]
  <2>1. o # <<>> /\ runs'[r].occurrence = o
    BY <1>4 DEF Quiet
  <2>2. a \in Actions /\ slot \in Int /\ computed \in Nat /\ looked \in Nat
    BY <2>1, Numbers
  <2>3. Past(o, actions[a])
    BY <2>1 DEF PastInv
  <2> HIDE DEF a, slot, computed, looked
  <2>4. /\ computed <= era /\ looked <= era
        /\ looked = era => clock >= slot /\ Ahead(actions[a].next, slot)
        /\ loop.pc = "deciding" =>
              /\ looked <= loop.era
              /\ looked = era => loop.now >= slot
              /\ looked = loop.era => computed <= looked
                                      /\ (actions[a].era > looked \/ Ahead(actions[a].next, slot))
    BY <2>3 DEF Past, a, slot, computed, looked
  <2>5. /\ computed <= era' /\ looked <= era'
        /\ looked = era' => clock' >= slot /\ Ahead(actions'[a].next, slot)
    BY <1>1, <2>2, <2>4 DEF Quiet
  <2>6. ASSUME loop'.pc = "deciding", loop.pc = "deciding", loop'.era = loop.era, loop'.now = loop.now
        PROVE  /\ looked <= loop'.era
               /\ looked = era' => loop'.now >= slot
               /\ looked = loop'.era => computed <= looked
                                      /\ (actions'[a].era > looked \/ Ahead(actions'[a].next, slot))
    BY <1>1, <2>2, <2>4, <2>6 DEF Quiet
  <2>7. ASSUME loop'.pc = "deciding", loop'.era = era, loop'.now = clock,
               UNCHANGED <<actions, clock, era>>
        PROVE  /\ looked <= loop'.era
               /\ looked = era' => loop'.now >= slot
               /\ looked = loop'.era => computed <= looked
                                      /\ (actions'[a].era > looked \/ Ahead(actions'[a].next, slot))
    BY <1>1, <2>2, <2>4, <2>7
  <2>8. loop'.pc = "deciding" =>
              /\ looked <= loop'.era
              /\ looked = era' => loop'.now >= slot
              /\ looked = loop'.era => computed <= looked
                                      /\ (actions'[a].era > looked \/ Ahead(actions'[a].next, slot))
    BY <2>6, <2>7 DEF Quiet
  <2> QED
    BY <2>1, <2>5, <2>8 DEF Past, a, slot, computed, looked
<1>5. PastInv'
  BY <1>4 DEF PastInv
<1> QED
  BY <1>2, <1>3, <1>5

LEMMA StepIsQuiet ==
    ASSUME LedgerInv, [Next]_vars, ~Decide
    PROVE  Quiet
<1> USE DEF LedgerInv
<1>1. /\ loop.era \in Nat /\ loop.now \in Int /\ clock \in Nat /\ era \in Nat /\ loop.era <= era
      /\ NoTime \in Int /\ zone \in Zones
      /\ runs \in [Runs -> RunRow] /\ actions \in [Actions -> ActionRow] /\ MemoryType
      /\ \A a \in Actions : actions[a].anchor \in Int
  BY Numbers DEF ClockInv, NoTime, ScheduleInv, RunsInv, MemoryType, WorldType, ActionRow
<1>2. ASSUME UNCHANGED <<clock, era, loop>>,
             \A r \in Runs : runs'[r].occurrence = runs[r].occurrence,
             \A a \in Actions : actions'[a].next = actions[a].next /\ actions'[a].era = actions[a].era
      PROVE  Quiet
  BY <1>1, <1>2 DEF Quiet
<1>3. ASSUME NEW r \in Runs, NEW status, SetRunStatus(r, status)
      PROVE  /\ \A s \in Runs : runs'[s].occurrence = runs[s].occurrence
             /\ \A a \in Actions : actions'[a].next = actions[a].next /\ actions'[a].era = actions[a].era
  <2>1. \A s \in Runs : runs'[s].occurrence = runs[s].occurrence
    <3>1. \/ runs' = runs
          \/ \E attempts : runs' = [runs EXCEPT ![r] =
                                     [runs[r] EXCEPT !.status = status, !.attempts = attempts]]
      BY <1>1, StatusWritten, <1>3 DEF Written
    <3> QED
      BY <1>1, <3>1 DEF RunRow
  <2>2. \A a \in Actions : actions'[a].next = actions[a].next /\ actions'[a].era = actions[a].era
    BY <1>1, <1>3 DEF SetRunStatus, ActionRow
  <2> QED
    BY <2>1, <2>2
<1>4. CASE \E r \in Runs : TaskStep(r) \/ DriverStep(r)
  <2>1. PICK r \in Runs : TaskStep(r) \/ DriverStep(r)
    BY <1>4
  <2>2. UNCHANGED <<loop, clock, era>>
    BY <2>1 DEF TaskStep, DriverStep, Spawn, TurnAway, Admit, Start, NextStep, Dispatch, StepEnds,
         Finish, Release, WatchCancel, WatchDeadline, WatchEnded, Attach, StepBegin, AskBack, TypeStep,
         StepFinish, ReportVerdict, WriteVerdict, world
  <2>3. drivers[r] \in DriverStates
    BY <1>1 DEF MemoryType
  <2> QED
    BY <1>1, <1>2, <1>3, <2>1, <2>2, <2>3, RunStepStatus
<1>5. CASE LoopTop
  BY <1>1, <1>5 DEF LoopTop, Quiet, world
<1>6. CASE LoopLeave
  BY <1>1, <1>6 DEF LoopLeave, Quiet, world
<1>7. CASE RescheduleAll
  <2>1. /\ \A a \in Actions : actions'[a] = actions[a] \/ actions'[a].era = era + 1
        /\ era' = era + 1 /\ runs' = runs /\ loop'.era = loop.era /\ loop'.pc = "spawning"
    BY <1>1, <1>7 DEF RescheduleAll, ActionRow, WorldType, LoopRow, ScheduleInv
  <2> QED
    BY <1>1, <2>1 DEF Quiet
<1>8. CASE LoopTurn
  <2>1. loop'.era = 0 /\ loop'.pc = "top" /\ UNCHANGED <<actions, runs, clock, era>>
    BY <1>8 DEF LoopTurn, world, ScheduleInv, WorldType, LoopRow
  <2> QED
    BY <1>1, <2>1 DEF Quiet
<1>9. ASSUME NEW open \in BOOLEAN, StartIfEnabled(open)
      PROVE  loop'.era = loop.era /\ (loop'.pc = "deciding" => loop' = loop)
  BY <1>9 DEF StartIfEnabled, ScheduleInv, WorldType, LoopRow
<1>10. CASE SwitchOff
  BY <1>2, <1>10 DEF SwitchOff, world
<1>11. CASE SwitchOn
  <2>1. loop'.era = loop.era /\ (loop'.pc = "deciding" => loop' = loop)
    BY <1>9, <1>11 DEF SwitchOn
  <2>2. UNCHANGED <<actions, runs, clock, era>>
    BY <1>11 DEF SwitchOn, world
  <2> QED
    BY <1>1, <2>1, <2>2 DEF Quiet
<1>12. CASE \E a \in Actions : SaveAction(a) \/ SetEnabled(a)
  <2>1. PICK a \in Actions : SaveAction(a) \/ SetEnabled(a)
    BY <1>12
  <2>2. /\ UNCHANGED <<runs, clock, era>> /\ loop'.era = loop.era
        /\ loop'.pc = "deciding" => loop' = loop
    <3>1. gate \in BOOLEAN
      BY DEF ScheduleInv, WorldType
    <3> QED
      BY <1>9, <2>1, <3>1 DEF SaveAction, SetEnabled, world
  <2>3. \A anchor \in Int : Ahead(NextFireAfter(Plan[a].rule, anchor, zone, clock), clock)
    BY <1>1, NextFireLiesAhead DEF Ahead
  <2>4. \E next : /\ Ahead(next, clock) /\ actions'[a].next = next /\ actions'[a].era = era
                  /\ \A b \in Actions \ {a} : actions'[b] = actions[b]
    <3>1. CASE SaveAction(a)
      <4>1. PICK enabled \in BOOLEAN :
              actions' = [actions EXCEPT ![a].enabled = enabled, ![a].zone = zone, ![a].era = era,
                  ![a].next = IF enabled THEN NextFireAfter(Plan[a].rule, actions[a].anchor, zone, clock)
                              ELSE NoTime]
        BY <3>1 DEF SaveAction
      <4> DEFINE next == IF enabled THEN NextFireAfter(Plan[a].rule, actions[a].anchor, zone, clock)
                         ELSE NoTime
      <4>2. Ahead(next, clock)
        BY <1>1, <2>3 DEF Ahead
      <4>3. actions' = [actions EXCEPT ![a].enabled = enabled, ![a].zone = zone, ![a].era = era,
                                       ![a].next = next]
        BY <4>1
      <4> HIDE DEF next
      <4>4. actions'[a].next = next /\ actions'[a].era = era
        BY <1>1, <4>3 DEF ActionRow
      <4> QED
        BY <1>1, <4>2, <4>3, <4>4
    <3>2. CASE SetEnabled(a)
      <4>1. PICK enabled \in BOOLEAN :
              actions' = [actions EXCEPT ![a].enabled = enabled, ![a].era = era,
                  ![a].next = IF enabled THEN NextFireAfter(Plan[a].rule, NoTime, zone, clock)
                              ELSE NoTime]
        BY <3>2 DEF SetEnabled
      <4> DEFINE next == IF enabled THEN NextFireAfter(Plan[a].rule, NoTime, zone, clock)
                         ELSE NoTime
      <4>2. Ahead(next, clock)
        BY <1>1, <2>3 DEF Ahead
      <4>3. actions' = [actions EXCEPT ![a].enabled = enabled, ![a].era = era, ![a].next = next]
        BY <4>1
      <4> HIDE DEF next
      <4>4. actions'[a].next = next /\ actions'[a].era = era
        BY <1>1, <4>3 DEF ActionRow
      <4> QED
        BY <1>1, <4>2, <4>3, <4>4
    <3> QED
      BY <2>1, <3>1, <3>2
  <2> QED
    BY <1>1, <2>2, <2>4 DEF Quiet
<1>13. CASE \E a \in Actions : RunNow(a)
  <2>1. PICK a \in Actions : RunNow(a)
    BY <1>13
  <2>2. PICK n \in 0..MaxRuns : \A r \in Runs : runs[r].status # "absent" <=> r <= n
    BY DEF ScheduleInv, InOrder
  <2> DEFINE r == n + 1
  <2>3. /\ runs' = [runs EXCEPT ![r] = NewRow(a, "manual", FirstStatus(a), <<>>)]
        /\ UNCHANGED <<clock, era, loop>> /\ n < MaxRuns
    BY <2>1, <2>2, IssuedCount DEF RunNow, world
  <2>4. r \in Runs /\ ~(r <= n)
    BY <2>2, <2>3, ScheduleAssumption DEF Runs
  <2>5. runs[r].status = "absent"
    BY <2>2, <2>4
  <2>6. runs[r].occurrence = <<>>
    BY <2>4, <2>5, RunTyped DEF ScheduleInv, Sound, Recorded
  <2>7. \A s \in Runs : runs'[s].occurrence = runs[s].occurrence
    BY <1>1, <2>3, <2>4, <2>6 DEF NewRow
  <2>8. \A b \in Actions : actions'[b].next = actions[b].next /\ actions'[b].era = actions[b].era
    <3>1. \E run, status, on : actions' = [actions EXCEPT ![a].lastRun = run, ![a].lastStatus = status,
                                                          ![a].enabled = on]
      BY <2>1 DEF RunNow
    <3> QED
      BY <1>1, <3>1 DEF ActionRow
  <2> QED
    BY <1>2, <2>3, <2>7, <2>8
<1>14. CASE \E a \in Actions : DeleteCancel(a)
  BY <1>2, <1>14 DEF DeleteCancel, world
<1>15. CASE \E a \in Actions : DeleteRow(a)
  <2>1. PICK a \in Actions : DeleteRow(a)
    BY <1>15
  <2>2. /\ \A r \in Runs : runs'[r].occurrence = runs[r].occurrence
        /\ UNCHANGED <<clock, era, loop>>
    BY <1>1, <2>1 DEF DeleteRow, RunRow, world
  <2>3. \A b \in Actions : /\ actions'[b].next \in {actions[b].next, NoTime}
                           /\ actions'[b].era = actions[b].era
    BY <1>1, <2>1 DEF DeleteRow, ActionRow
  <2> QED
    BY <1>1, <2>2, <2>3 DEF Quiet
<1>16. CASE \E r \in Runs : CancelRun(r)
  BY <1>2, <1>16 DEF CancelRun, world
<1>17. CASE \E r \in Runs : DeleteRun(r)
  <2>1. /\ \A r \in Runs : runs'[r].occurrence = runs[r].occurrence
        /\ UNCHANGED <<clock, era, loop, actions>>
    BY <1>1, <1>17 DEF DeleteRun, world, NoRow
  <2> QED
    BY <1>2, <2>1
<1>18. CASE Advance
  BY <1>1, <1>18 DEF Advance, Quiet
<1>19. CASE SetClockBack
  BY <1>1, <1>19 DEF SetClockBack, Quiet
<1>20. CASE MoveZone
  BY <1>2, <1>20 DEF MoveZone
<1>21. CASE ReloadWebview
  BY <1>2, <1>21 DEF ReloadWebview, world
<1>22. CASE Restart
  <2>1. /\ UNCHANGED <<clock, era>> /\ loop'.era = era /\ loop'.pc # "deciding"
    BY <1>22 DEF Restart
  <2>2. \A r \in Runs : runs'[r].occurrence = runs[r].occurrence
    BY <1>1, <1>22, RestartedRow
  <2>3. \A a \in Actions : actions'[a].next = actions[a].next /\ actions'[a].era = actions[a].era
    BY <1>1, <1>22 DEF Restart, ActionRow
  <2> QED
    BY <1>1, <2>1, <2>2, <2>3 DEF Quiet
<1>23. CASE UNCHANGED vars
  BY <1>2, <1>23 DEF vars, world
<1> QED
  BY <1>4, <1>5, <1>6, <1>7, <1>8, <1>10, <1>11, <1>12, <1>13, <1>14, <1>15, <1>16, <1>17,
     <1>18, <1>19, <1>20, <1>21, <1>22, <1>23 DEF Next, LoopStep, UserStep, WorldStep

LEMMA DecideKeepsTimes ==
    ASSUME LedgerInv, Decide
    PROVE  ClockInv' /\ PastInv' /\ OnceInv'
<1> USE DEF LedgerInv, Ahead
<1>1. PICK S \in SUBSET Actions : \E R \in [S -> Runs] : Recording(S, R)
  BY DecideKeepsInv
<1>2. PICK R \in [S -> Runs] : Recording(S, R)
  BY <1>1
<1>3. /\ loop.pc = "deciding" /\ loop'.pc = "spawning" /\ loop'.era = loop.era
      /\ UNCHANGED <<clock, era>>
  BY DEF Decide, world, ScheduleInv, WorldType, LoopRow
<1>4. /\ loop.era \in Nat /\ loop.now \in Int /\ clock \in Nat /\ era \in Nat /\ NoTime \in Int
      /\ \A a \in Actions : /\ actions[a].next \in Int /\ actions[a].era \in Nat
                            /\ actions'[a].next \in Int /\ actions'[a].era \in Nat
  <2>1. WorldType /\ WorldType'
    BY DecideKeepsInv DEF ScheduleInv
  <2> QED
    BY <2>1 DEF WorldType, LoopRow, ActionRow, NoTime
<1>5. ClockInv'
  BY <1>2, <1>3, <1>4 DEF ClockInv, Recording
<1>6. \A a \in S : /\ a \in Actions /\ R[a] \in Runs /\ actions[a].next # NoTime
                   /\ actions[a].next <= loop.now /\ Ahead(actions'[a].next, loop.now)
                   /\ runs'[R[a]].occurrence = <<a, actions[a].next, actions[a].era, loop.era>>
  <2> SUFFICES ASSUME NEW a \in S
               PROVE  /\ a \in Actions /\ R[a] \in Runs /\ actions[a].next # NoTime
                      /\ actions[a].next <= loop.now /\ Ahead(actions'[a].next, loop.now)
                      /\ runs'[R[a]].occurrence = <<a, actions[a].next, actions[a].era, loop.era>>
    OBVIOUS
  <2>1. PICK trigger \in Triggers, status \in {"skipped", FirstStatus(a)} :
           runs'[R[a]] = NewRow(a, trigger, status, <<a, actions[a].next, actions[a].era, loop.era>>)
    BY <1>2 DEF Recording
  <2>2. runs'[R[a]].occurrence = <<a, actions[a].next, actions[a].era, loop.era>>
    BY <2>1 DEF NewRow
  <2> QED
    BY <1>2, <2>2 DEF Recording
<1>7. \A r \in Runs : \/ \E a \in S : R[a] = r
                      \/ runs'[r].occurrence = runs[r].occurrence
  BY <1>2 DEF Recording
<1>8. ASSUME NEW r \in Runs, runs'[r].occurrence # <<>>
      PROVE  Past(runs[r].occurrence, actions[runs[r].occurrence[1]])'
  <2>1. CASE \E a \in S : R[a] = r
    <3>1. PICK a \in S : R[a] = r
      BY <2>1
    <3> DEFINE o == <<a, actions[a].next, actions[a].era, loop.era>>
    <3>2. runs'[r].occurrence = o /\ o[1] = a /\ o[2] = actions[a].next
          /\ o[3] = actions[a].era /\ o[4] = loop.era
      BY <1>6, <3>1
    <3> HIDE DEF o
    <3> QED
      BY <1>3, <1>4, <1>6, <3>1, <3>2 DEF Past, ClockInv
  <2>2. CASE runs'[r].occurrence = runs[r].occurrence
    <3> DEFINE o == runs[r].occurrence
               a == o[1]
               slot == o[2]
               computed == o[3]
               looked == o[4]
    <3>1. o # <<>> /\ runs'[r].occurrence = o
      BY <1>8, <2>2
    <3>2. a \in Actions /\ slot \in Int /\ computed \in Nat /\ looked \in Nat
      BY <3>1, Numbers
    <3>3. Past(o, actions[a])
      BY <3>1 DEF PastInv
    <3> HIDE DEF a, slot, computed, looked
    <3>4. /\ computed <= era /\ looked <= era
          /\ looked = era => clock >= slot /\ Ahead(actions[a].next, slot) /\ loop.now >= slot
      BY <1>3, <3>3 DEF Past, a, slot, computed, looked
    <3>5. actions'[a].next = actions[a].next \/ Ahead(actions'[a].next, loop.now)
      BY <1>2, <3>2 DEF Recording
    <3>6. looked = era => Ahead(actions'[a].next, slot)
      BY <1>4, <3>2, <3>4, <3>5
    <3> QED
      BY <1>3, <3>1, <3>4, <3>6 DEF Past, a, slot, computed, looked
  <2> QED
    BY <1>7, <2>1, <2>2
<1>9. ASSUME NEW a \in S, NEW r \in Runs, runs[r].occurrence # <<>>
      PROVE  runs[r].occurrence # <<a, actions[a].next, actions[a].era, loop.era>>
  <2> SUFFICES ASSUME runs[r].occurrence = <<a, actions[a].next, actions[a].era, loop.era>>
               PROVE  FALSE
    OBVIOUS
  <2> DEFINE o == runs[r].occurrence
  <2>1. o[1] = a /\ o[2] = actions[a].next /\ o[3] = actions[a].era /\ o[4] = loop.era
    OBVIOUS
  <2>2. Past(o, actions[a])
    BY <1>9, <2>1 DEF PastInv
  <2> QED
    BY <1>3, <1>4, <1>6, <2>1, <2>2 DEF Past
<1>10. OnceInv'
  <2> SUFFICES ASSUME NEW r \in Runs, NEW s \in Runs,
                      runs'[r].occurrence # <<>>, runs'[r].occurrence = runs'[s].occurrence
               PROVE  r = s
    BY DEF OnceInv
  <2>1. CASE (\E a \in S : R[a] = r) /\ (\E a \in S : R[a] = s)
    <3>1. PICK a \in S, b \in S : R[a] = r /\ R[b] = s
      BY <2>1
    <3>2. a = b
      BY <1>6, <3>1
    <3> QED
      BY <3>1, <3>2
  <2>2. CASE ~(\E a \in S : R[a] = r) /\ ~(\E a \in S : R[a] = s)
    BY <1>7, <2>2 DEF OnceInv
  <2>3. CASE (\E a \in S : R[a] = r) /\ ~(\E a \in S : R[a] = s)
    BY <1>6, <1>7, <1>9, <2>3
  <2>4. CASE ~(\E a \in S : R[a] = r) /\ (\E a \in S : R[a] = s)
    BY <1>6, <1>7, <1>9, <2>4
  <2> QED
    BY <2>1, <2>2, <2>3, <2>4
<1>11. PastInv'
  BY <1>8 DEF PastInv
<1> QED
  BY <1>5, <1>10, <1>11

\* A run's line in the ledger, and what may become of its row.
Entry(row) ==
    [phase |-> IF row.status \in InFlight THEN "open"
               ELSE IF row.status \in Ended THEN "closed"
               ELSE IF row.status = "deleted" THEN "erased" ELSE "absent",
     verdict |-> row.status, owner |-> row.action, occurrence |-> row.occurrence]

Follows(old, new) ==
    \/ new.status = old.status /\ new.action = old.action /\ new.occurrence = old.occurrence
    \/ old.status = "absent" /\ new.status \in InFlight \cup Ended
    \/ /\ old.status \in InFlight \cup Ended /\ new.occurrence = old.occurrence
       /\ new.action \in {old.action, NoAction}
       /\ \/ old.status \in InFlight /\ new.status \in InFlight \cup Ended
          \/ old.status \in Ended /\ new.status = old.status
          \/ old.status \in Ended /\ new.status = "deleted" /\ new.action = NoAction

LEMMA FollowsIsAMove ==
    ASSUME NEW old, NEW new, Follows(old, new)
    PROVE  Contract!Moves(Entry(old), Entry(new))
BY DEF Follows, Contract!Moves, Entry, InFlight, Ended

LEMMA StepFollows ==
    ASSUME LedgerInv, [Next]_vars, NEW r \in Runs
    PROVE  Follows(runs[r], runs'[r])
<1> USE DEF LedgerInv
<1>1. /\ runs \in [Runs -> RunRow] /\ MemoryType /\ runs[r] \in RunRow
      /\ runs[r].status \in RunStatuses /\ NoAction \notin Actions
  BY RunTyped DEF ScheduleInv, RunsInv, MemoryType, Actions, NoAction
<1>2. ASSUME \A s \in Runs : /\ runs'[s].status = runs[s].status /\ runs'[s].action = runs[s].action
                             /\ runs'[s].occurrence = runs[s].occurrence
      PROVE  Follows(runs[r], runs'[r])
  BY <1>2 DEF Follows
<1>3. ASSUME runs' = runs
      PROVE  Follows(runs[r], runs'[r])
  BY <1>3 DEF Follows
<1>4. CASE \E s \in Runs : TaskStep(s) \/ DriverStep(s)
  <2>1. PICK s \in Runs : TaskStep(s) \/ DriverStep(s)
    BY <1>4
  <2>2. CASE \E status \in {"running", "succeeded", "failed", "cancelled"} : SetRunStatus(s, status)
    <3>1. PICK status \in {"running", "succeeded", "failed", "cancelled"} : SetRunStatus(s, status)
      BY <2>2
    <3>2. CASE runs[s].status \in InFlight /\ runs' = [runs EXCEPT ![s] = Written(runs[s], status)]
      <4>1. CASE r = s
        <5>1. /\ runs'[r].status = status /\ runs'[r].action = runs[r].action
              /\ runs'[r].occurrence = runs[r].occurrence
          BY <1>1, <3>2, <4>1 DEF Written, RunRow
        <5> QED
          BY <3>2, <4>1, <5>1 DEF Follows, InFlight, Ended
      <4>2. CASE r # s
        BY <1>1, <3>2, <4>2 DEF Follows
      <4> QED
        BY <4>1, <4>2
    <3> QED
      BY <1>1, <1>3, <3>1, <3>2, StatusWritten
  <2>3. drivers[s] \in DriverStates
    BY <1>1 DEF MemoryType
  <2> QED
    BY <1>1, <1>2, <2>1, <2>2, <2>3, RunStepStatus
<1>5. CASE Decide
  <2>1. PICK S \in SUBSET Actions : \E R \in [S -> Runs] : Recording(S, R)
    BY <1>5, DecideKeepsInv
  <2>2. PICK R \in [S -> Runs] : Recording(S, R)
    BY <2>1
  <2>3. CASE \E a \in S : R[a] = r
    <3>1. PICK a \in S : R[a] = r
      BY <2>3
    <3>2. PICK trigger \in Triggers, status \in {"skipped", FirstStatus(a)} :
             runs'[r] = NewRow(a, trigger, status, <<a, actions[a].next, actions[a].era, loop.era>>)
      BY <2>2, <3>1 DEF Recording
    <3>3. runs[r].status = "absent" /\ runs'[r].status = status
      BY <2>2, <3>1, <3>2 DEF Recording, NewRow
    <3> QED
      BY <3>2, <3>3 DEF Follows, FirstStatus, InFlight, Ended
  <2>4. CASE \A a \in S : R[a] # r
    BY <2>2, <2>4 DEF Recording, Follows
  <2> QED
    BY <2>3, <2>4
<1>6. CASE LoopTop \/ LoopLeave \/ RescheduleAll \/ LoopTurn
  BY <1>3, <1>6 DEF LoopTop, LoopLeave, RescheduleAll, LoopTurn
<1>7. CASE \/ SwitchOff \/ SwitchOn
           \/ \E a \in Actions : SaveAction(a) \/ SetEnabled(a) \/ DeleteCancel(a)
           \/ \E s \in Runs : CancelRun(s)
           \/ Advance \/ SetClockBack \/ MoveZone \/ ReloadWebview
  BY <1>3, <1>7 DEF SwitchOff, SwitchOn, SaveAction, SetEnabled, DeleteCancel, CancelRun, Advance,
                    SetClockBack, MoveZone, ReloadWebview
<1>8. CASE \E a \in Actions : RunNow(a)
  <2>1. PICK a \in Actions : RunNow(a)
    BY <1>8
  <2>2. PICK n \in 0..MaxRuns : \A s \in Runs : runs[s].status # "absent" <=> s <= n
    BY DEF ScheduleInv, InOrder
  <2> DEFINE m == n + 1
  <2>3. runs' = [runs EXCEPT ![m] = NewRow(a, "manual", FirstStatus(a), <<>>)] /\ n < MaxRuns
    BY <2>1, <2>2, IssuedCount DEF RunNow
  <2>4. m \in Runs /\ ~(m <= n)
    BY <2>2, <2>3, ScheduleAssumption DEF Runs
  <2> HIDE DEF m
  <2>5. CASE r = m
    <3>1. runs[r].status = "absent" /\ runs'[r].status = FirstStatus(a)
      BY <1>1, <2>2, <2>3, <2>4, <2>5 DEF NewRow
    <3> QED
      BY <3>1 DEF Follows, FirstStatus, InFlight
  <2>6. CASE r # m
    BY <1>1, <2>3, <2>6 DEF Follows
  <2> QED
    BY <2>5, <2>6
<1>9. CASE \E a \in Actions : DeleteRow(a)
  <2>1. PICK a \in Actions : DeleteRow(a)
    BY <1>9
  <2>2. runs'[r] = IF runs[r].action = a THEN [runs[r] EXCEPT !.action = NoAction] ELSE runs[r]
    BY <2>1 DEF DeleteRow
  <2>3. CASE runs[r].action = a
    <3>1. /\ runs'[r].status = runs[r].status /\ runs'[r].action = NoAction
          /\ runs'[r].occurrence = runs[r].occurrence
      BY <1>1, <2>2, <2>3 DEF RunRow
    <3>2. runs[r].status \notin {"absent", "deleted"}
      BY <1>1, <2>1, <2>3, RunTyped DEF ScheduleInv, Sound, Recorded, ErasedInv
    <3> QED
      BY <1>1, <3>1, <3>2 DEF Follows, RunStatuses
  <2>4. CASE runs[r].action # a
    BY <2>2, <2>4 DEF Follows
  <2> QED
    BY <2>3, <2>4
<1>10. CASE \E s \in Runs : DeleteRun(s)
  <2>1. PICK s \in Runs : DeleteRun(s)
    BY <1>10
  <2>2. CASE s = r
    <3>1. /\ runs'[r].status = "deleted" /\ runs'[r].action = NoAction /\ runs[r].status \in Ended
          /\ runs'[r].occurrence = runs[r].occurrence
      BY <1>1, <2>1, <2>2 DEF DeleteRun, NoRow
    <3> QED
      BY <3>1 DEF Follows
  <2>3. CASE s # r
    BY <1>1, <2>1, <2>3 DEF DeleteRun, Follows
  <2> QED
    BY <2>2, <2>3
<1>11. CASE Restart
  <2>1. /\ runs'[r].action = runs[r].action /\ runs'[r].occurrence = runs[r].occurrence
        /\ \/ runs'[r] = runs[r]
           \/ /\ runs[r].status \in InFlight
              /\ runs'[r].status \in {"interrupted", "succeeded", "failed", "cancelled"}
    BY <1>11, RestartedRow
  <2> QED
    BY <2>1 DEF Follows, Ended
<1>12. CASE UNCHANGED vars
  BY <1>3, <1>12 DEF vars
<1> QED
  BY <1>4, <1>5, <1>6, <1>7, <1>8, <1>9, <1>10, <1>11, <1>12 DEF Next, LoopStep, UserStep, WorldStep

LEMMA LedgerKept == LedgerInv /\ [Next]_vars => LedgerInv'
<1> SUFFICES ASSUME LedgerInv, [Next]_vars
             PROVE  LedgerInv'
  OBVIOUS
<1>1. ScheduleInv'
  BY NextInv DEF LedgerInv
<1>2. ClockInv' /\ PastInv' /\ OnceInv'
  BY <1>1, DecideKeepsTimes, StepIsQuiet, QuietKeepsTimes
<1>3. ErasedInv'
  <2> SUFFICES ASSUME NEW r \in Runs, runs'[r].status = "deleted"
               PROVE  runs'[r].action = NoAction
    BY DEF ErasedInv
  <2>1. Follows(runs[r], runs'[r])
    BY StepFollows
  <2> QED
    BY <2>1 DEF Follows, LedgerInv, ErasedInv, InFlight, Ended
<1> QED
  BY <1>1, <1>2, <1>3 DEF LedgerInv

-----------------------------------------------------------------------------
(* What is over is settled.                                                *)

\* A step of a run leaves the attempts of every run that is over alone.
LEMMA RunStepAttempts ==
    ASSUME RunsInv, NEW r \in Runs, TaskStep(r) \/ DriverStep(r)
    PROVE  \/ runs' = runs
           \/ \E status \in {"running", "succeeded", "failed", "cancelled"} :
                 SetRunStatus(r, status)
           \/ runs[r].status \in InFlight /\ \E s : runs' = [runs EXCEPT ![r].attempts = s]
<1> USE RunTyped, Names
<1>1. CASE TurnAway(r) \/ Start(r) \/ Finish(r) \/ WatchCancel(r) \/ WatchDeadline(r)
  BY <1>1 DEF TurnAway, Start, Finish, WatchCancel, WatchDeadline
<1>2. CASE WriteVerdict(r)
  BY <1>2 DEF WriteVerdict, Ended, DriverStates
<1>3. CASE Spawn(r) \/ Admit(r) \/ Dispatch(r) \/ Release(r) \/ WatchEnded(r) \/ AskBack(r)
            \/ TypeStep(r) \/ ReportVerdict(r)
  BY <1>3 DEF Spawn, Admit, Dispatch, Release, WatchEnded, AskBack, TypeStep, ReportVerdict
<1>4. CASE Attach(r)
  BY <1>4 DEF Attach
<1>5. CASE NextStep(r) \/ StepEnds(r)
  <2>1. tasks[r] \in Walk
    BY <1>5 DEF NextStep, StepEnds, TaskAt, Walk
  <2>2. runs[r].status \in InFlight
    BY <2>1 DEF Sound, Staged, InFlight
  <2>3. CASE NextStep(r)
    BY <2>2, <2>3 DEF NextStep, InsertAttempt
  <2>4. CASE StepEnds(r)
    BY <2>2, <2>4 DEF StepEnds
  <2> QED
    BY <1>5, <2>3, <2>4
<1>6. CASE StepBegin(r)
  BY <1>6 DEF StepBegin, InsertAttempt, Active, InFlight
<1>7. CASE StepFinish(r)
  <2>1. runs' = runs \/ (runs[r].status \in InFlight /\ \E i, x : SetAttempt(r, i, x))
    BY <1>7 DEF StepFinish
  <2>2. ASSUME NEW i, NEW x, SetAttempt(r, i, x)
        PROVE  runs' = [runs EXCEPT ![r].attempts = [@ EXCEPT ![i] = x]]
    BY <2>2 DEF SetAttempt
  <2> QED
    BY <2>1, <2>2
<1> QED
  BY <1>1, <1>2, <1>3, <1>4, <1>5, <1>6, <1>7 DEF TaskStep, DriverStep

\* Its row keeps what it says, or it is settled by the write that ends it.
Closes(old, new) ==
    \/ new.status \notin Ended
    \/ new.status = old.status /\ new.attempts = old.attempts
    \/ \A i \in DOMAIN new.attempts : new.attempts[i] # "running"

LEMMA WrittenCloses ==
    ASSUME NEW row \in RunRow, NEW status \in RunStatuses
    PROVE  Closes(row, Written(row, status))
<1>1. row.attempts \in Seq(AttemptStates)
  BY AttemptsTyped
<1>2. /\ Unsettled(row.attempts) \in Seq(AttemptStates)
      /\ Len(Unsettled(row.attempts)) = Len(row.attempts)
      /\ \A i \in 1..Len(row.attempts) : Unsettled(row.attempts)[i] # "running"
  BY <1>1, UnsettledFacts
<1>3. DOMAIN Unsettled(row.attempts) = 1..Len(row.attempts)
  BY <1>2, LenProperties
<1> QED
  BY <1>2, <1>3, WrittenRow DEF Closes

LEMMA StepCloses ==
    ASSUME ScheduleInv, [Next]_vars, ~Restart, NEW q \in Runs
    PROVE  torn' = torn /\ Closes(runs[q], runs'[q])
<1>1. /\ runs \in [Runs -> RunRow] /\ MemoryType /\ RunsInv /\ runs[q] \in RunRow
  BY RunTyped DEF ScheduleInv, RunsInv, MemoryType
<1>2. ASSUME runs' = runs
      PROVE  Closes(runs[q], runs'[q])
  BY <1>2 DEF Closes
<1>3. CASE \E r \in Runs : TaskStep(r) \/ DriverStep(r)
  <2>1. PICK r \in Runs : TaskStep(r) \/ DriverStep(r)
    BY <1>3
  <2>2. torn' = torn
    BY <2>1 DEF TaskStep, DriverStep, Spawn, TurnAway, Admit, Start, NextStep, Dispatch, StepEnds,
         Finish, Release, WatchCancel, WatchDeadline, WatchEnded, Attach, StepBegin, AskBack, TypeStep,
         StepFinish, ReportVerdict, WriteVerdict, world
  <2>3. CASE \E status \in {"running", "succeeded", "failed", "cancelled"} : SetRunStatus(r, status)
    <3>1. PICK status \in {"running", "succeeded", "failed", "cancelled"} : SetRunStatus(r, status)
      BY <2>3
    <3>2. CASE runs[r].status \in InFlight /\ runs' = [runs EXCEPT ![r] = Written(runs[r], status)]
      <4>1. CASE q = r
        <5>1. runs'[q] = Written(runs[q], status)
          BY <1>1, <3>2, <4>1
        <5>2. status \in RunStatuses
          BY <3>1 DEF RunStatuses, InFlight, Ended
        <5> QED
          BY <1>1, <2>2, <5>1, <5>2, WrittenCloses
      <4>2. CASE q # r
        BY <1>1, <2>2, <3>2, <4>2 DEF Closes
      <4> QED
        BY <4>1, <4>2
    <3> QED
      BY <1>1, <1>2, <2>2, <3>1, <3>2, StatusWritten
  <2>4. CASE runs[r].status \in InFlight /\ \E s : runs' = [runs EXCEPT ![r].attempts = s]
    <3>1. PICK s : runs' = [runs EXCEPT ![r].attempts = s]
      BY <2>4
    <3>2. CASE q = r
      <4>1. runs'[q].status = runs[q].status
        BY <1>1, <3>1, <3>2 DEF RunRow
      <4> QED
        BY <2>2, <2>4, <3>2, <4>1 DEF Closes, InFlight, Ended
    <3>3. CASE q # r
      BY <1>1, <2>2, <3>1, <3>3 DEF Closes
    <3> QED
      BY <3>2, <3>3
  <2> QED
    BY <1>1, <1>2, <2>1, <2>2, <2>3, <2>4, RunStepAttempts
<1>4. CASE Decide
  <2>0. torn' = torn
    BY <1>4 DEF Decide, world
  <2>1. PICK S \in SUBSET Actions : \E R \in [S -> Runs] : Recording(S, R)
    BY <1>4, DecideKeepsInv
  <2>2. PICK R \in [S -> Runs] : Recording(S, R)
    BY <2>1
  <2>3. CASE \E a \in S : R[a] = q
    <3>1. PICK a \in S : R[a] = q
      BY <2>3
    <3>2. PICK trigger \in Triggers, status \in {"skipped", FirstStatus(a)} :
             runs'[q] = NewRow(a, trigger, status, <<a, actions[a].next, actions[a].era, loop.era>>)
      BY <2>2, <3>1 DEF Recording
    <3>3. runs'[q].attempts = <<>>
      BY <3>2 DEF NewRow
    <3> QED
      BY <2>0, <3>3 DEF Closes
  <2>4. CASE \A a \in S : R[a] # q
    BY <2>0, <2>2, <2>4 DEF Recording, Closes
  <2> QED
    BY <2>3, <2>4
<1>5. CASE LoopTop \/ LoopLeave \/ RescheduleAll \/ LoopTurn
  BY <1>2, <1>5 DEF LoopTop, LoopLeave, RescheduleAll, LoopTurn, world
<1>6. CASE \/ SwitchOff \/ SwitchOn
           \/ \E a \in Actions : SaveAction(a) \/ SetEnabled(a) \/ DeleteCancel(a)
           \/ \E s \in Runs : CancelRun(s)
           \/ Advance \/ SetClockBack \/ MoveZone \/ ReloadWebview
  BY <1>2, <1>6 DEF SwitchOff, SwitchOn, SaveAction, SetEnabled, DeleteCancel, CancelRun, Advance,
                    SetClockBack, MoveZone, ReloadWebview, world
<1>7. CASE \E a \in Actions : RunNow(a)
  <2>1. PICK a \in Actions : RunNow(a)
    BY <1>7
  <2>2. \/ runs'[q] = runs[q]
        \/ runs'[q] = NewRow(a, "manual", FirstStatus(a), <<>>)
    BY <1>1, <2>1 DEF RunNow
  <2>3. NewRow(a, "manual", FirstStatus(a), <<>>).attempts = <<>>
    BY DEF NewRow
  <2> QED
    BY <2>1, <2>2, <2>3 DEF Closes, RunNow, world
<1>8. CASE \E a \in Actions : DeleteRow(a)
  <2>1. PICK a \in Actions : DeleteRow(a)
    BY <1>8
  <2>2. runs'[q] = IF runs[q].action = a THEN [runs[q] EXCEPT !.action = NoAction] ELSE runs[q]
    BY <2>1 DEF DeleteRow
  <2>3. runs'[q].status = runs[q].status /\ runs'[q].attempts = runs[q].attempts
    BY <1>1, <2>2 DEF RunRow
  <2> QED
    BY <2>1, <2>3 DEF Closes, DeleteRow, world
<1>9. CASE \E s \in Runs : DeleteRun(s)
  <2>1. PICK s \in Runs : DeleteRun(s)
    BY <1>9
  <2>2. runs'[q] = runs[q] \/ runs'[q].status = "deleted"
    BY <1>1, <2>1 DEF DeleteRun, NoRow
  <2> QED
    BY <2>1, <2>2 DEF Closes, Ended, DeleteRun, world
<1>10. CASE UNCHANGED vars
  BY <1>2, <1>10 DEF vars, world
<1> QED
  BY <1>3, <1>4, <1>5, <1>6, <1>7, <1>8, <1>9, <1>10 DEF Next, LoopStep, UserStep, WorldStep

LEMMA ClosedKept == LedgerInv /\ ClosedInv /\ [Next]_vars => ClosedInv'
<1> SUFFICES ASSUME LedgerInv, ClosedInv, [Next]_vars, NEW q \in Runs
             PROVE  /\ q \in torn' => runs'[q].status \in Ended \cup {"deleted"}
                    /\ runs'[q].status \in Ended /\ q \notin torn' =>
                          \A i \in DOMAIN runs'[q].attempts : runs'[q].attempts[i] # "running"
  BY DEF ClosedInv
<1>1. /\ q \in torn => runs[q].status \in Ended \cup {"deleted"}
      /\ runs[q].status \in Ended /\ q \notin torn =>
            \A i \in DOMAIN runs[q].attempts : runs[q].attempts[i] # "running"
  BY DEF ClosedInv
<1>2. runs[q] \in RunRow /\ ScheduleInv
  BY RunTyped DEF LedgerInv, ScheduleInv
<1>3. CASE Restart
  <2>1. CASE runs'[q] = runs[q] /\ (q \in torn' <=> q \in torn)
    BY <1>1, <2>1
  <2>2. CASE /\ runs[q].status \in InFlight /\ runs'[q] = Written(runs[q], "interrupted")
             /\ runs'[q].status = "interrupted" /\ (q \in torn' <=> q \in torn)
    <3>1. Closes(runs[q], runs'[q])
      BY <1>2, <2>2, WrittenCloses DEF RunStatuses, Ended
    <3> QED
      BY <1>1, <2>2, <3>1 DEF Closes, InFlight, Ended
  <2>3. CASE q \in torn' /\ runs'[q].status \in {"succeeded", "failed", "cancelled"}
    BY <2>3 DEF Ended
  <2> QED
    BY <1>2, <1>3, <2>1, <2>2, <2>3, RestartedRow
<1>4. CASE ~Restart
  <2>1. torn' = torn /\ Closes(runs[q], runs'[q])
    BY <1>2, <1>4, StepCloses
  <2>2. runs[q].status \in Ended \cup {"deleted"} => runs'[q].status \in Ended \cup {"deleted"}
    <3>1. Follows(runs[q], runs'[q])
      BY StepFollows
    <3> QED
      BY <3>1 DEF Follows, InFlight, Ended
  <2> QED
    BY <1>1, <2>1, <2>2 DEF Closes
<1> QED
  BY <1>3, <1>4

LEMMA InitLedger == Init => LedgerInv /\ ClosedInv
<1> SUFFICES ASSUME Init
             PROVE  LedgerInv /\ ClosedInv
  OBVIOUS
<1>1. /\ runs = [r \in Runs |-> NoRow] /\ loop.era = 0 /\ era = 0 /\ loop.pc = "top" /\ torn = {}
      /\ \A a \in Actions : actions[a].era = 0
  BY DEF Init
<1>2. ClockInv /\ PastInv /\ OnceInv /\ ErasedInv
  BY <1>1 DEF ClockInv, PastInv, OnceInv, ErasedInv, NoRow
<1>3. ClosedInv
  BY <1>1 DEF ClosedInv, NoRow, Ended
<1> QED
  BY <1>2, <1>3, InitInv DEF LedgerInv

THEOREM ClosedInvariant == Spec => [](LedgerInv /\ ClosedInv)
<1> QED
  BY InitLedger, LedgerKept, ClosedKept, PTL DEF Spec

(* The list agrees with the run it points at, and it points at the run     *)
(* that is going, unless the process was lost inside the write of the      *)
(* verdict: a run so cut is over, and none that is open is among them.     *)
THEOREM ListFollowsRun == Spec => []ListAgreesWithRun
<1>1. LedgerInv /\ ClosedInv => ListAgreesWithRun
  <2> SUFFICES ASSUME LedgerInv, ClosedInv, NEW a \in Live
               PROVE  LET r == actions[a].lastRun
                      IN  /\ r # NoRun /\ r \notin torn /\ runs[r].status # "deleted" =>
                                actions[a].lastStatus = runs[r].status
                          /\ \A s \in Runs :
                                runs[s].action = a /\ runs[s].status \in InFlight =>
                                    r = s /\ actions[a].lastStatus = runs[s].status
    BY DEF ListAgreesWithRun
  <2>1. ListedInv /\ OwnedInv /\ a \in Actions /\ a # NoAction
    BY DEF LedgerInv, ScheduleInv, ListInv, Live, NoAction, Actions
  <2>2. ASSUME NEW s \in Runs, runs[s].action = a, runs[s].status \in InFlight
        PROVE  actions[a].lastRun = s /\ s # NoRun /\ s \notin torn /\ runs[s].status # "deleted"
    BY <2>1, <2>2 DEF OwnedInv, ClosedInv, InFlight, Ended, Runs, NoRun
  <2> QED
    BY <2>1, <2>2 DEF ListedInv
<1> QED
  BY <1>1, ClosedInvariant, PTL

(* A step that reached a shell is on the record as something that may have *)
(* happened, and is settled once the run is over, unless the process was   *)
(* lost inside the write of the verdict.                                   *)
THEOREM ExecutionRecorded == Spec => []ExecutedIsOnRecord
<1>1. LedgerInv /\ ClosedInv => ExecutedIsOnRecord
  <2> SUFFICES ASSUME LedgerInv, ClosedInv, NEW r \in Runs, NEW i \in did[r],
                      runs[r].status # "deleted"
               PROVE  /\ i \in DOMAIN runs[r].attempts
                      /\ runs[r].attempts[i] \notin {"skipped", "blocked"}
                      /\ runs[r].status \in Ended /\ r \notin torn => runs[r].attempts[i] # "running"
    BY DEF ExecutedIsOnRecord
  <2>1. runs[r] \in RunRow /\ Sound(runs[r], tasks[r], drivers[r], did[r])
    BY RunTyped DEF LedgerInv, ScheduleInv
  <2>2. DOMAIN runs[r].attempts = 1..Len(runs[r].attempts)
    BY <2>1, AttemptsTyped
  <2> QED
    BY <2>1, <2>2 DEF Sound, Recorded, ClosedInv
<1> QED
  BY <1>1, ClosedInvariant, PTL

(* Loop, queue, tabs, restarts, deletions and changes of the clock         *)
(* together account for each occurrence at most once, keep one open run    *)
(* per action, and never reopen or rewrite a run that ended: the schedule  *)
(* implements the abstract one, step by step.                              *)
THEOREM ScheduleContractKept == Spec => KeepsContract
<1> DEFINE book == [r \in Runs |-> Entry(runs[r])]
<1>1. book = [r \in Runs |->
        [phase |-> IF runs[r].status \in InFlight THEN "open"
                   ELSE IF runs[r].status \in Ended THEN "closed"
                   ELSE IF runs[r].status = "deleted" THEN "erased" ELSE "absent",
         verdict |-> runs[r].status, owner |-> runs[r].action,
         occurrence |-> runs[r].occurrence]]
  BY DEF Entry
<1>2. Init => LedgerInv
  BY InitLedger
<1>3. Init => Contract!Init
  BY DEF Init, Contract!Init, NoRow, InFlight, Ended
<1>4. LedgerInv => Contract!OneOpenPerAction
  <2> SUFFICES ASSUME LedgerInv, NEW r \in Runs, NEW s \in Runs,
                      runs[r].status \in InFlight, runs[s].status \in InFlight,
                      runs[r].action = runs[s].action, runs[r].action # NoAction
               PROVE  r = s
    BY DEF Contract!OneOpenPerAction, Contract!Open
  <2> QED
    BY DEF LedgerInv, ScheduleInv, ListInv, OwnedInv
<1>5. LedgerInv => Contract!OccurrencesOnce
  BY DEF LedgerInv, OnceInv, Contract!OccurrencesOnce
<1>6. LedgerInv /\ LedgerInv' /\ [Next]_vars => Contract!Next
  <2> SUFFICES ASSUME LedgerInv, LedgerInv', [Next]_vars
               PROVE  Contract!Next
    OBVIOUS
  <2>1. ASSUME NEW r \in Runs
        PROVE  Contract!Moves(Entry(runs[r]), Entry(runs'[r]))
    BY StepFollows, FollowsIsAMove
  <2>2. Contract!OneOpenPerAction' /\ Contract!OccurrencesOnce'
    BY <1>4, <1>5, PTL
  <2> QED
    BY <2>1, <2>2 DEF Contract!Next, Entry
<1> QED
  BY <1>2, <1>3, <1>6, LedgerKept, PTL DEF Spec, KeepsContract, Contract!Spec
=============================================================================
