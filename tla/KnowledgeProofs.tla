-------------------------- MODULE KnowledgeProofs --------------------------
(***************************************************************************)
(* That ingestion implements the contract of a replaced document, for any  *)
(* number of machines, jobs and revisions.  KnowInv is the inductive       *)
(* invariant; OneStep says of every step what it does to the rows, the     *)
(* writers and the shared points, whatever else the action moves.          *)
(***************************************************************************)
EXTENDS KnowledgeProperties, TLAPS, SequenceTheorems, FiniteSetTheorems, WellFoundedInduction

Place ==
    {"idle", "claim", "begin", "resolve", "read", "embed", "stage", "check", "confirm",
     "activate", "verify", "hide", "purge", "retire", "succeeded", "failed", "paused"}
Status == {"none", "queued", "running", "cancelling", "completed", "failed", "cancelled"}

\* Rows, writers and points are what they are declared to be, and a row that
\* exists has its place in the order of creation.
KnowTypes ==
    /\ job \in [Job -> [status : Status, rev : 0 .. MaxRevision]]
    /\ writer \in [Machine -> [by : {"none", "app", "cli"}, job : Job \cup {NoJob},
                               pc : Place, current : BOOLEAN]]
    /\ cloud \in [Revision -> {"absent", "staging", "active"}]
    /\ born \in [Machine -> Seq(Job)]
    /\ \A j \in Job : job[j].status # "none" =>
          \E i \in DOMAIN born[Home[j]] : born[Home[j]][i] = j

\* Who holds the lock and where the runner is: a draining runner holds it,
\* and nobody works without it.
LockInv ==
    /\ runner \in [Machine -> {"off", "waiting", "draining", "leaving", "failing", "dead"}]
    /\ \A m \in Machine :
        /\ writer[m].by = "none" => writer[m].pc = "idle"
        /\ runner[m] = "draining" => writer[m].by = "app"

Uploads == {"read", "stage", "check", "confirm", "activate", "verify", "hide", "purge", "retire"}

\* The holder of a machine's lock works on a job of that machine, whose row
\* is running or cancelling from the claim to the end, and whose revision is
\* saved before any request that names it.
WorkInv ==
    \A m \in Machine :
        /\ writer[m].pc # "idle" => Mine(m) \in Job /\ Home[Mine(m)] = m
        /\ writer[m].pc \notin {"idle", "claim"} => job[Mine(m)].status \in {"running", "cancelling"}
        /\ writer[m].pc \in Uploads \cup {"resolve"} => Mine(m) \in Remote
        /\ writer[m].pc \in Uploads => Rev(m) # 0
        /\ writer[m].pc \in {"embed", "succeeded"} /\ Mine(m) \in Remote => Rev(m) # 0

\* Jobs never share a revision, and a job that fills a bucket has none.
RevInv ==
    /\ \A j \in Job \ Remote : job[j].rev = 0
    /\ \A j, k \in Job : j # k /\ job[j].rev = job[k].rev => job[j].rev = 0

\* Something at or above the revision can be found.
Headed(rev) == \E top \in Revision : cloud[top] = "active" /\ rev <= top
Passed(rev) == \E top \in Revision : cloud[top] = "active" /\ rev < top

\* A job that did not find its own revision active has not activated it.
OwnInv ==
    \A m \in Machine :
        /\ writer[m].pc \in {"stage", "confirm", "activate"} => ~writer[m].current
        /\ \/ writer[m].pc \in {"stage", "confirm"}
           \/ writer[m].pc \in {"embed", "check"} /\ Mine(m) \in Remote /\ ~writer[m].current
           => cloud[Rev(m)] # "active"

\* What it uploaded is there to be activated, unless a newer one deleted it.
StagedInv ==
    \A m \in Machine :
        writer[m].pc \in {"check", "confirm", "activate"} /\ ~writer[m].current
            => cloud[Rev(m)] = "staging" \/ Passed(Rev(m))

\* Only under an active revision of its own or a newer one does a job hide
\* or delete anything; only under a newer one its own.
HeadInv ==
    \A m \in Machine :
        /\ \/ writer[m].pc \in {"verify", "hide", "purge"}
           \/ writer[m].pc \in {"embed", "check"} /\ Mine(m) \in Remote /\ writer[m].current
           => Headed(Rev(m))
        /\ writer[m].pc = "retire" => Passed(Rev(m))

\* Under a revision that is done nothing older can be found, nor is a
\* request about to show any.
Clear(rev) ==
    /\ Headed(rev)
    /\ \A r \in Revision : r < rev => cloud[r] # "active"
    /\ \A m \in Machine : writer[m].pc = "activate" /\ Rev(m) < rev => cloud[Rev(m)] = "absent"
ClearedInv ==
    /\ \A j \in Job : job[j].status = "completed" /\ job[j].rev # 0 => Clear(job[j].rev)
    /\ \A m \in Machine : writer[m].pc = "succeeded" /\ Mine(m) \in Remote => Clear(Rev(m))

KnowInv ==
    KnowTypes /\ LockInv /\ WorkInv /\ RevInv /\ OwnInv /\ StagedInv /\ HeadInv /\ ClearedInv

-----------------------------------------------------------------------------
(* What a step does to the rows, the writers and the points.               *)

\* The operator changes one row.
Gesture(j, to) ==
    /\ <<job[j].status, to>> \in
          {<<"none", "queued">>, <<"failed", "queued">>, <<"cancelled", "queued">>,
           <<"queued", "cancelled">>, <<"failed", "cancelled">>, <<"running", "cancelling">>}
    /\ SetStatus(j, to)
    /\ IF job[j].status = "none" THEN Born(j) ELSE UNCHANGED born
    /\ UNCHANGED <<writer, cloud>>

Quiet == UNCHANGED <<job, born, writer, cloud>>

\* A writer stops where it is, or after a claim that found no queued row.
Drops(m) ==
    /\ \E w \in {Idle, [Idle EXCEPT !.by = "app"]} : writer' = [writer EXCEPT ![m] = w]
    /\ UNCHANGED <<job, born, cloud>>

\* The rows that nobody works on are settled, by the runner, which takes the
\* lock with it, or by a command that gives it back at once.
Settles(m) ==
    /\ writer[m].pc = "idle" /\ \E by \in {"none", "app"} : writer' = [writer EXCEPT ![m].by = by]
    /\ \E interrupted \in {"queued", "failed"} : job' = Recovered(m, interrupted)
    /\ UNCHANGED <<born, cloud>>

Takes(m, j) ==
    /\ writer[m].pc = "idle" /\ j \in Queued(m)
    /\ writer' = [writer EXCEPT ![m].job = j, ![m].pc = "claim"]
    /\ UNCHANGED <<job, born, cloud>>

Starts(j) ==
    /\ writer[Home[j]].pc = "idle" /\ job[j].status = "none"
    /\ writer' = [writer EXCEPT ![Home[j]] =
                     [by |-> "cli", job |-> j, pc |-> "claim", current |-> FALSE]]
    /\ job' = [Recovered(Home[j], "failed") EXCEPT ![j].status = "queued"]
    /\ Born(j) /\ UNCHANGED cloud

Claims(m) ==
    /\ writer[m].pc = "claim" /\ Goto(m, "begin")
    /\ job[Mine(m)].status = "queued" /\ SetStatus(Mine(m), "running")
    /\ UNCHANGED <<born, cloud>>

\* The row ends as the place says, or as the operator asked.
Closes(m, end) ==
    /\ \/ job[Mine(m)].status = "running" /\ end \in {"completed", "failed", "queued"}
       \/ job[Mine(m)].status = "cancelling" /\ end = "cancelled"
    /\ writer[m].pc \in {"succeeded", "failed", "paused"}
    /\ end = "completed" => writer[m].pc = "succeeded"
    /\ SetStatus(Mine(m), end) /\ UNCHANGED <<born, cloud>>
    /\ \E w \in {Idle, [Idle EXCEPT !.by = "app"]} : writer' = [writer EXCEPT ![m] = w]

\* From one place to the next, on what the job knows.
Passes(m, next) ==
    \/ Works(m, "begin") /\ next = "resolve" /\ Mine(m) \in Remote
    \/ Works(m, "begin") /\ next = "embed" /\ Mine(m) \notin Remote
    \/ Works(m, "resolve") /\ next = "read" /\ Rev(m) # 0
    \/ Works(m, "embed") /\ next = "succeeded" /\ Mine(m) \notin Remote
    \/ Works(m, "embed") /\ next = "check" /\ Mine(m) \in Remote /\ writer[m].current
    \/ Works(m, "embed") /\ next = "stage" /\ Mine(m) \in Remote /\ ~writer[m].current
    \/ Works(m, "check") /\ next = "verify" /\ writer[m].current
    \/ Works(m, "check") /\ next = "confirm" /\ ~writer[m].current
    \/ Works(m, "confirm") /\ next = "activate" /\ ~Headed(Rev(m))
    \/ Works(m, "verify") /\ next = "retire" /\ Passed(Rev(m))
    \/ Works(m, "verify") /\ next = "hide"
    \/ writer[m].pc \notin {"idle", "claim"} /\ next \in {"failed", "paused"}

Walks(m, next) == Passes(m, next) /\ Goto(m, next) /\ UNCHANGED <<job, born, cloud>>

Reads(m) ==
    /\ Works(m, "read")
    /\ \E next \in {"embed", "failed"}, current \in BOOLEAN :
          /\ next = "embed" => (current <=> cloud[Rev(m)] = "active")
          /\ writer' = [writer EXCEPT ![m].pc = next, ![m].current = current]
    /\ UNCHANGED <<job, born, cloud>>

Draws(m, r) ==
    /\ Works(m, "resolve") /\ Rev(m) = 0 /\ Goto(m, "read")
    /\ \A j \in Job : job[j].rev # r
    /\ job' = [job EXCEPT ![Mine(m)].rev = r]
    /\ UNCHANGED <<born, cloud>>

\* The requests that change points, answered or not.
Stages(m) ==
    /\ Works(m, "stage") /\ \E next \in {"check", "failed"} : Goto(m, next)
    /\ cloud' = [r \in Revision |-> IF r = Rev(m) THEN "staging" ELSE cloud[r]]
    /\ UNCHANGED <<job, born>>

Shows(m) ==
    /\ Works(m, "activate") /\ \E next \in {"verify", "failed"} : Goto(m, next)
    /\ cloud' = [r \in Revision |-> IF r = Rev(m) /\ cloud[r] = "staging" THEN "active" ELSE cloud[r]]
    /\ UNCHANGED <<job, born>>

Hides(m) ==
    /\ Works(m, "hide") /\ \E next \in {"purge", "failed"} : Goto(m, next)
    /\ cloud' = [r \in Revision |-> IF r < Rev(m) /\ cloud[r] = "active" THEN "staging" ELSE cloud[r]]
    /\ UNCHANGED <<job, born>>

Purges(m) ==
    /\ Works(m, "purge") /\ \E next \in {"succeeded", "failed"} : Goto(m, next)
    /\ cloud' = [r \in Revision |-> IF r < Rev(m) THEN "absent" ELSE cloud[r]]
    /\ UNCHANGED <<job, born>>

Withdraws(m) ==
    /\ Works(m, "retire") /\ Goto(m, "failed")
    /\ \E s \in {"absent", "staging"} :
          cloud' = [r \in Revision |-> IF r = Rev(m) THEN s ELSE cloud[r]]
    /\ UNCHANGED <<job, born>>

JobStep(m) ==
    \/ Drops(m) \/ Claims(m) \/ Reads(m)
    \/ Stages(m) \/ Shows(m) \/ Hides(m) \/ Purges(m) \/ Withdraws(m)
    \/ \E end \in Status : Closes(m, end)
    \/ \E next \in Place : Walks(m, next)
    \/ \E r \in Revision : Draws(m, r)

OneStep ==
    \/ Quiet
    \/ \E j \in Job : Starts(j) \/ \E to \in Status : Gesture(j, to)
    \/ \E m \in Machine : Settles(m) \/ JobStep(m) \/ \E j \in Job : Takes(m, j)

\* A step that touches no point and no revision: writers stay where they are
\* or wait before their first request, and only a job that succeeded ends as
\* completed.
Aside ==
    /\ UNCHANGED cloud /\ \A j \in Job : job'[j].rev = job[j].rev
    /\ \A n \in Machine :
        writer'[n] = writer[n] \/ writer'[n].pc \in {"idle", "claim", "begin"}
    /\ \A j \in Job : job'[j].status = "completed" =>
          \/ job[j].status = "completed"
          \/ \E m \in Machine : writer[m].pc = "succeeded" /\ Mine(m) = j

\* The job of one machine goes on; the others, and what is done, stay.
Moves(m, next, current) ==
    /\ writer[m].pc \notin {"idle", "claim"} /\ Mine(m) \in Job
    /\ writer'[m].pc = next /\ writer'[m].current = current /\ Mine(m)' = Mine(m)
    /\ \A n \in Machine \ {m} :
          /\ writer'[n] = writer[n]
          /\ writer[n].pc # "idle" => Mine(n) # Mine(m) /\ Rev(n)' = Rev(n)
    /\ \A j \in Job : job'[j].status = "completed" =>
          job[j].status = "completed" /\ job'[j].rev = job[j].rev

Does(m, next, current) ==
    \/ Passes(m, next) /\ current = writer[m].current /\ Rev(m)' = Rev(m) /\ UNCHANGED cloud
    \/ /\ Works(m, "read") /\ next \in {"embed", "failed"} /\ Rev(m)' = Rev(m) /\ UNCHANGED cloud
       /\ next = "embed" => (current <=> cloud[Rev(m)] = "active")
    \/ Works(m, "resolve") /\ next = "read" /\ UNCHANGED cloud
    \/ /\ current = writer[m].current /\ Rev(m)' = Rev(m)
       /\ \/ Works(m, "stage") /\ next \in {"check", "failed"}
             /\ cloud' = [r \in Revision |-> IF r = Rev(m) THEN "staging" ELSE cloud[r]]
          \/ Works(m, "activate") /\ next \in {"verify", "failed"}
             /\ cloud' = [r \in Revision |->
                            IF r = Rev(m) /\ cloud[r] = "staging" THEN "active" ELSE cloud[r]]
          \/ Works(m, "hide") /\ next \in {"purge", "failed"}
             /\ cloud' = [r \in Revision |->
                            IF r < Rev(m) /\ cloud[r] = "active" THEN "staging" ELSE cloud[r]]
          \/ Works(m, "purge") /\ next \in {"succeeded", "failed"}
             /\ cloud' = [r \in Revision |-> IF r < Rev(m) THEN "absent" ELSE cloud[r]]
          \/ Works(m, "retire") /\ next = "failed"
             /\ \E s \in {"absent", "staging"} :
                   cloud' = [r \in Revision |-> IF r = Rev(m) THEN s ELSE cloud[r]]

-----------------------------------------------------------------------------
(* The least and the greatest of a set of revisions.                       *)

LEMMA LeastOf ==
    ASSUME NEW S, S \subseteq Nat, S # {}
    PROVE  \E x \in S : \A y \in S : x <= y
<1>1. PICK x \in S : \A y \in S : ~ (<<y, x>> \in OpToRel(<, Nat))
  BY NatLessThanWellFounded, WFMin
<1>2. \A y \in S : ~(y < x)
  BY <1>1 DEF OpToRel
<1> QED BY <1>2

LEMMA GreatestOf ==
    ASSUME NEW n \in Nat, NEW S, S \subseteq 1 .. n, S # {}
    PROVE  \E x \in S : \A y \in S : y <= x
<1> DEFINE T == {k \in Nat : n - k \in S}
<1>1. T # {}
  <2>1. PICK s \in S : TRUE OBVIOUS
  <2>2. n - s \in Nat /\ n - (n - s) = s BY <2>1
  <2> QED BY <2>1, <2>2
<1>2. PICK k \in T : \A h \in T : k <= h
  <2> T \subseteq Nat OBVIOUS
  <2> HIDE DEF T
  <2> QED BY <1>1, LeastOf
<1>3. ASSUME NEW y \in S PROVE y <= n - k
  <2>1. y \in 1 .. n OBVIOUS
  <2>2. n - y \in Nat /\ n - (n - y) = y BY <2>1
  <2>3. n - y \in T BY <2>2
  <2>4. k \in Nat /\ k <= n - y BY <1>2, <2>3
  <2> QED BY <2>1, <2>4
<1> QED BY <1>2, <1>3

\* ActiveHead is the newest revision a search finds, 0 when it finds none.
LEMMA HeadIs ==
    ASSUME KnowTypes
    PROVE  /\ ActiveHead \in Nat
           /\ ActiveHead # 0 => ActiveHead \in Revision /\ cloud[ActiveHead] = "active"
           /\ \A r \in Revision : cloud[r] = "active" => r <= ActiveHead
<1> DEFINE S == In("active")
<1>1. S \subseteq Revision /\ \A r \in Revision : r \in S <=> cloud[r] = "active"
  BY DEF In
<1>2. MaxRevision \in Nat /\ Revision = 1 .. MaxRevision
  BY KnowledgeAssumption DEF Revision
<1>3. ActiveHead = IF S = {} THEN 0 ELSE CHOOSE r \in S : \A s \in S : s <= r
  BY DEF ActiveHead, Highest
<1> HIDE DEF S
<1>4. CASE S = {}
  BY <1>1, <1>3, <1>4
<1>5. CASE S # {}
  <2>1. \E r \in S : \A s \in S : s <= r
    BY <1>1, <1>2, <1>5, GreatestOf
  <2>2. ActiveHead \in S /\ \A s \in S : s <= ActiveHead
    BY <2>1, <1>3, <1>5
  <2> QED BY <2>2, <1>1, <1>2
<1> QED BY <1>4, <1>5

\* What the runner takes next is a queued job of its machine.
LEMMA OldestIsQueued ==
    ASSUME KnowTypes, NEW m \in Machine, Queued(m) # {}
    PROVE  Oldest(m) \in Queued(m)
<1> DEFINE T == {i \in DOMAIN born[m] : born[m][i] \in Queued(m)}
<1>1. born[m] \in Seq(Job) /\ DOMAIN born[m] = 1 .. Len(born[m]) /\ Len(born[m]) \in Nat
  BY DEF KnowTypes
<1>2. T # {}
  <2>1. PICK j \in Queued(m) : TRUE OBVIOUS
  <2>2. j \in Job /\ Home[j] = m /\ job[j].status = "queued"
    BY <2>1 DEF Queued, Here
  <2>3. \E i \in DOMAIN born[m] : born[m][i] = j
    BY <2>2 DEF KnowTypes
  <2> QED BY <2>3
<1>3. T \subseteq Nat
  BY <1>1
<1>4. PICK i \in T : \A h \in T : i <= h
  <2> HIDE DEF T
  <2> QED BY <1>2, <1>3, LeastOf
<1>5. \A h \in 1 .. (i - 1) : born[m][h] \notin Queued(m)
  BY <1>1, <1>4
<1>6. \E j \in Queued(m) : \E k \in DOMAIN born[m] :
         born[m][k] = j /\ \A h \in 1 .. (k - 1) : born[m][h] \notin Queued(m)
  BY <1>4, <1>5
<1> QED BY <1>6 DEF Oldest

-----------------------------------------------------------------------------
(* The lock.                                                               *)

LEMMA LockStep ==
    ASSUME KnowTypes, LockInv, Next PROVE LockInv'
<1> USE DEF KnowTypes, LockInv
<1>1. ASSUME NEW j \in Job, Enqueue(j) \/ Retry(j) \/ Cancel(j) PROVE LockInv'
  BY <1>1 DEF Enqueue, Retry, Cancel, Elsewhere
<1>2. ASSUME NEW j \in Job, CliStarts(j) PROVE LockInv'
  <2>1. Home[j] \in Machine
    BY KnowledgeAssumption
  <2> QED BY <1>2, <2>1 DEF CliStarts, process
<1>3. ASSUME NEW m \in Machine, SwitchOff(m) \/ SwitchOn(m) PROVE LockInv'
  BY <1>3 DEF SwitchOff, SwitchOn, Elsewhere
<1>4. ASSUME NEW m \in Machine, Spawn(m), UNCHANGED writer PROVE LockInv'
  BY <1>4 DEF Spawn
<1>5. ASSUME NEW m \in Machine, WakeJobRunner(m) PROVE LockInv'
  BY <1>4, <1>5 DEF WakeJobRunner
<1>6. ASSUME NEW m \in Machine, AcquireLock(m) PROVE LockInv'
  BY <1>6 DEF AcquireLock
<1>7. ASSUME NEW m \in Machine, NextJob(m) PROVE LockInv'
  <2>1. CASE enabled[m] /\ Queued(m) # {}
    BY <1>7, <2>1 DEF NextJob, Draining
  <2>2. CASE ~(enabled[m] /\ Queued(m) # {})
    <3>1. writer' = [writer EXCEPT ![m] = Idle] /\ runner' = [runner EXCEPT ![m] = "leaving"]
      BY <1>7, <2>2 DEF NextJob
    <3> QED BY <3>1 DEF Idle
  <2> QED BY <2>1, <2>2
<1>8. ASSUME NEW m \in Machine, DrainFails(m) PROVE LockInv'
  <2>1. CASE Draining(m)
    BY <1>8, <2>1 DEF DrainFails, Idle
  <2>2. CASE ~Draining(m)
    BY <1>8, <2>2 DEF DrainFails
  <2> QED BY <2>1, <2>2
<1>9. ASSUME NEW m \in Machine, ReleaseLease(m) PROVE LockInv'
  BY <1>9 DEF ReleaseLease, Rest
<1>10. ASSUME NEW m \in Machine, Recheck(m) PROVE LockInv'
  <2>1. CASE Queued(m) # {}
    BY <1>4, <1>10, <2>1 DEF Recheck
  <2>2. CASE Queued(m) = {}
    BY <1>10, <2>2 DEF Recheck
  <2> QED BY <2>1, <2>2
<1>11. ASSUME NEW m \in Machine, Restart(m) PROVE LockInv'
  <2>1. CASE writer[m].by = "app"
    BY <1>11, <2>1 DEF Restart, Idle
  <2>2. CASE writer[m].by # "app"
    BY <1>11, <2>2 DEF Restart
  <2> QED BY <2>1, <2>2
<1>12. ASSUME NEW m \in Machine, CliKilled(m) PROVE LockInv'
  BY <1>12 DEF CliKilled, process, Idle
<1>17. ASSUME NEW m \in Machine, Unwoken(m) PROVE LockInv'
  <2>1. CASE active[m]
    BY <1>17, <2>1 DEF Unwoken
  <2>2. CASE ~active[m]
    BY <1>17, <2>2 DEF Unwoken
  <2> QED BY <2>1, <2>2
<1>18. ASSUME NEW m \in Machine, CliSettles(m) PROVE LockInv'
  BY <1>18 DEF CliSettles, process
<1>13. ASSUME NEW m \in Machine, NEW pc, UNCHANGED process, writer[m].pc # "idle",
              Goto(m, pc)
       PROVE LockInv'
  BY <1>13 DEF Goto, process
<1>14. ASSUME NEW m \in Machine, UNCHANGED process, Ready(m) PROVE LockInv'
  <2>1. CASE App(m)
    BY <1>14, <2>1 DEF Ready, App, process, Idle
  <2>2. CASE ~App(m)
    BY <1>14, <2>2 DEF Ready, App, process, Idle
  <2> QED BY <2>1, <2>2
<1>15. ASSUME NEW m \in Machine, ReadHead(m) PROVE LockInv'
  BY <1>15 DEF ReadHead, Works, Local, Around, process
<1>16. ASSUME NEW m \in Machine, Work(m) \/ RequestFails(m) PROVE LockInv'
  <2> USE DEF Works, Local, Around
  <2>1. CASE ClaimJob(m)
    BY <1>13, <1>14, <2>1 DEF ClaimJob
  <2>2. CASE Begin(m)
    BY <1>13, <2>2 DEF Begin
  <2>3. CASE ResolveRevision(m)
    BY <1>13, <2>3 DEF ResolveRevision
  <2>4. CASE Embed(m)
    BY <1>13, <2>4 DEF Embed
  <2>5. CASE Stage(m)
    BY <1>13, <2>5 DEF Stage, Write
  <2>6. CASE CheckBeforeCommit(m)
    BY <1>13, <2>6 DEF CheckBeforeCommit
  <2>7. CASE Confirm(m)
    BY <1>13, <2>7 DEF Confirm
  <2>8. CASE Activate(m) \/ HideLower(m) \/ DeleteLower(m)
    BY <1>13, <2>8 DEF Activate, HideLower, DeleteLower, Write
  <2>9. CASE Verify(m)
    BY <1>13, <2>9 DEF Verify
  <2>10. CASE RetireOwn(m)
    BY <1>13, <2>10 DEF RetireOwn
  <2>11. CASE Finalize(m) \/ Requeue(m)
    BY <1>14, <2>11 DEF Finalize, Requeue, Ends
  <2>12. CASE RequestFails(m)
    BY <1>13, <2>12 DEF RequestFails
  <2> QED BY <1>15, <1>16, <2>1, <2>2, <2>3, <2>4, <2>5, <2>6, <2>7, <2>8, <2>9, <2>10, <2>11, <2>12
          DEF Work
<1> HIDE DEF KnowTypes, LockInv
<1> QED
  BY <1>1, <1>2, <1>3, <1>5, <1>6, <1>7, <1>8, <1>9, <1>10, <1>11, <1>12, <1>16,
     <1>17, <1>18 DEF Next, Desktop

-----------------------------------------------------------------------------
(* Every action takes one of the steps.                                    *)

LEMMA OperatorSteps ==
    ASSUME KnowInv, NEW j \in Job, Enqueue(j) \/ Retry(j) \/ Cancel(j) \/ CliStarts(j)
    PROVE  Starts(j) \/ \E to \in Status : Gesture(j, to)
<1>1. CASE Enqueue(j)
  <2>1. Gesture(j, "queued")
    BY <1>1 DEF Enqueue, Gesture, Elsewhere
  <2> QED BY <2>1 DEF Status
<1>2. CASE Retry(j)
  <2>1. Gesture(j, "queued")
    BY <1>2 DEF Retry, Gesture, Elsewhere
  <2> QED BY <2>1 DEF Status
<1>3. CASE Cancel(j)
  <2>1. CASE job[j].status = "running"
    <3>1. Gesture(j, "cancelling")
      BY <1>3, <2>1 DEF Cancel, Gesture, Elsewhere
    <3> QED BY <3>1 DEF Status
  <2>2. CASE job[j].status # "running"
    <3>1. Gesture(j, "cancelled")
      BY <1>3, <2>2 DEF Cancel, Gesture, Elsewhere
    <3> QED BY <3>1 DEF Status
  <2> QED BY <2>1, <2>2
<1>4. CASE CliStarts(j)
  <2>1. Home[j] \in Machine
    BY KnowledgeAssumption
  <2>2. writer[Home[j]].by = "none" => writer[Home[j]].pc = "idle"
    BY <2>1 DEF KnowInv, LockInv
  <2>3. Starts(j)
    BY <1>4, <2>2 DEF CliStarts, Starts
  <2> QED BY <2>3
<1> QED BY <1>1, <1>2, <1>3, <1>4

LEMMA RunnerSteps ==
    ASSUME KnowInv, NEW m \in Machine,
           \/ SwitchOff(m) \/ SwitchOn(m) \/ WakeJobRunner(m) \/ Desktop(m)
           \/ Unwoken(m) \/ DrainFails(m) \/ Restart(m) \/ CliSettles(m) \/ CliKilled(m)
    PROVE  Quiet \/ Drops(m) \/ Settles(m) \/ \E j \in Job : Takes(m, j)
<1>1. CASE \/ SwitchOff(m) \/ SwitchOn(m) \/ WakeJobRunner(m) \/ ReleaseLease(m)
           \/ Recheck(m) \/ Unwoken(m)
  BY <1>1 DEF Unwoken, SwitchOff, SwitchOn, WakeJobRunner, ReleaseLease, Recheck, Elsewhere, Rest, Quiet
<1>3. CASE DrainFails(m)
  <2>1. CASE Draining(m)
    BY <1>3, <2>1 DEF DrainFails, Drops
  <2>2. CASE ~Draining(m)
    BY <1>3, <2>2 DEF DrainFails, Quiet
  <2> QED BY <2>1, <2>2
<1>4. CASE Restart(m)
  <2>1. CASE writer[m].by = "app"
    BY <1>4, <2>1 DEF Restart, Drops
  <2>2. CASE writer[m].by # "app"
    BY <1>4, <2>2 DEF Restart, Quiet
  <2> QED BY <2>1, <2>2
<1>5. CASE CliKilled(m)
  BY <1>5 DEF CliKilled, Drops
<1>6. CASE AcquireLock(m)
  BY <1>6 DEF AcquireLock, Settles, KnowInv, LockInv
<1>8. CASE CliSettles(m)
  <2>1. writer[m].pc = "idle"
    BY <1>8 DEF CliSettles, KnowInv, LockInv
  <2>2. writer' = [writer EXCEPT ![m].by = "none"]
    BY <1>8 DEF CliSettles, KnowInv, KnowTypes
  <2> QED BY <1>8, <2>1, <2>2 DEF CliSettles, Settles
<1>7. CASE NextJob(m)
  <2>1. CASE enabled[m] /\ Queued(m) # {}
    <3>1. Oldest(m) \in Queued(m)
      BY <2>1, OldestIsQueued DEF KnowInv
    <3>3. Takes(m, Oldest(m))
      BY <1>7, <2>1, <3>1 DEF NextJob, Draining, Takes, Rest
    <3>4. Oldest(m) \in Job
      BY <3>1 DEF Queued, Here
    <3> QED BY <3>3, <3>4
  <2>2. CASE ~(enabled[m] /\ Queued(m) # {})
    BY <1>7, <2>2 DEF NextJob, Drops, Rest
  <2> QED BY <2>1, <2>2
<1> QED BY <1>1, <1>3, <1>4, <1>5, <1>6, <1>7, <1>8 DEF Desktop

\* Progress of a row that runs or is being cancelled changes nothing.
LEMMA ProgressKeeps ==
    ASSUME KnowInv, NEW m \in Machine, writer[m].pc \notin {"idle", "claim"}, Progress(m)
    PROVE  UNCHANGED job
<1>1. Mine(m) \in Job /\ job[Mine(m)].status \in {"running", "cancelling"}
  BY DEF KnowInv, WorkInv
<1>2. CASE Cancelled(m)
  BY <1>2 DEF Progress
<1>3. CASE ~Cancelled(m)
  <2>1. job[Mine(m)].status = "running"
    BY <1>1, <1>3 DEF Cancelled
  <2>2. job' = [job EXCEPT ![Mine(m)].status = "running"]
    BY <1>3 DEF Progress, SetStatus
  <2>3. job \in [Job -> [status : Status, rev : 0 .. MaxRevision]]
    BY DEF KnowInv, KnowTypes
  <2>4. \A j \in Job : job'[j] = job[j]
    BY <1>1, <2>1, <2>2, <2>3
  <2>5. job' = [j \in Job |-> job'[j]] /\ job = [j \in Job |-> job[j]]
    BY <1>1, <2>2, <2>3
  <2> QED BY <2>4, <2>5
<1> QED BY <1>2, <1>3

LEMMA Requests ==
    ASSUME KnowTypes, NEW m \in Machine
    PROVE  /\ Works(m, "stage") => Effect(m) = [r \in Revision |-> IF r = Rev(m) THEN "staging" ELSE cloud[r]]
           /\ Works(m, "activate") => Effect(m) =
                [r \in Revision |-> IF r = Rev(m) /\ cloud[r] = "staging" THEN "active" ELSE cloud[r]]
           /\ Works(m, "hide") => Effect(m) =
                [r \in Revision |-> IF r < Rev(m) /\ cloud[r] = "active" THEN "staging" ELSE cloud[r]]
           /\ Works(m, "purge") => Effect(m) =
                [r \in Revision |-> IF r < Rev(m) THEN "absent" ELSE cloud[r]]
<1>1. \A r \in Revision : cloud[r] \in {"absent", "staging", "active"}
  BY DEF KnowTypes
<1>2. /\ Uploaded["absent"] = "staging" /\ Uploaded["staging"] = "staging" /\ Uploaded["active"] = "staging"
      /\ Gone["absent"] = "absent" /\ Gone["staging"] = "absent" /\ Gone["active"] = "absent"
  BY DEF Uploaded, Gone
<1>3. /\ Shown["absent"] = "absent" /\ Shown["staging"] = "active" /\ Shown["active"] = "active"
      /\ Hidden["absent"] = "absent" /\ Hidden["staging"] = "staging" /\ Hidden["active"] = "staging"
  BY DEF Shown, Hidden
<1>4. CASE Works(m, "stage")
  <2>1. Effect(m) = [r \in Revision |-> IF r = Rev(m) THEN Uploaded[cloud[r]] ELSE cloud[r]]
    BY <1>4 DEF Works, Effect, Own
  <2>2. \A r \in Revision : Uploaded[cloud[r]] = "staging"
    BY <1>1, <1>2
  <2> QED BY <1>4, <2>1, <2>2 DEF Works
<1>5. CASE Works(m, "activate")
  <2>1. Effect(m) = [r \in Revision |-> IF r = Rev(m) THEN Shown[cloud[r]] ELSE cloud[r]]
    BY <1>5 DEF Works, Effect, Own
  <2>2. \A r \in Revision : Shown[cloud[r]] = IF cloud[r] = "staging" THEN "active" ELSE cloud[r]
    BY <1>1, <1>3
  <2> QED BY <1>5, <2>1, <2>2 DEF Works
<1>6. CASE Works(m, "hide")
  <2>1. Effect(m) = [r \in Revision |-> IF r < Rev(m) THEN Hidden[cloud[r]] ELSE cloud[r]]
    BY <1>6 DEF Works, Effect, Lower
  <2>2. \A r \in Revision : Hidden[cloud[r]] = IF cloud[r] = "active" THEN "staging" ELSE cloud[r]
    BY <1>1, <1>3
  <2> QED BY <1>6, <2>1, <2>2 DEF Works
<1>7. CASE Works(m, "purge")
  <2>1. Effect(m) = [r \in Revision |-> IF r < Rev(m) THEN Gone[cloud[r]] ELSE cloud[r]]
    BY <1>7 DEF Works, Effect, Lower
  <2>2. \A r \in Revision : Gone[cloud[r]] = "absent"
    BY <1>1, <1>2
  <2> QED BY <1>7, <2>1, <2>2 DEF Works
<1> QED BY <1>4, <1>5, <1>6, <1>7

LEMMA WorkSteps ==
    ASSUME KnowInv, NEW m \in Machine, Work(m) \/ RequestFails(m)
    PROVE  JobStep(m)
<1> USE DEF Works, Local, Around
<1>1. KnowTypes /\ WorkInv /\ OwnInv
  BY DEF KnowInv
<1>2. writer[m].pc \notin {"idle", "claim"} /\ Progress(m) => UNCHANGED job
  BY ProgressKeeps
<1>3. writer[m].pc \in Uploads => Rev(m) \in Revision
  BY <1>1, KnowledgeAssumption DEF KnowTypes, WorkInv, Uploads, Revision, Rev
<1>4. /\ ActiveHead \in Nat
      /\ ActiveHead # 0 => ActiveHead \in Revision /\ cloud[ActiveHead] = "active"
      /\ \A r \in Revision : cloud[r] = "active" => r <= ActiveHead
  BY <1>1, HeadIs
<1>5. ASSUME NEW next \in Place, Passes(m, next), Goto(m, next), UNCHANGED <<job, born, cloud>>
      PROVE  JobStep(m)
  BY <1>5 DEF JobStep, Walks
<1>6. ASSUME NEW next \in {"failed", "paused"}, writer[m].pc \notin {"idle", "claim"},
             Goto(m, next), UNCHANGED <<job, born, cloud>>
      PROVE  JobStep(m)
  <2>1. next \in Place
    BY DEF Place
  <2>2. Passes(m, next)
    BY <1>6 DEF Passes
  <2> QED BY <1>5, <1>6, <2>1, <2>2
<1>7. ASSUME Ready(m), UNCHANGED <<job, born, cloud>>
      PROVE  JobStep(m)
  BY <1>7 DEF JobStep, Drops, Ready
<1>8. CASE ClaimJob(m)
  BY <1>7, <1>8 DEF ClaimJob, JobStep, Claims
<1>9. CASE Begin(m)
  <2>1. PICK next : /\ next = Checked(m, IF Mine(m) \in Remote THEN "resolve" ELSE "embed")
                    /\ Goto(m, next)
                    /\ IF next \in {"paused", "failed"} THEN UNCHANGED job ELSE Progress(m)
    BY <1>9 DEF Begin
  <2>2. UNCHANGED <<job, born, cloud>> /\ writer[m].pc = "begin"
    BY <1>2, <1>9, <2>1 DEF Begin
  <2>3. next \in {"paused", "failed"} \/ next = IF Mine(m) \in Remote THEN "resolve" ELSE "embed"
    BY <2>1 DEF Checked
  <2>4. CASE next \in {"paused", "failed"}
    BY <1>6, <2>1, <2>2, <2>4
  <2>5. CASE next = IF Mine(m) \in Remote THEN "resolve" ELSE "embed"
    <3>1. Passes(m, next) /\ next \in Place
      BY <2>2, <2>5 DEF Passes, Place
    <3> QED BY <1>5, <2>1, <2>2, <3>1
  <2> QED BY <2>3, <2>4, <2>5
<1>10. CASE ResolveRevision(m)
  <2>1. CASE Rev(m) # 0 /\ Goto(m, "read") /\ UNCHANGED job
    <3>1. Passes(m, "read") /\ "read" \in Place
      BY <1>10, <2>1 DEF Passes, Place, ResolveRevision
    <3> QED BY <1>5, <1>10, <2>1, <3>1 DEF ResolveRevision
  <2>2. CASE Rev(m) = 0 /\ Fresh = {} /\ Goto(m, "failed") /\ UNCHANGED job
    BY <1>6, <1>10, <2>2 DEF ResolveRevision
  <2>3. CASE Rev(m) = 0 /\ Goto(m, "read") /\ \E r \in Fresh : job' = [job EXCEPT ![Mine(m)].rev = r]
    <3>1. PICK r \in Fresh : job' = [job EXCEPT ![Mine(m)].rev = r]
      BY <2>3
    <3>2. Draws(m, r) /\ r \in Revision
      BY <1>10, <2>3, <3>1 DEF ResolveRevision, Draws, Fresh
    <3> QED BY <3>2 DEF JobStep
  <2> QED BY <1>10, <2>1, <2>2, <2>3 DEF ResolveRevision
<1>11. CASE ReadHead(m)
  <2>1. Rev(m) \in Revision /\ Rev(m) \in Nat /\ Rev(m) # 0
    BY <1>3, <1>11, KnowledgeAssumption DEF ReadHead, Uploads, Revision
  <2>2. PICK next \in {"embed", "failed"}, current \in BOOLEAN :
           /\ next = IF ActiveHead > Rev(m) THEN "failed" ELSE "embed"
           /\ current = (ActiveHead = Rev(m))
           /\ writer' = [writer EXCEPT ![m].pc = next, ![m].current = current]
    <3>1. (IF ActiveHead > Rev(m) THEN "failed" ELSE "embed") \in {"embed", "failed"}
      OBVIOUS
    <3>2. (ActiveHead = Rev(m)) \in BOOLEAN
      OBVIOUS
    <3>3. writer' = [writer EXCEPT ![m].pc = IF ActiveHead > Rev(m) THEN "failed" ELSE "embed",
                                   ![m].current = (ActiveHead = Rev(m))]
      BY <1>11 DEF ReadHead
    <3> QED BY <3>1, <3>2, <3>3, Zenon
  <2>3. next = "embed" => (current <=> cloud[Rev(m)] = "active")
    <3>1. ActiveHead > Rev(m) \/ (ActiveHead = Rev(m) <=> cloud[Rev(m)] = "active")
      BY <1>4, <2>1
    <3> QED BY <2>2, <3>1, Zenon
  <2>4. Reads(m)
    BY <1>11, <2>2, <2>3 DEF ReadHead, Reads
  <2> QED BY <2>4 DEF JobStep
<1>12. CASE Embed(m)
  <2> DEFINE onward == IF Mine(m) \notin Remote THEN "succeeded"
                       ELSE IF writer[m].current THEN "check" ELSE "stage"
  <2>1. PICK next : /\ next = Checked(m, onward) /\ Goto(m, next)
                    /\ IF next \in {"paused", "failed"} THEN UNCHANGED job ELSE Progress(m)
    BY <1>12 DEF Embed
  <2>2. UNCHANGED <<job, born, cloud>> /\ writer[m].pc = "embed"
    BY <1>2, <1>12, <2>1 DEF Embed
  <2>3. next \in {"paused", "failed"} \/ next = onward
    BY <2>1 DEF Checked
  <2>4. CASE next \in {"paused", "failed"}
    BY <1>6, <2>1, <2>2, <2>4
  <2>5. CASE next = onward
    <3>1. Passes(m, next) /\ next \in Place
      BY <2>2, <2>5 DEF Passes, Place
    <3> QED BY <1>5, <2>1, <2>2, <3>1
  <2> QED BY <2>3, <2>4, <2>5
<1>13. CASE Stage(m)
  <2>1. CASE App(m) /\ ~enabled[m]
    BY <1>6, <1>13, <2>1 DEF Stage
  <2>2. CASE ~(App(m) /\ ~enabled[m])
    <3>1. Stages(m)
      BY <1>13, <2>2, <1>1, Requests DEF Stage, Write, Stages
    <3> QED BY <3>1 DEF JobStep
  <2> QED BY <2>1, <2>2
<1>14. CASE CheckBeforeCommit(m)
  <2> DEFINE onward == IF writer[m].current THEN "verify" ELSE "confirm"
  <2>1. PICK next : /\ next = IF App(m) /\ Cancelled(m) THEN "failed" ELSE Checked(m, onward)
                    /\ Goto(m, next)
    BY <1>14 DEF CheckBeforeCommit
  <2>2. UNCHANGED <<job, born, cloud>> /\ writer[m].pc = "check"
    BY <1>2, <1>14 DEF CheckBeforeCommit
  <2>3. next \in {"paused", "failed"} \/ next = onward
    BY <2>1 DEF Checked
  <2>4. CASE next \in {"paused", "failed"}
    BY <1>6, <2>1, <2>2, <2>4
  <2>5. CASE next = onward
    <3>1. Passes(m, next) /\ next \in Place
      BY <2>2, <2>5 DEF Passes, Place
    <3> QED BY <1>5, <2>1, <2>2, <3>1
  <2> QED BY <2>3, <2>4, <2>5
<1>15. CASE Confirm(m)
  <2>1. Rev(m) \in Revision /\ Rev(m) \in Nat /\ Rev(m) # 0
    BY <1>3, <1>15, KnowledgeAssumption DEF Confirm, Uploads, Revision
  <2>2. ActiveHead # Rev(m)
    BY <1>1, <1>4, <1>15, <2>1 DEF Confirm, OwnInv
  <2>3. CASE ActiveHead > Rev(m)
    BY <1>6, <1>15, <2>3 DEF Confirm
  <2>4. CASE ~(ActiveHead > Rev(m))
    <3>1. ~Headed(Rev(m))
      BY <1>4, <2>1, <2>2, <2>4, KnowledgeAssumption DEF Headed, Revision
    <3>2. Passes(m, "activate") /\ "activate" \in Place
      BY <1>15, <3>1 DEF Confirm, Passes, Place
    <3> QED BY <1>5, <1>15, <2>2, <2>4, <3>2 DEF Confirm
  <2> QED BY <2>3, <2>4
<1>16. CASE Activate(m)
  BY <1>1, <1>16, Requests DEF Activate, Write, Shows, JobStep
<1>17. CASE HideLower(m)
  BY <1>1, <1>17, Requests DEF HideLower, Write, Hides, JobStep
<1>18. CASE DeleteLower(m)
  BY <1>1, <1>18, Requests DEF DeleteLower, Write, Purges, JobStep
<1>19. CASE Verify(m)
  <2>1. Rev(m) \in Revision /\ Rev(m) \in Nat /\ Rev(m) # 0
    BY <1>3, <1>19, KnowledgeAssumption DEF Verify, Uploads, Revision
  <2>2. CASE ActiveHead > Rev(m)
    <3>1. Passed(Rev(m))
      BY <1>4, <2>1, <2>2 DEF Passed
    <3>2. Passes(m, "retire") /\ "retire" \in Place
      BY <1>19, <3>1 DEF Verify, Passes, Place
    <3> QED BY <1>5, <1>19, <2>2, <3>2 DEF Verify
  <2>3. CASE ~(ActiveHead > Rev(m))
    <3>1. Passes(m, "hide") /\ "hide" \in Place
      BY <1>19 DEF Verify, Passes, Place
    <3> QED BY <1>5, <1>19, <2>3, <3>1 DEF Verify
  <2> QED BY <2>2, <2>3
<1>20. CASE RetireOwn(m)
  <2>1. CASE UNCHANGED cloud
    BY <1>6, <1>20, <2>1 DEF RetireOwn
  <2>2. CASE cloud' = Own(m, Gone)
    <3>1. \A r \in Revision : Gone[cloud[r]] = "absent"
      BY <1>1 DEF KnowTypes, Gone
    <3>2. cloud' = [r \in Revision |-> IF r = Rev(m) THEN "absent" ELSE cloud[r]]
      BY <2>2, <3>1 DEF Own
    <3> QED BY <1>20, <3>2 DEF RetireOwn, Withdraws, JobStep
  <2>3. CASE cloud' = Own(m, Hidden)
    <3>1. Rev(m) \in Revision
      BY <1>3, <1>20 DEF RetireOwn, Uploads
    <3> DEFINE s == Hidden[cloud[Rev(m)]]
    <3>2. s \in {"absent", "staging"}
      BY <1>1, <3>1 DEF KnowTypes, Hidden
    <3>3. cloud' = [r \in Revision |-> IF r = Rev(m) THEN s ELSE cloud[r]]
      BY <2>3 DEF Own
    <3> HIDE DEF s
    <3> QED BY <1>20, <3>2, <3>3 DEF RetireOwn, Withdraws, JobStep
  <2> QED BY <1>20, <2>1, <2>2, <2>3 DEF RetireOwn
<1>21. CASE Finalize(m) \/ Requeue(m)
  <2>1. PICK pc \in {"succeeded", "failed", "paused"}, end \in {"completed", "failed", "queued"} :
           Ends(m, pc, end) /\ (end = "completed" => pc = "succeeded")
    BY <1>21 DEF Finalize, Requeue
  <2>2. job[Mine(m)].status \in {"running", "cancelling"}
    BY <1>1, <2>1 DEF Ends, WorkInv
  <2>3. Settled(job[Mine(m)].status, end) =
          IF job[Mine(m)].status = "running" THEN end ELSE "cancelled"
    BY <2>2 DEF Settled
  <2> DEFINE st == Settled(job[Mine(m)].status, end)
  <2>4. Closes(m, st)
    BY <2>1, <2>2, <2>3 DEF Ends, Closes, Ready
  <2>5. st \in Status
    BY <2>1, <2>3 DEF Status
  <2> HIDE DEF st
  <2> QED BY <2>4, <2>5 DEF JobStep
<1>22. CASE RequestFails(m)
  <2>1. CASE UNCHANGED cloud
    BY <1>6, <1>22, <2>1 DEF RequestFails
  <2>2. CASE writer[m].pc \in {"stage", "activate", "hide", "purge"} /\ cloud' = Effect(m)
    <3>1. Stages(m) \/ Shows(m) \/ Hides(m) \/ Purges(m)
      <4>1. CASE writer[m].pc = "stage"
        BY <1>1, <1>22, <2>2, <4>1, Requests DEF RequestFails, Stages
      <4>2. CASE writer[m].pc = "activate"
        BY <1>1, <1>22, <2>2, <4>2, Requests DEF RequestFails, Shows
      <4>3. CASE writer[m].pc = "hide"
        BY <1>1, <1>22, <2>2, <4>3, Requests DEF RequestFails, Hides
      <4>4. CASE writer[m].pc = "purge"
        BY <1>1, <1>22, <2>2, <4>4, Requests DEF RequestFails, Purges
      <4> QED BY <2>2, <4>1, <4>2, <4>3, <4>4
    <3> QED BY <3>1 DEF JobStep
  <2> QED BY <1>22, <2>1, <2>2 DEF RequestFails
<1> QED
  BY <1>8, <1>9, <1>10, <1>11, <1>12, <1>13, <1>14, <1>15, <1>16, <1>17, <1>18, <1>19, <1>20,
     <1>21, <1>22 DEF Work

LEMMA EveryStep ==
    ASSUME KnowInv, Next PROVE OneStep
<1>1. ASSUME NEW j \in Job, Enqueue(j) \/ Retry(j) \/ Cancel(j) \/ CliStarts(j) PROVE OneStep
  <2>1. Starts(j) \/ \E to \in Status : Gesture(j, to)
    BY <1>1, OperatorSteps
  <2> QED BY <2>1 DEF OneStep
<1>2. ASSUME NEW m \in Machine,
             \/ SwitchOff(m) \/ SwitchOn(m) \/ WakeJobRunner(m) \/ Desktop(m)
             \/ Unwoken(m) \/ DrainFails(m) \/ Restart(m) \/ CliSettles(m) \/ CliKilled(m)
      PROVE  OneStep
  <2>1. Quiet \/ Drops(m) \/ Settles(m) \/ \E j \in Job : Takes(m, j)
    BY <1>2, RunnerSteps
  <2> QED BY <2>1 DEF OneStep, JobStep
<1>3. ASSUME NEW m \in Machine, Work(m) \/ RequestFails(m) PROVE OneStep
  <2>1. JobStep(m)
    BY <1>3, WorkSteps
  <2> QED BY <2>1 DEF OneStep
<1> QED BY <1>1, <1>2, <1>3 DEF Next

-----------------------------------------------------------------------------
(* Every step keeps each part of the invariant.                            *)

LEMMA TypesStep ==
    ASSUME KnowInv, OneStep PROVE KnowTypes'
<1> DEFINE Row == [status : Status, rev : 0 .. MaxRevision]
           Post == [by : {"none", "app", "cli"}, job : Job \cup {NoJob}, pc : Place, current : BOOLEAN]
           Placed(j) == \E i \in DOMAIN born[Home[j]] : born[Home[j]][i] = j
<1>1. /\ job \in [Job -> Row] /\ writer \in [Machine -> Post]
      /\ cloud \in [Revision -> {"absent", "staging", "active"}]
      /\ born \in [Machine -> Seq(Job)]
      /\ \A j \in Job : job[j].status # "none" => Placed(j)
  BY DEF KnowInv, KnowTypes
<1>2. /\ Home \in [Job -> Machine] /\ Revision \subseteq 0 .. MaxRevision
      /\ \A m \in Machine : writer[m].pc # "idle" => Mine(m) \in Job
  BY KnowledgeAssumption DEF KnowInv, WorkInv, Revision
<1>3. ASSUME job' \in [Job -> Row], writer' \in [Machine -> Post], UNCHANGED <<born, cloud>>,
             \A j \in Job : job[j].status = "none" => job'[j].status = "none"
      PROVE  KnowTypes'
  BY <1>1, <1>3 DEF KnowTypes
<1>4. /\ \A m \in Machine, next \in Place : Goto(m, next) => writer' \in [Machine -> Post]
      /\ \A m \in Machine : Drops(m) => writer' \in [Machine -> Post]
      /\ \A m \in Machine, end \in Status : Closes(m, end) => writer' \in [Machine -> Post]
  <2>1. Idle \in Post /\ [Idle EXCEPT !.by = "app"] \in Post
    BY DEF Idle, Place
  <2>2. ASSUME NEW m \in Machine, NEW w \in Post, writer' = [writer EXCEPT ![m] = w]
        PROVE  writer' \in [Machine -> Post]
    BY <1>1, <2>2
  <2>3. ASSUME NEW m \in Machine, Drops(m) PROVE writer' \in [Machine -> Post]
    BY <2>1, <2>2, <2>3 DEF Drops
  <2>4. ASSUME NEW m \in Machine, NEW end \in Status, Closes(m, end) PROVE writer' \in [Machine -> Post]
    BY <2>1, <2>2, <2>4 DEF Closes
  <2>5. ASSUME NEW m \in Machine, NEW next \in Place, Goto(m, next) PROVE writer' \in [Machine -> Post]
    <3>1. writer[m] \in Post
      BY <1>1
    <3>2. [writer[m] EXCEPT !.pc = next] \in Post
      BY <3>1
    <3>3. writer' = [writer EXCEPT ![m] = [writer[m] EXCEPT !.pc = next]]
      BY <2>5 DEF Goto
    <3> QED BY <2>2, <3>2, <3>3
  <2> QED BY <2>3, <2>4, <2>5
<1>5. ASSUME NEW j \in Job, Born(j)
      PROVE  /\ born' \in [Machine -> Seq(Job)]
             /\ \A k \in Job : Placed(k) => Placed(k)'
             /\ Placed(j)'
  <2> DEFINE h == Home[j]
  <2>1. h \in Machine /\ born[h] \in Seq(Job)
    BY <1>1, <1>2
  <2>2. born' = [born EXCEPT ![h] = Append(born[h], j)]
    BY <1>5 DEF Born
  <2>3. /\ Append(born[h], j) \in Seq(Job) /\ Len(Append(born[h], j)) = Len(born[h]) + 1
        /\ Append(born[h], j)[Len(born[h]) + 1] = j
        /\ \A i \in 1 .. Len(born[h]) : Append(born[h], j)[i] = born[h][i]
        /\ Len(born[h]) \in Nat /\ DOMAIN born[h] = 1 .. Len(born[h])
        /\ DOMAIN Append(born[h], j) = 1 .. (Len(born[h]) + 1)
    BY <2>1
  <2>4. born' \in [Machine -> Seq(Job)]
    BY <1>1, <2>1, <2>2, <2>3
  <2>5. born'[h] = Append(born[h], j) /\ \A n \in Machine : n # h => born'[n] = born[n]
    BY <1>1, <2>1, <2>2
  <2>6. Placed(j)'
    BY <2>3, <2>5
  <2>7. ASSUME NEW k \in Job, Placed(k) PROVE Placed(k)'
    <3>1. PICK i \in DOMAIN born[Home[k]] : born[Home[k]][i] = k
      BY <2>7
    <3>2. CASE Home[k] = h
      BY <2>3, <2>5, <3>1, <3>2
    <3>3. CASE Home[k] # h
      BY <1>2, <2>5, <3>1, <3>3
    <3> QED BY <3>2, <3>3
  <2> QED BY <2>4, <2>6, <2>7
<1>6. ASSUME NEW j \in Job, NEW to \in Status, SetStatus(j, to)
      PROVE  job' \in [Job -> Row] /\ \A k \in Job \ {j} : job'[k] = job[k]
  BY <1>1, <1>6 DEF SetStatus
<1>7. ASSUME NEW m, NEW st \in Status
      PROVE  /\ Recovered(m, st) \in [Job -> Row]
             /\ \A j \in Job : job[j].status = "none" => Recovered(m, st)[j].status = "none"
  BY <1>1, <1>7 DEF Recovered, Status
<1> HIDE DEF Row, Post, Placed
<1>8. CASE Quiet
  BY <1>1, <1>3, <1>8 DEF Quiet
<1>9. ASSUME NEW j \in Job, NEW to \in Status, Gesture(j, to) PROVE KnowTypes'
  <2>1. job' \in [Job -> Row] /\ writer' = writer /\ cloud' = cloud
    BY <1>6, <1>9 DEF Gesture
  <2>2. CASE job[j].status = "none"
    <3>1. Born(j)
      BY <1>9, <2>2 DEF Gesture
    <3>2. \A k \in Job : job'[k].status # "none" => Placed(k)'
      BY <1>1, <1>5, <1>6, <1>9, <3>1 DEF Gesture
    <3> QED BY <1>1, <1>5, <2>1, <3>1, <3>2 DEF KnowTypes, Row, Post, Placed
  <2>3. CASE job[j].status # "none"
    BY <1>1, <1>3, <1>6, <1>9, <2>1, <2>3 DEF Gesture
  <2> QED BY <2>2, <2>3
<1>10. ASSUME NEW j \in Job, Starts(j) PROVE KnowTypes'
  <2>1. Home[j] \in Machine /\ Born(j) /\ cloud' = cloud
    BY <1>2, <1>10 DEF Starts
  <2>2. job' \in [Job -> Row] /\ \A k \in Job : job[k].status = "none" => k = j \/ job'[k].status = "none"
    <3> DEFINE rows == Recovered(Home[j], "failed")
    <3>1. rows \in [Job -> Row] /\ \A k \in Job : job[k].status = "none" => rows[k].status = "none"
      BY <1>7 DEF Status
    <3>2. job' = [rows EXCEPT ![j].status = "queued"]
      BY <1>10 DEF Starts
    <3> HIDE DEF rows
    <3>3. [rows[j] EXCEPT !.status = "queued"] \in Row
      BY <3>1 DEF Row, Status
    <3> QED BY <3>1, <3>2, <3>3
  <2>3. writer' \in [Machine -> Post]
    BY <1>1, <1>10, <2>1 DEF Starts, Post, Place
  <2>4. \A k \in Job : job'[k].status # "none" => Placed(k)'
    BY <1>1, <1>5, <2>1, <2>2
  <2> QED BY <1>1, <1>5, <2>1, <2>2, <2>3, <2>4 DEF KnowTypes, Row, Post, Placed
<1>11. ASSUME NEW m \in Machine, Drops(m) PROVE KnowTypes'
  BY <1>1, <1>3, <1>4, <1>11 DEF Drops
<1>12. ASSUME NEW m \in Machine, Settles(m) PROVE KnowTypes'
  <2>1. writer' \in [Machine -> Post]
    BY <1>1, <1>12 DEF Settles, Post
  <2> QED BY <1>3, <1>7, <1>12, <2>1 DEF Settles, Status
<1>13. ASSUME NEW m \in Machine, NEW j \in Job, Takes(m, j) PROVE KnowTypes'
  <2>1. writer' \in [Machine -> Post]
    BY <1>1, <1>13 DEF Takes, Post, Place
  <2> QED BY <1>1, <1>3, <1>13, <2>1 DEF Takes
<1>14. ASSUME NEW m \in Machine, Claims(m) PROVE KnowTypes'
  <2>1. Mine(m) \in Job /\ "running" \in Status /\ "begin" \in Place
    BY <1>2, <1>14 DEF Claims, Status, Place
  <2> QED BY <1>3, <1>4, <1>6, <1>14, <2>1 DEF Claims
<1>15. ASSUME NEW m \in Machine, NEW end \in Status, Closes(m, end) PROVE KnowTypes'
  <2>1. Mine(m) \in Job /\ job[Mine(m)].status # "none"
    BY <1>2, <1>15 DEF Closes
  <2> QED BY <1>3, <1>4, <1>6, <1>15, <2>1 DEF Closes
<1>16. ASSUME NEW m \in Machine, NEW next \in Place, Walks(m, next) PROVE KnowTypes'
  BY <1>1, <1>3, <1>4, <1>16 DEF Walks
<1>17. ASSUME NEW m \in Machine, Reads(m) PROVE KnowTypes'
  <2>1. writer' \in [Machine -> Post]
    <3>1. PICK next \in Place, current \in BOOLEAN :
             writer' = [writer EXCEPT ![m].pc = next, ![m].current = current]
      BY <1>17 DEF Reads, Place
    <3> QED BY <1>1, <3>1 DEF Post
  <2> QED BY <1>1, <1>3, <1>17, <2>1 DEF Reads
<1>18. ASSUME NEW m \in Machine, NEW r \in Revision, Draws(m, r) PROVE KnowTypes'
  <2>1. Mine(m) \in Job /\ "read" \in Place
    BY <1>2, <1>18 DEF Draws, Works, Place
  <2>2. job' \in [Job -> Row] /\ \A j \in Job : job'[j].status = job[j].status
    BY <1>1, <1>2, <1>18, <2>1 DEF Draws, Row
  <2> QED BY <1>3, <1>4, <1>18, <2>1, <2>2 DEF Draws
<1>19. ASSUME NEW m \in Machine, NEW next \in Place, Goto(m, next), UNCHANGED <<job, born>>,
              cloud' \in [Revision -> {"absent", "staging", "active"}]
       PROVE  KnowTypes'
  BY <1>1, <1>4, <1>19 DEF KnowTypes, Row, Post, Placed
<1>20. ASSUME NEW m \in Machine, Stages(m) PROVE KnowTypes'
  BY <1>1, <1>19, <1>20 DEF Stages, Place
<1>21. ASSUME NEW m \in Machine, Shows(m) PROVE KnowTypes'
  BY <1>1, <1>19, <1>21 DEF Shows, Place
<1>22. ASSUME NEW m \in Machine, Hides(m) PROVE KnowTypes'
  BY <1>1, <1>19, <1>22 DEF Hides, Place
<1>23. ASSUME NEW m \in Machine, Purges(m) PROVE KnowTypes'
  BY <1>1, <1>19, <1>23 DEF Purges, Place
<1>24. ASSUME NEW m \in Machine, Withdraws(m) PROVE KnowTypes'
  BY <1>1, <1>19, <1>24 DEF Withdraws, Place
<1> QED
  BY <1>8, <1>9, <1>10, <1>11, <1>12, <1>13, <1>14, <1>15, <1>16, <1>17, <1>18, <1>20, <1>21, <1>22,
     <1>23, <1>24 DEF OneStep, JobStep

\* What WorkInv asks of a place p with a job j of status s and revision v.
Suits(m, p, j, s, v) ==
    /\ p # "idle" => j \in Job /\ Home[j] = m
    /\ p \notin {"idle", "claim"} => s \in {"running", "cancelling"}
    /\ p \in Uploads \cup {"resolve"} => j \in Remote
    /\ p \in Uploads => v # 0
    /\ p \in {"embed", "succeeded"} /\ j \in Remote => v # 0

LEMMA WorkStep ==
    ASSUME KnowInv, OneStep PROVE WorkInv'
<1>1. /\ job \in [Job -> [status : Status, rev : 0 .. MaxRevision]]
      /\ writer \in [Machine -> [by : {"none", "app", "cli"}, job : Job \cup {NoJob},
                                 pc : Place, current : BOOLEAN]]
  BY DEF KnowInv, KnowTypes
<1>2. Home \in [Job -> Machine] /\ \A r \in Revision : r # 0
  BY KnowledgeAssumption DEF Revision
<1> DEFINE S(m) == Suits(m, writer[m].pc, Mine(m), job[Mine(m)].status, Rev(m))
<1>3. \A m \in Machine : S(m)
  BY DEF KnowInv, WorkInv, Suits
<1>4. SUFFICES \A n \in Machine : S(n)'
  BY <1>4 DEF WorkInv, Suits
<1> SUFFICES ASSUME NEW n \in Machine PROVE S(n)'
  BY <1>4
<1>5. S(n)
  BY <1>3
<1>6. ASSUME writer'[n].pc = "idle" PROVE S(n)'
  BY <1>6 DEF Suits, Uploads
<1>7. ASSUME writer'[n] = writer[n],
             Mine(n) \in Job => /\ job'[Mine(n)].rev = job[Mine(n)].rev
                                /\ \/ job'[Mine(n)].status = job[Mine(n)].status
                                   \/ job'[Mine(n)].status \in {"running", "cancelling"}
                                   \/ job[Mine(n)].status \notin {"running", "cancelling"}
      PROVE  S(n)'
  BY <1>5, <1>7 DEF Suits, Mine, Rev, Uploads
<1>8. CASE Quiet
  BY <1>7, <1>8 DEF Quiet
<1>9. ASSUME NEW j \in Job, NEW to \in Status, Gesture(j, to) PROVE S(n)'
  <2>1. writer'[n] = writer[n] /\ job' = [job EXCEPT ![j].status = to]
    BY <1>9 DEF Gesture, SetStatus
  <2>2. job[j].status \in {"running", "cancelling"} => to = "cancelling"
    BY <1>9 DEF Gesture
  <2>3. Mine(n) \in Job => /\ job'[Mine(n)].rev = job[Mine(n)].rev
                           /\ \/ job'[Mine(n)].status = job[Mine(n)].status
                              \/ job'[Mine(n)].status \in {"running", "cancelling"}
                              \/ job[Mine(n)].status \notin {"running", "cancelling"}
    BY <1>1, <2>1, <2>2
  <2> QED BY <1>7, <2>1, <2>3
<1>10. ASSUME NEW j \in Job, Starts(j) PROVE S(n)'
  <2>1. writer' = [writer EXCEPT ![Home[j]] = [by |-> "cli", job |-> j, pc |-> "claim", current |-> FALSE]]
    BY <1>10 DEF Starts
  <2>2. CASE n = Home[j]
    <3>1. writer'[n] = [by |-> "cli", job |-> j, pc |-> "claim", current |-> FALSE]
      BY <1>1, <2>1, <2>2
    <3> QED BY <2>2, <3>1 DEF Suits, Mine, Uploads
  <2>3. CASE n # Home[j]
    <3>1. writer'[n] = writer[n]
      BY <1>1, <2>1, <2>3
    <3>2. CASE writer[n].pc = "idle"
      BY <1>6, <3>1, <3>2
    <3>3. CASE writer[n].pc # "idle"
      <4>1. Mine(n) \in Job /\ Home[Mine(n)] = n /\ Mine(n) # j
        BY <1>5, <2>3, <3>3 DEF Suits
      <4>2. job'[Mine(n)] = Recovered(Home[j], "failed")[Mine(n)]
        BY <1>10, <4>1 DEF Starts, Recovered
      <4>3. job'[Mine(n)] = job[Mine(n)]
        BY <2>3, <4>1, <4>2 DEF Recovered
      <4> QED BY <1>7, <3>1, <4>3
    <3> QED BY <3>2, <3>3
  <2> QED BY <2>2, <2>3
<1>11. ASSUME NEW m \in Machine, NEW w, writer' = [writer EXCEPT ![m] = w], w.pc = "idle",
              \A j \in Job : Home[j] # m => job'[j] = job[j]
       PROVE  S(n)'
  <2>1. CASE n = m
    BY <1>1, <1>6, <1>11, <2>1
  <2>2. CASE n # m
    <3>1. writer'[n] = writer[n]
      BY <1>1, <1>11, <2>2
    <3>2. CASE writer[n].pc = "idle"
      BY <1>6, <3>1, <3>2
    <3>3. CASE writer[n].pc # "idle"
      BY <1>5, <1>7, <1>11, <2>2, <3>1, <3>3 DEF Suits
    <3> QED BY <3>2, <3>3
  <2> QED BY <2>1, <2>2
<1>12. ASSUME NEW m \in Machine, Drops(m) PROVE S(n)'
  BY <1>11, <1>12 DEF Drops, Idle
<1>13. ASSUME NEW m \in Machine, Settles(m) PROVE S(n)'
  <2>4. PICK by \in {"none", "app"} : writer' = [writer EXCEPT ![m].by = by]
    BY <1>13 DEF Settles
  <2>1. writer' = [writer EXCEPT ![m] = [writer[m] EXCEPT !.by = by]]
    BY <2>4
  <2>2. [writer[m] EXCEPT !.by = by].pc = "idle"
    BY <1>1, <1>13 DEF Settles
  <2>3. \A j \in Job : Home[j] # m => job'[j] = job[j]
    BY <1>13 DEF Settles, Recovered
  <2> QED BY <1>11, <2>1, <2>2, <2>3
<1>14. ASSUME NEW m \in Machine, NEW end \in Status, Closes(m, end) PROVE S(n)'
  <2>1. Mine(m) \in Job /\ Home[Mine(m)] = m
    BY <1>3, <1>14 DEF Closes, Suits
  <2>2. \A j \in Job : Home[j] # m => job'[j] = job[j]
    BY <1>1, <1>14, <2>1 DEF Closes, SetStatus
  <2>3. \E w \in {Idle, [Idle EXCEPT !.by = "app"]} : writer' = [writer EXCEPT ![m] = w]
    BY <1>14 DEF Closes
  <2> QED BY <1>11, <2>2, <2>3 DEF Idle
<1>15. ASSUME NEW m \in Machine, NEW w, n # m, writer[m].pc # "idle", writer' = [writer EXCEPT ![m] = w],
              \A j \in Job : Home[j] # m => job'[j] = job[j]
       PROVE  S(n)'
  <2>1. writer'[n] = writer[n]
    BY <1>1, <1>15
  <2>2. CASE writer[n].pc = "idle"
    BY <1>6, <2>1, <2>2
  <2>3. CASE writer[n].pc # "idle"
    BY <1>5, <1>7, <1>15, <2>1, <2>3 DEF Suits
  <2> QED BY <2>2, <2>3
<1>16. ASSUME NEW m \in Machine, NEW w, writer' = [writer EXCEPT ![m] = w], UNCHANGED job,
              Suits(m, w.pc, w.job, job[w.job].status, job[w.job].rev)
       PROVE  S(n)'
  <2>1. CASE n = m
    <3>1. writer'[n] = w
      BY <1>1, <1>16, <2>1
    <3> QED BY <1>16, <2>1, <3>1 DEF Mine, Rev
  <2>2. CASE n # m
    BY <1>1, <1>7, <1>16, <2>2
  <2> QED BY <2>1, <2>2
<1>17. ASSUME NEW m \in Machine, NEW j \in Job, Takes(m, j) PROVE S(n)'
  <2> DEFINE w == [writer[m] EXCEPT !.job = j, !.pc = "claim"]
  <2>1. writer' = [writer EXCEPT ![m] = w]
    BY <1>17 DEF Takes
  <2>2. w.pc = "claim" /\ w.job = j
    BY <1>1
  <2>3. Home[j] = m
    BY <1>17 DEF Takes, Queued, Here
  <2> HIDE DEF w
  <2>4. Suits(m, w.pc, w.job, job[w.job].status, job[w.job].rev)
    BY <2>2, <2>3 DEF Suits, Uploads
  <2> QED BY <1>16, <1>17, <2>1, <2>4 DEF Takes
<1>18. ASSUME NEW m \in Machine, Claims(m) PROVE S(n)'
  <2>1. Mine(m) \in Job /\ Home[Mine(m)] = m
    BY <1>3, <1>18 DEF Claims, Suits
  <2>2. job' = [job EXCEPT ![Mine(m)].status = "running"]
    BY <1>18 DEF Claims, SetStatus
  <2>3. writer' = [writer EXCEPT ![m] = [writer[m] EXCEPT !.pc = "begin"]]
    BY <1>18 DEF Claims, Goto
  <2>4. CASE n = m
    <3>1. writer'[n].pc = "begin" /\ writer'[n].job = Mine(m)
      BY <1>1, <2>3, <2>4 DEF Mine
    <3>2. job'[Mine(m)].status = "running"
      BY <1>1, <2>1, <2>2
    <3> QED BY <2>1, <2>4, <3>1, <3>2 DEF Suits, Mine, Uploads
  <2>5. CASE n # m
    <3>1. \A j \in Job : Home[j] # m => job'[j] = job[j]
      BY <1>1, <2>1, <2>2
    <3> QED BY <1>15, <1>18, <2>3, <2>5, <3>1 DEF Claims
  <2> QED BY <2>4, <2>5
\* A job goes from one place to the next, its row as it was.
<1>19. ASSUME NEW m \in Machine, NEW next, Goto(m, next), UNCHANGED job,
              Suits(m, next, Mine(m), job[Mine(m)].status, Rev(m))
       PROVE  S(n)'
  <2>1. writer' = [writer EXCEPT ![m] = [writer[m] EXCEPT !.pc = next]]
    BY <1>19 DEF Goto
  <2>2. [writer[m] EXCEPT !.pc = next].pc = next /\ [writer[m] EXCEPT !.pc = next].job = Mine(m)
    BY <1>1 DEF Mine
  <2> QED BY <1>16, <1>19, <2>1, <2>2 DEF Rev
<1>20. ASSUME NEW m \in Machine, NEW next \in Place, Walks(m, next) PROVE S(n)'
  <2>1. S(m) /\ Passes(m, next)
    BY <1>3, <1>20 DEF Walks
  <2>2. Suits(m, next, Mine(m), job[Mine(m)].status, Rev(m))
    BY <2>1 DEF Passes, Works, Suits, Uploads
  <2> QED BY <1>19, <1>20, <2>2 DEF Walks
<1>21. ASSUME NEW m \in Machine, Reads(m) PROVE S(n)'
  <2>1. PICK next \in {"embed", "failed"}, current \in BOOLEAN :
           writer' = [writer EXCEPT ![m].pc = next, ![m].current = current]
    BY <1>21 DEF Reads
  <2> DEFINE w == [writer[m] EXCEPT !.pc = next, !.current = current]
  <2>2. writer' = [writer EXCEPT ![m] = w] /\ w.pc = next /\ w.job = Mine(m)
    BY <1>1, <2>1 DEF Mine
  <2>3. S(m) /\ writer[m].pc = "read"
    BY <1>3, <1>21 DEF Reads, Works
  <2> HIDE DEF w
  <2>4. Suits(m, w.pc, w.job, job[w.job].status, job[w.job].rev)
    BY <2>2, <2>3 DEF Suits, Uploads, Rev
  <2> QED BY <1>16, <1>21, <2>2, <2>4 DEF Reads
<1>22. ASSUME NEW m \in Machine, NEW r \in Revision, Draws(m, r) PROVE S(n)'
  <2>1. S(m) /\ writer[m].pc = "resolve" /\ r # 0
    BY <1>2, <1>3, <1>22 DEF Draws, Works
  <2>2. Mine(m) \in Job /\ Home[Mine(m)] = m /\ Mine(m) \in Remote
        /\ job[Mine(m)].status \in {"running", "cancelling"}
    BY <2>1 DEF Suits
  <2>3. job' = [job EXCEPT ![Mine(m)].rev = r]
    BY <1>22 DEF Draws
  <2>4. writer' = [writer EXCEPT ![m] = [writer[m] EXCEPT !.pc = "read"]]
    BY <1>22 DEF Draws, Goto
  <2>5. CASE n = m
    <3>1. writer'[n].pc = "read" /\ writer'[n].job = Mine(m)
      BY <1>1, <2>4, <2>5 DEF Mine
    <3>2. job'[Mine(m)].status \in {"running", "cancelling"} /\ job'[Mine(m)].rev = r
      BY <1>1, <2>2, <2>3
    <3> QED BY <2>1, <2>2, <2>5, <3>1, <3>2 DEF Suits, Mine, Rev
  <2>6. CASE n # m
    <3>1. \A j \in Job : Home[j] # m => job'[j] = job[j]
      BY <1>1, <2>2, <2>3
    <3> QED BY <1>15, <2>1, <2>4, <2>6, <3>1
  <2> QED BY <2>5, <2>6
<1>23. ASSUME NEW m \in Machine, Stages(m) \/ Shows(m) \/ Hides(m) \/ Purges(m) \/ Withdraws(m)
       PROVE  S(n)'
  <2>1. PICK next \in {"check", "verify", "purge", "succeeded", "failed"} : Goto(m, next)
    BY <1>23 DEF Stages, Shows, Hides, Purges, Withdraws
  <2>2. S(m) /\ writer[m].pc \in {"stage", "activate", "hide", "purge", "retire"} /\ UNCHANGED job
    BY <1>3, <1>23 DEF Stages, Shows, Hides, Purges, Withdraws, Works
  <2>3. Suits(m, next, Mine(m), job[Mine(m)].status, Rev(m))
    BY <2>1, <2>2 DEF Suits, Uploads
  <2> QED BY <1>19, <2>1, <2>2, <2>3
<1> QED
  BY <1>8, <1>9, <1>10, <1>12, <1>13, <1>14, <1>17, <1>18, <1>20, <1>21, <1>22, <1>23 DEF OneStep, JobStep

LEMMA RevStep ==
    ASSUME KnowInv, OneStep PROVE RevInv'
<1>1. /\ job \in [Job -> [status : Status, rev : 0 .. MaxRevision]] /\ RevInv
      /\ \A m \in Machine : writer[m].pc = "resolve" => Mine(m) \in Job /\ Mine(m) \in Remote
  BY DEF KnowInv, KnowTypes, WorkInv
<1>2. ASSUME \A j \in Job : job'[j].rev = job[j].rev PROVE RevInv'
  BY <1>1, <1>2 DEF RevInv
<1>3. ASSUME NEW j \in Job, NEW to \in Status, Gesture(j, to) PROVE RevInv'
  BY <1>1, <1>2, <1>3 DEF Gesture, SetStatus
<1>4. ASSUME NEW j \in Job, Starts(j) PROVE RevInv'
  <2> DEFINE rows == Recovered(Home[j], "failed")
             Row == [status : Status, rev : 0 .. MaxRevision]
  <2>1. rows \in [Job -> Row] /\ \A k \in Job : rows[k].rev = job[k].rev
    BY <1>1 DEF Recovered, Status
  <2>2. job' = [rows EXCEPT ![j].status = "queued"]
    BY <1>4 DEF Starts
  <2> HIDE DEF rows
  <2>3. \A k \in Job : job'[k].rev = rows[k].rev
    BY <2>1, <2>2
  <2> QED BY <1>2, <2>1, <2>3
<1>5. ASSUME NEW m \in Machine, Settles(m) PROVE RevInv'
  <2>1. \A interrupted \in {"queued", "failed"}, k \in Job : Recovered(m, interrupted)[k].rev = job[k].rev
    BY <1>1 DEF Recovered
  <2> QED BY <1>2, <1>5, <2>1 DEF Settles
<1>6. ASSUME NEW m \in Machine, NEW end \in Status, Closes(m, end) PROVE RevInv'
  BY <1>1, <1>2, <1>6 DEF Closes, SetStatus
<1>7. ASSUME NEW m \in Machine, Claims(m) PROVE RevInv'
  BY <1>1, <1>2, <1>7 DEF Claims, SetStatus
<1>8. ASSUME NEW m \in Machine, NEW r \in Revision, Draws(m, r) PROVE RevInv'
  <2>1. Mine(m) \in Job /\ Mine(m) \in Remote /\ \A j \in Job : job[j].rev # r
    BY <1>1, <1>8 DEF Draws, Works
  <2>2. \A j \in Job : job'[j].rev = IF j = Mine(m) THEN r ELSE job[j].rev
    BY <1>1, <1>8 DEF Draws
  <2> QED BY <1>1, <2>1, <2>2 DEF RevInv
<1>9. ASSUME UNCHANGED job PROVE RevInv'
  BY <1>2, <1>9
<1> QED
  BY <1>3, <1>4, <1>5, <1>6, <1>7, <1>8, <1>9
     DEF OneStep, JobStep, Quiet, Drops, Takes, Walks, Reads, Stages, Shows, Hides, Purges, Withdraws

\* Of every step, what it means for the points.
LEMMA PointStep ==
    ASSUME KnowInv, OneStep
    PROVE  \/ Aside
           \/ \E m \in Machine, next \in Place, current \in BOOLEAN :
                 Moves(m, next, current) /\ Does(m, next, current)
<1> DEFINE Row == [status : Status, rev : 0 .. MaxRevision]
           Goal == \E m \in Machine, next \in Place, current \in BOOLEAN :
                      Moves(m, next, current) /\ Does(m, next, current)
<1>1. /\ job \in [Job -> Row]
      /\ writer \in [Machine -> [by : {"none", "app", "cli"}, job : Job \cup {NoJob},
                                 pc : Place, current : BOOLEAN]]
  BY DEF KnowInv, KnowTypes
<1>2. \A m \in Machine : writer[m].pc # "idle" => Mine(m) \in Job /\ Home[Mine(m)] = m
  BY DEF KnowInv, WorkInv
<1> HIDE DEF Row
<1>3. CASE Quiet
  BY <1>3 DEF Quiet, Aside
<1>4. ASSUME NEW j \in Job, NEW to \in Status, Gesture(j, to) PROVE Aside
  <2>1. to # "completed" /\ job' = [job EXCEPT ![j].status = to] /\ UNCHANGED <<writer, cloud>>
    BY <1>4 DEF Gesture, SetStatus
  <2> QED BY <1>1, <2>1 DEF Aside, Row
<1>5. ASSUME NEW m, NEW st \in {"queued", "failed"}
      PROVE  /\ Recovered(m, st) \in [Job -> Row]
             /\ \A j \in Job : /\ Recovered(m, st)[j].rev = job[j].rev
                               /\ Recovered(m, st)[j].status = "completed" => job[j].status = "completed"
  BY <1>1, <1>5 DEF Recovered, Status, Row
<1>6. ASSUME NEW j \in Job, Starts(j) PROVE Aside
  <2> DEFINE rows == Recovered(Home[j], "failed")
  <2>1. rows \in [Job -> Row] /\ \A k \in Job : rows[k].rev = job[k].rev /\ (rows[k].status = "completed" => job[k].status = "completed")
    BY <1>5
  <2>2. job' = [rows EXCEPT ![j].status = "queued"]
    BY <1>6 DEF Starts
  <2> HIDE DEF rows
  <2>3. \A k \in Job : job'[k].rev = job[k].rev /\ (job'[k].status = "completed" => job[k].status = "completed")
    BY <2>1, <2>2 DEF Row
  <2>4. Home[j] \in Machine
    BY KnowledgeAssumption
  <2>5. \A n \in Machine : writer'[n] = writer[n] \/ writer'[n].pc = "claim"
    BY <1>1, <1>6, <2>4 DEF Starts
  <2> QED BY <1>6, <2>3, <2>5 DEF Starts, Aside
<1>7. ASSUME NEW m \in Machine, Drops(m) PROVE Aside
  <2>1. \A n \in Machine : writer'[n] = writer[n] \/ writer'[n].pc = "idle"
    BY <1>1, <1>7 DEF Drops, Idle
  <2> QED BY <1>7, <2>1 DEF Drops, Aside
<1>8. ASSUME NEW m \in Machine, Settles(m) PROVE Aside
  <2>1. \A n \in Machine : writer'[n] = writer[n] \/ writer'[n].pc = "idle"
    BY <1>1, <1>8 DEF Settles
  <2> QED BY <1>5, <1>8, <2>1 DEF Settles, Aside
<1>9. ASSUME NEW m \in Machine, NEW j \in Job, Takes(m, j) PROVE Aside
  <2>1. \A n \in Machine : writer'[n] = writer[n] \/ writer'[n].pc = "claim"
    BY <1>1, <1>9 DEF Takes
  <2> QED BY <1>9, <2>1 DEF Takes, Aside
<1>10. ASSUME NEW m \in Machine, Claims(m) PROVE Aside
  <2>1. \A n \in Machine : writer'[n] = writer[n] \/ writer'[n].pc = "begin"
    BY <1>1, <1>10 DEF Claims, Goto
  <2>2. job' = [job EXCEPT ![Mine(m)].status = "running"]
    BY <1>10 DEF Claims, SetStatus
  <2> QED BY <1>1, <1>10, <2>1, <2>2 DEF Claims, Aside, Row
<1>11. ASSUME NEW m \in Machine, NEW end \in Status, Closes(m, end) PROVE Aside
  <2>1. \A n \in Machine : writer'[n] = writer[n] \/ writer'[n].pc = "idle"
    BY <1>1, <1>11 DEF Closes, Idle
  <2>2. job' = [job EXCEPT ![Mine(m)].status = end] /\ (end = "completed" => writer[m].pc = "succeeded")
    BY <1>11 DEF Closes, SetStatus
  <2>3. UNCHANGED cloud
    BY <1>11 DEF Closes
  <2> QED BY <1>1, <2>1, <2>2, <2>3 DEF Aside, Row
<1>12. ASSUME NEW m \in Machine, NEW next \in Place, NEW current \in BOOLEAN,
              writer[m].pc \notin {"idle", "claim"},
              writer' = [writer EXCEPT ![m].pc = next, ![m].current = current],
              job' \in [Job -> Row],
              \A j \in Job : job'[j].status = job[j].status /\ (j # Mine(m) => job'[j] = job[j]),
              job[Mine(m)].status = "completed" => UNCHANGED job
       PROVE  Moves(m, next, current)
  <2>1. writer'[m].pc = next /\ writer'[m].current = current /\ writer'[m].job = writer[m].job
    BY <1>1, <1>12
  <2>2. \A n \in Machine \ {m} : writer'[n] = writer[n]
    BY <1>1, <1>12
  <2>3. \A n \in Machine \ {m} : writer[n].pc # "idle" => Mine(n) # Mine(m) /\ Rev(n)' = Rev(n)
    <3> TAKE n \in Machine \ {m}
    <3> HAVE writer[n].pc # "idle"
    <3>1. Mine(n) \in Job /\ Mine(n) # Mine(m)
      BY <1>2, <1>12
    <3>2. job'[Mine(n)] = job[Mine(n)] /\ Mine(n)' = Mine(n)
      BY <1>12, <2>2, <3>1 DEF Mine
    <3> QED BY <3>1, <3>2 DEF Rev
  <2>4. \A j \in Job : job'[j].status = "completed" =>
          job[j].status = "completed" /\ job'[j].rev = job[j].rev
    BY <1>12
  <2>5. Mine(m)' = Mine(m) /\ Mine(m) \in Job
    BY <1>2, <1>12, <2>1 DEF Mine
  <2> QED BY <1>12, <2>1, <2>2, <2>3, <2>4, <2>5 DEF Moves
<1>13. ASSUME NEW m \in Machine, NEW next \in Place, Goto(m, next), UNCHANGED job,
              writer[m].pc \notin {"idle", "claim"}
       PROVE  Moves(m, next, writer[m].current) /\ Rev(m)' = Rev(m) /\ writer[m].current \in BOOLEAN
  <2>1. writer' = [writer EXCEPT ![m].pc = next, ![m].current = writer[m].current]
    <3> DEFINE Post == [by : {"none", "app", "cli"}, job : Job \cup {NoJob}, pc : Place, current : BOOLEAN]
    <3>1. writer[m] \in Post
      BY <1>1
    <3>2. [writer[m] EXCEPT !.pc = next] = [writer[m] EXCEPT !.pc = next, !.current = writer[m].current]
      BY <3>1
    <3>3. writer' = [writer EXCEPT ![m] = [writer[m] EXCEPT !.pc = next]]
      BY <1>13 DEF Goto
    <3> QED BY <1>1, <3>2, <3>3
  <2>2. writer[m].current \in BOOLEAN
    BY <1>1
  <2>3. Moves(m, next, writer[m].current)
    BY <1>1, <1>12, <1>13, <2>1, <2>2
  <2> QED BY <1>13, <2>2, <2>3 DEF Moves, Rev
<1>14. ASSUME NEW m \in Machine, NEW next \in Place, Walks(m, next) PROVE Goal
  <2>1. Moves(m, next, writer[m].current) /\ Rev(m)' = Rev(m) /\ writer[m].current \in BOOLEAN
    BY <1>13, <1>14 DEF Walks, Passes, Works
  <2>2. Does(m, next, writer[m].current)
    BY <1>14, <2>1 DEF Walks, Does
  <2> QED BY <2>1, <2>2
<1>15. ASSUME NEW m \in Machine, Reads(m) PROVE Goal
  <2>1. PICK next \in {"embed", "failed"}, current \in BOOLEAN :
           /\ next = "embed" => (current <=> cloud[Rev(m)] = "active")
           /\ writer' = [writer EXCEPT ![m].pc = next, ![m].current = current]
    BY <1>15 DEF Reads
  <2>2. writer[m].pc = "read" /\ UNCHANGED <<job, cloud>> /\ next \in Place
    BY <1>15 DEF Reads, Works, Place
  <2>3. Moves(m, next, current)
    BY <1>1, <1>12, <2>1, <2>2
  <2>4. Does(m, next, current)
    BY <2>1, <2>2, <2>3 DEF Does, Works, Moves, Rev
  <2> QED BY <2>2, <2>3, <2>4
<1>16. ASSUME NEW m \in Machine, NEW r \in Revision, Draws(m, r) PROVE Goal
  <2>1. writer[m].pc = "resolve" /\ Mine(m) \in Job /\ job[Mine(m)].status \in {"running", "cancelling"}
    BY <1>16 DEF Draws, Works, KnowInv, WorkInv
  <2>2. job' = [job EXCEPT ![Mine(m)].rev = r] /\ r \in 0 .. MaxRevision
    BY <1>16, KnowledgeAssumption DEF Draws, Revision
  <2>3. /\ job' \in [Job -> Row]
        /\ \A j \in Job : job'[j].status = job[j].status /\ (j # Mine(m) => job'[j] = job[j])
    BY <1>1, <2>1, <2>2 DEF Row
  <2>4. Goto(m, "read") /\ UNCHANGED cloud /\ "read" \in Place
    BY <1>16 DEF Draws, Place
  <2> DEFINE current == writer[m].current
  <2>5. writer' = [writer EXCEPT ![m].pc = "read", ![m].current = current]
    <3> DEFINE Post == [by : {"none", "app", "cli"}, job : Job \cup {NoJob}, pc : Place, current : BOOLEAN]
    <3>1. writer[m] \in Post
      BY <1>1
    <3>2. [writer[m] EXCEPT !.pc = "read"] = [writer[m] EXCEPT !.pc = "read", !.current = writer[m].current]
      BY <3>1
    <3>3. writer' = [writer EXCEPT ![m] = [writer[m] EXCEPT !.pc = "read"]]
      BY <2>4 DEF Goto
    <3> QED BY <1>1, <3>2, <3>3
  <2>6. current \in BOOLEAN
    BY <1>1
  <2> HIDE DEF current
  <2>7. Moves(m, "read", current)
    BY <1>12, <2>1, <2>3, <2>4, <2>5, <2>6
  <2>8. Does(m, "read", current)
    BY <2>1, <2>4 DEF Does, Works
  <2> QED BY <2>4, <2>6, <2>7, <2>8
<1>17. ASSUME NEW m \in Machine, Stages(m) \/ Shows(m) \/ Hides(m) \/ Purges(m) \/ Withdraws(m)
       PROVE  Goal
  <2>1. writer[m].pc \notin {"idle", "claim"} /\ UNCHANGED job
    BY <1>17 DEF Stages, Shows, Hides, Purges, Withdraws, Works
  <2>2. ASSUME NEW next \in Place, Goto(m, next)
        PROVE  Moves(m, next, writer[m].current) /\ Rev(m)' = Rev(m) /\ writer[m].current \in BOOLEAN
    BY <1>13, <2>1, <2>2
  <2>3. ASSUME NEW next \in Place, Goto(m, next), Does(m, next, writer[m].current) PROVE Goal
    BY <2>2, <2>3
  <2>4. CASE Stages(m)
    <3>1. PICK next \in {"check", "failed"} : Goto(m, next)
      BY <2>4 DEF Stages
    <3>2. next \in Place
      BY DEF Place
    <3>3. Does(m, next, writer[m].current)
      BY <2>2, <2>4, <3>1, <3>2 DEF Stages, Does
    <3> QED BY <2>3, <3>1, <3>2, <3>3
  <2>5. CASE Shows(m)
    <3>1. PICK next \in {"verify", "failed"} : Goto(m, next)
      BY <2>5 DEF Shows
    <3>2. next \in Place
      BY DEF Place
    <3>3. Does(m, next, writer[m].current)
      BY <2>2, <2>5, <3>1, <3>2 DEF Shows, Does
    <3> QED BY <2>3, <3>1, <3>2, <3>3
  <2>6. CASE Hides(m)
    <3>1. PICK next \in {"purge", "failed"} : Goto(m, next)
      BY <2>6 DEF Hides
    <3>2. next \in Place
      BY DEF Place
    <3>3. Does(m, next, writer[m].current)
      BY <2>2, <2>6, <3>1, <3>2 DEF Hides, Does
    <3> QED BY <2>3, <3>1, <3>2, <3>3
  <2>7. CASE Purges(m)
    <3>1. PICK next \in {"succeeded", "failed"} : Goto(m, next)
      BY <2>7 DEF Purges
    <3>2. next \in Place
      BY DEF Place
    <3>3. Does(m, next, writer[m].current)
      BY <2>2, <2>7, <3>1, <3>2 DEF Purges, Does
    <3> QED BY <2>3, <3>1, <3>2, <3>3
  <2>8. CASE Withdraws(m)
    <3>1. Goto(m, "failed") /\ "failed" \in Place
      BY <2>8 DEF Withdraws, Place
    <3>2. Does(m, "failed", writer[m].current)
      BY <2>2, <2>8, <3>1 DEF Withdraws, Does
    <3> QED BY <2>3, <3>1, <3>2
  <2> QED BY <1>17, <2>4, <2>5, <2>6, <2>7, <2>8
<1> QED
  BY <1>3, <1>4, <1>6, <1>7, <1>8, <1>9, <1>10, <1>11, <1>14, <1>15, <1>16, <1>17 DEF OneStep, JobStep

\* Facts of a state in which the job of m can change points.
LEMMA Workers ==
    ASSUME KnowInv
    PROVE  /\ MaxRevision \in Nat /\ Revision = 1 .. MaxRevision
           /\ \A r \in Revision : cloud[r] \in {"absent", "staging", "active"}
           /\ \A m \in Machine : Mine(m) \in Job => Rev(m) \in 0 .. MaxRevision
           /\ \A m \in Machine : writer[m].pc # "idle" => Mine(m) \in Job
           /\ \A m \in Machine : writer[m].pc \in Uploads => Mine(m) \in Remote /\ Rev(m) \in Revision
           /\ \A m \in Machine : writer[m].pc \in {"embed", "succeeded"} /\ Mine(m) \in Remote =>
                 Rev(m) \in Revision
           /\ \A m, n \in Machine :
                 Mine(m) \in Job /\ Mine(n) \in Job /\ Mine(m) # Mine(n) /\ Rev(m) # 0 => Rev(n) # Rev(m)
<1>1. MaxRevision \in Nat /\ Revision = 1 .. MaxRevision
  BY KnowledgeAssumption DEF Revision
<1>2. /\ job \in [Job -> [status : Status, rev : 0 .. MaxRevision]]
      /\ \A r \in Revision : cloud[r] \in {"absent", "staging", "active"}
  BY DEF KnowInv, KnowTypes
<1>3. WorkInv /\ RevInv
  BY DEF KnowInv
<1>4. \A m \in Machine : writer[m].pc \in Uploads => writer[m].pc # "idle"
  BY DEF Uploads
<1>5. \A m \in Machine : Mine(m) \in Job => Rev(m) \in 0 .. MaxRevision
  BY <1>2 DEF Rev
<1>6. \A m \in Machine : writer[m].pc # "idle" => Mine(m) \in Job
  BY <1>3 DEF WorkInv
<1>7. \A m \in Machine : writer[m].pc \in Uploads => Mine(m) \in Remote /\ Rev(m) \in Revision
  BY <1>1, <1>3, <1>4, <1>5, <1>6 DEF WorkInv
<1>8. \A m \in Machine : writer[m].pc \in {"embed", "succeeded"} /\ Mine(m) \in Remote => Rev(m) \in Revision
  BY <1>1, <1>3, <1>5, <1>6 DEF WorkInv
<1>9. \A m, n \in Machine :
         Mine(m) \in Job /\ Mine(n) \in Job /\ Mine(m) # Mine(n) /\ Rev(m) # 0 => Rev(n) # Rev(m)
  BY <1>3 DEF RevInv, Rev
<1> QED BY <1>1, <1>2, <1>5, <1>6, <1>7, <1>8, <1>9

\* What can be found is only ever replaced by something newer.
LEMMA TopStays ==
    ASSUME KnowInv, OneStep
    PROVE  /\ \A x \in Nat : Headed(x) => Headed(x)'
           /\ \A x \in Nat : Passed(x) => Passed(x)'
<1>1. SUFFICES \A r \in Revision : cloud[r] = "active" =>
                  \E top \in Revision : cloud'[top] = "active" /\ r <= top
  BY <1>1, KnowledgeAssumption DEF Headed, Passed, Revision
<1>2. CASE Aside
  BY <1>2, KnowledgeAssumption DEF Aside, Revision
<1>3. ASSUME NEW m \in Machine, NEW next \in Place, NEW current \in BOOLEAN,
             Moves(m, next, current), Does(m, next, current)
      PROVE  \A r \in Revision : cloud[r] = "active" =>
                \E top \in Revision : cloud'[top] = "active" /\ r <= top
  <2> SUFFICES ASSUME NEW r \in Revision, cloud[r] = "active"
               PROVE  \E top \in Revision : cloud'[top] = "active" /\ r <= top
    OBVIOUS
  <2>1. MaxRevision \in Nat /\ Revision = 1 .. MaxRevision /\ r <= r
    BY KnowledgeAssumption DEF Revision
  <2>2. writer[m].pc \in Uploads => Rev(m) \in Revision
    BY Workers
  <2>3. CASE UNCHANGED cloud
    BY <2>1, <2>3
  <2>4. CASE Works(m, "stage") /\ cloud' = [s \in Revision |-> IF s = Rev(m) THEN "staging" ELSE cloud[s]]
    <3>1. r # Rev(m)
      BY <2>4 DEF KnowInv, OwnInv, Works
    <3> QED BY <2>1, <2>4, <3>1
  <2>5. CASE cloud' = [s \in Revision |-> IF s = Rev(m) /\ cloud[s] = "staging" THEN "active" ELSE cloud[s]]
    BY <2>1, <2>5
  <2>6. CASE \/ Works(m, "hide")
                /\ cloud' = [s \in Revision |-> IF s < Rev(m) /\ cloud[s] = "active" THEN "staging" ELSE cloud[s]]
             \/ Works(m, "purge") /\ cloud' = [s \in Revision |-> IF s < Rev(m) THEN "absent" ELSE cloud[s]]
    <3>1. Rev(m) \in Revision /\ Headed(Rev(m))
      BY <2>2, <2>6 DEF KnowInv, HeadInv, Works, Uploads
    <3>2. PICK top \in Revision : cloud[top] = "active" /\ Rev(m) <= top
      BY <3>1 DEF Headed
    <3>3. cloud'[top] = "active"
      BY <2>1, <2>6, <3>1, <3>2
    <3>4. CASE r <= top
      BY <3>3, <3>4
    <3>5. CASE top < r
      <4>1. cloud'[r] = "active"
        BY <2>1, <2>6, <3>1, <3>2, <3>5
      <4> QED BY <2>1, <4>1
    <3> QED BY <2>1, <3>4, <3>5
  <2>7. CASE /\ Works(m, "retire")
             /\ \E s \in {"absent", "staging"} :
                   cloud' = [q \in Revision |-> IF q = Rev(m) THEN s ELSE cloud[q]]
    <3>1. Rev(m) \in Revision /\ Passed(Rev(m))
      BY <2>2, <2>7 DEF KnowInv, HeadInv, Works, Uploads
    <3>2. PICK top \in Revision : cloud[top] = "active" /\ Rev(m) < top
      BY <3>1 DEF Passed
    <3>3. cloud'[top] = "active"
      BY <2>1, <2>7, <3>1, <3>2
    <3>4. CASE r = Rev(m)
      BY <2>1, <3>1, <3>2, <3>3, <3>4
    <3>5. CASE r # Rev(m)
      <4>1. cloud'[r] = "active"
        BY <2>7, <3>5
      <4> QED BY <2>1, <4>1
    <3> QED BY <3>4, <3>5
  <2> QED BY <1>3, <2>3, <2>4, <2>5, <2>6, <2>7 DEF Does
<1> QED BY <1>2, <1>3, PointStep

LEMMA OwnStep ==
    ASSUME KnowInv, OneStep PROVE OwnInv'
<1> DEFINE P(n) ==
      /\ writer[n].pc \in {"stage", "confirm", "activate"} => ~writer[n].current
      /\ \/ writer[n].pc \in {"stage", "confirm"}
         \/ writer[n].pc \in {"embed", "check"} /\ Mine(n) \in Remote /\ ~writer[n].current
         => cloud[Rev(n)] # "active"
<1>1. \A n \in Machine : P(n)
  BY DEF KnowInv, OwnInv
<1>2. SUFFICES ASSUME NEW n \in Machine PROVE P(n)'
  BY <1>2 DEF OwnInv
<1>3. CASE Aside
  <2>1. CASE writer'[n] = writer[n] /\ writer[n].pc # "idle"
    <3>1. Mine(n) \in Job
      BY <2>1, Workers
    <3>2. Rev(n)' = Rev(n) /\ Mine(n)' = Mine(n) /\ cloud' = cloud
      BY <1>3, <2>1, <3>1 DEF Aside, Rev, Mine
    <3> QED BY <1>1, <2>1, <3>2
  <2>2. CASE writer'[n].pc \in {"idle", "claim", "begin"}
    BY <2>2
  <2> QED BY <1>3, <2>1, <2>2 DEF Aside
<1>4. ASSUME NEW m \in Machine, NEW next \in Place, NEW current \in BOOLEAN,
             Moves(m, next, current), Does(m, next, current)
      PROVE  P(n)'
  <2>1. CASE n # m
    <3>1. CASE \/ writer[n].pc \in {"stage", "confirm"}
               \/ writer[n].pc \in {"embed", "check"} /\ Mine(n) \in Remote
      <4>1. /\ Rev(n) \in Revision /\ Mine(n) \in Job /\ Mine(n) # Mine(m) /\ Mine(m) \in Job
            /\ writer'[n] = writer[n] /\ Rev(n)' = Rev(n) /\ Mine(n)' = Mine(n)
        BY <1>4, <2>1, <3>1, Workers DEF Moves, Uploads, Mine
      <4>2. Rev(n) # Rev(m)
        BY <4>1, Workers
      <4>3. cloud[Rev(n)] # "active" => cloud'[Rev(n)] # "active"
        BY <1>4, <4>1, <4>2 DEF Does
      <4> QED BY <1>1, <4>1, <4>3
    <3>2. CASE /\ writer[n].pc \notin {"stage", "confirm"}
               /\ ~(writer[n].pc \in {"embed", "check"} /\ Mine(n) \in Remote)
      <4>1. writer'[n] = writer[n] /\ Mine(n)' = Mine(n)
        BY <1>4, <2>1 DEF Moves, Mine
      <4> QED BY <1>1, <3>2, <4>1
    <3> QED BY <3>1, <3>2
  <2>2. CASE n = m
    <3>1. /\ writer'[n].pc = next /\ writer'[n].current = current /\ Mine(n)' = Mine(n)
          /\ writer[n].pc \in Uploads => Mine(n) \in Remote /\ Rev(n) \in Revision
      BY <1>4, <2>2, Workers DEF Moves
    <3>2. CASE Passes(m, next) /\ current = writer[m].current /\ Rev(m)' = Rev(m) /\ UNCHANGED cloud
      BY <1>1, <2>2, <3>1, <3>2 DEF Passes, Works, Uploads
    <3>3. CASE /\ Works(m, "read") /\ next \in {"embed", "failed"} /\ Rev(m)' = Rev(m) /\ UNCHANGED cloud
               /\ next = "embed" => (current <=> cloud[Rev(m)] = "active")
      BY <2>2, <3>1, <3>3
    <3>4. CASE next = "read"
      BY <3>1, <3>4
    <3>5. CASE /\ Works(m, "stage") /\ current = writer[m].current /\ Rev(m)' = Rev(m)
               /\ cloud' = [r \in Revision |-> IF r = Rev(m) THEN "staging" ELSE cloud[r]]
               /\ next \in {"check", "failed"}
      <4>1. Rev(m) \in Revision
        BY <2>2, <3>1, <3>5 DEF Works, Uploads
      <4>2. cloud'[Rev(m)] = "staging"
        BY <3>5, <4>1
      <4> QED BY <2>2, <3>1, <3>5, <4>2
    <3>6. CASE next \in {"verify", "purge", "succeeded", "failed"}
      BY <3>1, <3>6
    <3> QED BY <1>4, <3>2, <3>3, <3>4, <3>5, <3>6 DEF Does
  <2> QED BY <2>1, <2>2
<1> QED BY <1>3, <1>4, PointStep

LEMMA StagedStep ==
    ASSUME KnowInv, OneStep PROVE StagedInv'
<1> DEFINE P(n) ==
      writer[n].pc \in {"check", "confirm", "activate"} /\ ~writer[n].current
          => cloud[Rev(n)] = "staging" \/ Passed(Rev(n))
<1>1. \A n \in Machine : P(n)
  BY DEF KnowInv, StagedInv
<1>2. SUFFICES ASSUME NEW n \in Machine PROVE P(n)'
  BY <1>2 DEF StagedInv
<1>3. ASSUME NEW x \in Nat, Passed(x) PROVE Passed(x)'
  BY <1>3, TopStays
<1>4. MaxRevision \in Nat /\ Revision = 1 .. MaxRevision
  BY Workers
<1>5. CASE Aside
  <2>1. CASE writer'[n] = writer[n] /\ writer[n].pc # "idle"
    <3>1. Mine(n) \in Job
      BY <2>1, Workers
    <3>2. Rev(n)' = Rev(n) /\ cloud' = cloud
      BY <1>5, <2>1, <3>1 DEF Aside, Rev, Mine
    <3> QED BY <1>1, <2>1, <3>2 DEF Passed
  <2>2. CASE writer'[n].pc \in {"idle", "claim", "begin"}
    BY <2>2
  <2> QED BY <1>5, <2>1, <2>2 DEF Aside
<1>6. ASSUME NEW m \in Machine, NEW next \in Place, NEW current \in BOOLEAN,
             Moves(m, next, current), Does(m, next, current)
      PROVE  P(n)'
  <2>1. CASE n # m /\ writer[n].pc \in {"check", "confirm", "activate"} /\ ~writer[n].current
    <3>1. /\ Rev(n) \in Revision /\ Mine(n) \in Job /\ Mine(n) # Mine(m) /\ Mine(m) \in Job
          /\ Rev(n)' = Rev(n)
      BY <1>6, <2>1, Workers DEF Moves, Uploads
    <3>2. Rev(n) # Rev(m) /\ Rev(n) \in Nat
      BY <1>4, <3>1, Workers
    <3>3. CASE Passed(Rev(n))
      <4>1. ASSUME NEW x \in Nat, x = Rev(n) PROVE Passed(x)'
        BY <1>3, <3>3, <4>1
      <4>2. Passed(Rev(n))'
        BY <3>1, <3>2, <4>1 DEF Passed
      <4> QED BY <4>2
    <3>4. CASE cloud[Rev(n)] = "staging" /\ cloud'[Rev(n)] = "staging"
      BY <3>1, <3>4
    <3>5. CASE cloud[Rev(n)] = "staging" /\ cloud'[Rev(n)] # "staging"
      <4>1. /\ Works(m, "purge") /\ Rev(n) < Rev(m)
            /\ cloud' = [r \in Revision |-> IF r < Rev(m) THEN "absent" ELSE cloud[r]]
        BY <1>6, <3>1, <3>2, <3>5 DEF Does
      <4>2. Headed(Rev(m)) /\ Rev(m) \in Revision
        BY <4>1, Workers DEF KnowInv, HeadInv, Works, Uploads
      <4>3. PICK top \in Revision : cloud[top] = "active" /\ Rev(m) <= top
        BY <4>2 DEF Headed
      <4>4. cloud'[top] = "active" /\ Rev(n) < top
        BY <1>4, <3>1, <4>1, <4>2, <4>3
      <4> QED BY <3>1, <4>4 DEF Passed
    <3> QED BY <1>1, <2>1, <3>3, <3>4, <3>5
  <2>2. CASE n # m /\ ~(writer[n].pc \in {"check", "confirm", "activate"} /\ ~writer[n].current)
    BY <1>6, <2>2 DEF Moves
  <2>3. CASE n = m
    <3>1. writer'[n].pc = next /\ writer'[n].current = current
      BY <1>6, <2>3 DEF Moves
    <3>2. CASE Passes(m, next) /\ current = writer[m].current /\ Rev(m)' = Rev(m) /\ UNCHANGED cloud
      BY <1>1, <2>3, <3>1, <3>2 DEF Passes, Works, Passed
    <3>3. CASE /\ Works(m, "stage") /\ Rev(m)' = Rev(m)
               /\ cloud' = [r \in Revision |-> IF r = Rev(m) THEN "staging" ELSE cloud[r]]
      <4>1. Rev(m) \in Revision
        BY <3>3, Workers DEF Works, Uploads
      <4> QED BY <2>3, <3>3, <4>1
    <3>4. CASE next \notin {"check", "confirm", "activate"}
      BY <3>1, <3>4
    <3> QED BY <1>6, <3>2, <3>3, <3>4 DEF Does
  <2> QED BY <2>1, <2>2, <2>3
<1> QED BY <1>5, <1>6, PointStep

LEMMA HeadStep ==
    ASSUME KnowInv, OneStep PROVE HeadInv'
<1> DEFINE Needs(n) ==
             \/ writer[n].pc \in {"verify", "hide", "purge"}
             \/ writer[n].pc \in {"embed", "check"} /\ Mine(n) \in Remote /\ writer[n].current
           P(n) == (Needs(n) => Headed(Rev(n))) /\ (writer[n].pc = "retire" => Passed(Rev(n)))
<1>1. \A n \in Machine : P(n)
  BY DEF KnowInv, HeadInv
<1>2. SUFFICES ASSUME NEW n \in Machine PROVE P(n)'
  BY <1>2 DEF HeadInv
<1>3. MaxRevision \in Nat /\ Revision = 1 .. MaxRevision
  BY Workers
<1>4. ASSUME Rev(n)' = Rev(n), Rev(n) \in Nat
      PROVE  /\ Headed(Rev(n)) => Headed(Rev(n))'
             /\ Passed(Rev(n)) => Passed(Rev(n))'
  <2>1. ASSUME NEW x \in Nat, x = Rev(n)
        PROVE  (Headed(x) => Headed(x)') /\ (Passed(x) => Passed(x)')
    BY TopStays
  <2>2. PICK x \in Nat : x = Rev(n)
    BY <1>4
  <2>3. (Headed(x) => Headed(x)') /\ (Passed(x) => Passed(x)')
    BY <2>1, <2>2
  <2>4. x = Rev(n)'
    BY <1>4, <2>2
  <2> QED BY <2>2, <2>3, <2>4 DEF Headed, Passed
<1>5. ASSUME writer'[n] = writer[n], Rev(n)' = Rev(n) \/ ~(Needs(n) \/ writer[n].pc = "retire")
      PROVE  P(n)'
  <2>1. Mine(n)' = Mine(n)
    BY <1>5 DEF Mine
  <2>2. CASE Needs(n) \/ writer[n].pc = "retire"
    <3>1. Rev(n) \in Nat
      BY <1>3, <2>2, Workers DEF Uploads
    <3> QED BY <1>1, <1>4, <1>5, <2>1, <2>2, <3>1
  <2>3. CASE ~(Needs(n) \/ writer[n].pc = "retire")
    BY <1>5, <2>1, <2>3
  <2> QED BY <2>2, <2>3
<1>6. CASE Aside
  <2>1. CASE writer'[n] = writer[n]
    <3>1. writer[n].pc # "idle" => Mine(n) \in Job
      BY Workers
    <3>2. Mine(n) \in Job => Rev(n)' = Rev(n)
      BY <1>6, <2>1 DEF Aside, Rev, Mine
    <3> QED BY <1>5, <2>1, <3>1, <3>2
  <2>2. CASE writer'[n].pc \in {"idle", "claim", "begin"}
    BY <2>2
  <2> QED BY <1>6, <2>1, <2>2 DEF Aside
<1>7. ASSUME NEW m \in Machine, NEW next \in Place, NEW current \in BOOLEAN,
             Moves(m, next, current), Does(m, next, current)
      PROVE  P(n)'
  <2>1. CASE n # m
    BY <1>5, <1>7, <2>1 DEF Moves
  <2>2. CASE n = m
    <3>1. /\ writer'[n].pc = next /\ writer'[n].current = current /\ Mine(n)' = Mine(n)
          /\ writer[n].pc \in Uploads => Mine(n) \in Remote /\ Rev(n) \in Revision
          /\ writer[n].pc = "embed" /\ Mine(n) \in Remote => Rev(n) \in Revision
      BY <1>7, <2>2, Workers DEF Moves
    <3>2. CASE Passes(m, next) /\ current = writer[m].current /\ Rev(m)' = Rev(m) /\ UNCHANGED cloud
      <4>1. Needs(n)' => Needs(n)
        BY <2>2, <3>1, <3>2 DEF Passes, Works, Uploads
      <4>2. writer'[n].pc = "retire" => Passed(Rev(n))
        BY <2>2, <3>1, <3>2 DEF Passes
      <4> QED BY <1>1, <2>2, <3>2, <4>1, <4>2 DEF Headed, Passed
    <3>3. CASE /\ Works(m, "read") /\ next \in {"embed", "failed"} /\ Rev(m)' = Rev(m) /\ UNCHANGED cloud
               /\ next = "embed" => (current <=> cloud[Rev(m)] = "active")
      <4>1. Rev(m) \in Revision /\ Rev(m) <= Rev(m)
        BY <1>3, <2>2, <3>1, <3>3 DEF Works, Uploads
      <4>2. Needs(n)' => cloud'[Rev(n)'] = "active"
        BY <2>2, <3>1, <3>3
      <4>3. Needs(n)' => Headed(Rev(n))'
        BY <2>2, <3>3, <4>1, <4>2 DEF Headed
      <4> QED BY <2>2, <3>1, <3>3, <4>3
    <3>4. CASE /\ Works(m, "activate") /\ next \in {"verify", "failed"} /\ Rev(m)' = Rev(m)
               /\ cloud' = [r \in Revision |->
                              IF r = Rev(m) /\ cloud[r] = "staging" THEN "active" ELSE cloud[r]]
      <4>1. Rev(n) \in Revision /\ Rev(n) \in Nat /\ Rev(n) <= Rev(n)
        BY <1>3, <2>2, <3>1, <3>4 DEF Works, Uploads
      <4>2. cloud[Rev(n)] = "staging" \/ Passed(Rev(n))
        BY <2>2, <3>4 DEF KnowInv, OwnInv, StagedInv, Works
      <4>3. CASE cloud[Rev(n)] = "staging"
        <5>1. cloud'[Rev(n)] = "active"
          BY <2>2, <3>4, <4>1, <4>3
        <5>2. Headed(Rev(n))'
          BY <2>2, <3>4, <4>1, <5>1 DEF Headed
        <5> QED BY <3>1, <3>4, <5>2
      <4>4. CASE Passed(Rev(n))
        <5>1. Passed(Rev(n))'
          BY <1>4, <2>2, <3>4, <4>1, <4>4
        <5>2. Headed(Rev(n))'
          BY <1>3, <2>2, <3>4, <4>1, <5>1 DEF Headed, Passed
        <5> QED BY <3>1, <3>4, <5>2
      <4> QED BY <4>2, <4>3, <4>4
    <3>5. CASE Works(m, "hide") /\ next \in {"purge", "failed"} /\ Rev(m)' = Rev(m)
      <4>1. Rev(n) \in Nat /\ Headed(Rev(n))
        BY <1>1, <1>3, <2>2, <3>1, <3>5 DEF Works, Uploads
      <4>2. Headed(Rev(n))'
        BY <1>4, <2>2, <3>5, <4>1
      <4> QED BY <3>1, <3>5, <4>2
    <3>6. CASE next \in {"read", "failed", "succeeded"}
      BY <3>1, <3>6
    <3>7. CASE Works(m, "stage") /\ current = writer[m].current /\ next \in {"check", "failed"}
      <4>1. ~writer[m].current
        BY <3>7 DEF KnowInv, OwnInv, Works
      <4> QED BY <3>1, <3>7, <4>1
    <3> QED BY <1>7, <3>2, <3>3, <3>4, <3>5, <3>6, <3>7 DEF Does
  <2> QED BY <2>1, <2>2
<1> QED BY <1>6, <1>7, PointStep

\* Under a revision that is cleared nothing older comes back.
LEMMA ClearStays ==
    ASSUME KnowInv, OneStep, NEW x \in Nat, Clear(x)
    PROVE  Clear(x)'
<1>1. MaxRevision \in Nat /\ Revision = 1 .. MaxRevision
  BY Workers
<1>2. /\ Headed(x) /\ \A r \in Revision : r < x => cloud[r] # "active"
      /\ \A n \in Machine : writer[n].pc = "activate" /\ Rev(n) < x => cloud[Rev(n)] = "absent"
  BY DEF Clear
<1>3. Headed(x)'
  BY <1>2, TopStays
<1>4. \A n \in Machine : writer[n].pc = "activate" => Mine(n) \in Job /\ Rev(n) \in Revision
  BY Workers DEF Uploads
<1>5. CASE Aside
  <2>1. ASSUME NEW n \in Machine, writer'[n].pc = "activate" PROVE writer'[n] = writer[n] /\ Rev(n)' = Rev(n)
    BY <1>4, <1>5, <2>1 DEF Aside, Rev, Mine
  <2> QED BY <1>2, <1>3, <1>5, <2>1 DEF Aside, Clear
<1>6. ASSUME NEW m \in Machine, NEW next \in Place, NEW current \in BOOLEAN,
             Moves(m, next, current), Does(m, next, current)
      PROVE  Clear(x)'
  <2>1. ASSUME NEW r \in Revision, r < x PROVE cloud'[r] # "active"
    <3>1. cloud[r] # "active"
      BY <1>2, <2>1
    <3>2. CASE /\ Works(m, "activate")
               /\ cloud' = [q \in Revision |->
                              IF q = Rev(m) /\ cloud[q] = "staging" THEN "active" ELSE cloud[q]]
      BY <1>2, <2>1, <3>1, <3>2 DEF Works
    <3>3. CASE ~Works(m, "activate")
      BY <1>6, <3>1, <3>3 DEF Does
    <3> QED BY <1>6, <3>1, <3>2, <3>3 DEF Does
  <2>2. ASSUME NEW n \in Machine, writer'[n].pc = "activate", Rev(n)' < x
        PROVE  cloud'[Rev(n)'] = "absent"
    <3>1. CASE n = m
      <4>1. next = "activate"
        BY <1>6, <2>2, <3>1 DEF Moves
      <4>2. Rev(m)' = Rev(m) /\ Works(m, "confirm") /\ ~Headed(Rev(m))
        BY <1>6, <4>1 DEF Does, Passes
      <4>3. Rev(m) \in Revision
        BY <4>2, Workers DEF Works, Uploads
      <4>4. Headed(Rev(m))
        BY <1>1, <1>2, <2>2, <3>1, <4>2, <4>3 DEF Headed
      <4> QED BY <4>2, <4>4
    <3>2. CASE n # m
      <4>1. /\ writer[n].pc = "activate" /\ Rev(n)' = Rev(n) /\ Mine(n) # Mine(m)
            /\ Mine(n) \in Job /\ Mine(m) \in Job /\ Rev(n) \in Revision
        BY <1>4, <1>6, <2>2, <3>2 DEF Moves
      <4>2. cloud[Rev(n)] = "absent"
        BY <1>2, <2>2, <4>1
      <4>3. Rev(n) # Rev(m)
        BY <1>1, <4>1, Workers
      <4>4. cloud'[Rev(n)] = "absent"
        BY <1>6, <4>1, <4>2, <4>3 DEF Does
      <4> QED BY <4>1, <4>4
    <3> QED BY <3>1, <3>2
  <2> QED BY <1>3, <2>1, <2>2 DEF Clear
<1> QED BY <1>5, <1>6, PointStep

LEMMA ClearedStep ==
    ASSUME KnowInv, OneStep PROVE ClearedInv'
<1>1. MaxRevision \in Nat /\ Revision = 1 .. MaxRevision
  BY Workers
<1>2. /\ \A j \in Job : job[j].status = "completed" /\ job[j].rev # 0 => Clear(job[j].rev)
      /\ \A m \in Machine : writer[m].pc = "succeeded" /\ Mine(m) \in Remote => Clear(Rev(m))
  BY DEF KnowInv, ClearedInv
<1>3. /\ \A j \in Job : job[j].rev \in Nat
      /\ \A j \in Job \ Remote : job[j].rev = 0
      /\ \A m \in Machine : writer[m].pc # "idle" => Mine(m) \in Job
  BY <1>1 DEF KnowInv, KnowTypes, RevInv, WorkInv
<1>4. ASSUME NEW x \in Nat, Clear(x) PROVE Clear(x)'
  BY <1>4, ClearStays
\* A job recorded as completed.
<1>5. ASSUME NEW j \in Job, job'[j].status = "completed", job'[j].rev # 0
      PROVE  \E x \in Nat : x = job'[j].rev /\ Clear(x)
  <2>1. CASE Aside
    <3>1. job'[j].rev = job[j].rev
      BY <2>1 DEF Aside
    <3>2. CASE job[j].status = "completed"
      BY <1>2, <1>3, <1>5, <3>1, <3>2
    <3>3. CASE \E m \in Machine : writer[m].pc = "succeeded" /\ Mine(m) = j
      <4>1. PICK m \in Machine : writer[m].pc = "succeeded" /\ Mine(m) = j
        BY <3>3
      <4>2. j \in Remote
        BY <1>3, <1>5, <3>1
      <4> QED BY <1>2, <1>3, <3>1, <4>1, <4>2 DEF Rev
    <3> QED BY <1>5, <2>1, <3>2, <3>3 DEF Aside
  <2>2. ASSUME NEW m \in Machine, NEW next, NEW current, Moves(m, next, current)
        PROVE  \E x \in Nat : x = job'[j].rev /\ Clear(x)
    BY <1>2, <1>3, <1>5, <2>2 DEF Moves
  <2> QED BY <2>1, <2>2, PointStep
<1>6. ASSUME NEW j \in Job, job'[j].status = "completed", job'[j].rev # 0
      PROVE  Clear(job[j].rev)'
  <2>1. PICK x \in Nat : x = job'[j].rev /\ Clear(x)
    BY <1>5, <1>6
  <2>2. Clear(x)'
    BY <1>4, <2>1
  <2> QED BY <2>1, <2>2 DEF Clear, Headed
\* A job that is about to be.
<1>7. ASSUME NEW n \in Machine, writer'[n].pc = "succeeded", Mine(n)' \in Remote
      PROVE  Clear(Rev(n))'
  <2>1. ASSUME writer[n].pc = "succeeded", Mine(n)' = Mine(n), Rev(n)' = Rev(n)
        PROVE  Clear(Rev(n))'
    <3>1. PICK x \in Nat : x = Rev(n) /\ Clear(x)
      BY <1>2, <1>3, <1>7, <2>1 DEF Rev
    <3>2. Clear(x)'
      BY <1>4, <3>1
    <3> QED BY <2>1, <3>1, <3>2 DEF Clear, Headed
  <2>2. CASE Aside
    <3>1. writer'[n] = writer[n] /\ Mine(n)' = Mine(n)
      BY <1>7, <2>2 DEF Aside, Mine
    <3>2. Rev(n)' = Rev(n)
      BY <1>3, <1>7, <2>2, <3>1 DEF Aside, Rev
    <3> QED BY <1>7, <2>1, <3>1, <3>2
  <2>3. ASSUME NEW m \in Machine, NEW next \in Place, NEW current \in BOOLEAN,
               Moves(m, next, current), Does(m, next, current)
        PROVE  Clear(Rev(n))'
    <3>1. CASE n # m
      <4>1. writer'[n] = writer[n] /\ Mine(n)' = Mine(n) /\ (writer[n].pc # "idle" => Rev(n)' = Rev(n))
        BY <2>3, <3>1 DEF Moves, Mine
      <4> QED BY <1>7, <2>1, <4>1
    <3>2. CASE n = m
      <4>1. next = "succeeded" /\ Mine(m)' = Mine(m) /\ Mine(m) \in Remote
        BY <1>7, <2>3, <3>2 DEF Moves
      <4>2. /\ Works(m, "purge") /\ Rev(m)' = Rev(m)
            /\ cloud' = [r \in Revision |-> IF r < Rev(m) THEN "absent" ELSE cloud[r]]
        BY <2>3, <4>1 DEF Does, Passes
      <4>3. Rev(m) \in Revision /\ Rev(m) \in Nat /\ Headed(Rev(m))
        BY <1>1, <4>2, Workers DEF Works, Uploads, KnowInv, HeadInv
      <4>4. PICK x \in Nat : x = Rev(m) /\ Headed(x)
        BY <4>3
      <4>5. Headed(x)'
        BY <4>4, TopStays
      <4>6. \A r \in Revision : r < x => cloud'[r] # "active"
        BY <4>2, <4>4
      <4>7. ASSUME NEW k \in Machine, writer'[k].pc = "activate", Rev(k)' < x
            PROVE  cloud'[Rev(k)'] = "absent"
        <5>1. k # m
          BY <1>7, <3>2, <4>7
        <5>2. writer[k].pc = "activate" /\ Rev(k)' = Rev(k)
          BY <2>3, <4>7, <5>1 DEF Moves
        <5>3. Rev(k) \in Revision
          BY <5>2, Workers DEF Uploads
        <5> QED BY <4>2, <4>4, <4>7, <5>2, <5>3
      <4>8. Clear(x)'
        BY <4>5, <4>6, <4>7 DEF Clear
      <4> QED BY <3>2, <4>2, <4>4, <4>8 DEF Clear, Headed
    <3> QED BY <3>1, <3>2
  <2> QED BY <2>2, <2>3, PointStep
<1> QED BY <1>6, <1>7 DEF ClearedInv

-----------------------------------------------------------------------------
(* The theorems.                                                           *)

\* KnowInv holds of the rows, the writers and the shared points of every
\* reachable state: ingestion's inductive invariant.
THEOREM IngestInvariant == FairSpec => []KnowInv
<1>1. Init => KnowInv
  <2> SUFFICES ASSUME Init PROVE KnowInv
    OBVIOUS
  <2> USE DEF Init
  <2>1. \A m \in Machine : writer[m].pc = "idle"
    BY DEF Idle
  <2>2. \A j \in Job : job[j].status = "none" /\ job[j].rev = 0
    OBVIOUS
  <2>3. KnowTypes
    <3>1. Idle \in [by : {"none", "app", "cli"}, job : Job \cup {NoJob}, pc : Place, current : BOOLEAN]
      BY DEF Idle, Place
    <3>2. 0 \in 0 .. MaxRevision /\ <<>> \in Seq(Job)
      BY KnowledgeAssumption
    <3>3. \A j \in Job : [status |-> "none", rev |-> 0] \in [status : Status, rev : 0 .. MaxRevision]
      BY <3>2 DEF Status
    <3> QED BY <2>2, <3>1, <3>2, <3>3 DEF KnowTypes
  <2>4. LockInv
    BY <2>1 DEF LockInv
  <2>5. WorkInv /\ OwnInv /\ StagedInv /\ HeadInv
    BY <2>1 DEF WorkInv, OwnInv, StagedInv, HeadInv, Uploads
  <2>6. RevInv /\ ClearedInv
    BY <2>1, <2>2 DEF RevInv, ClearedInv
  <2> QED BY <2>3, <2>4, <2>5, <2>6 DEF KnowInv
<1>2. KnowInv /\ [Next]_vars => KnowInv'
  <2> SUFFICES ASSUME KnowInv, [Next]_vars PROVE KnowInv'
    OBVIOUS
  <2>1. CASE Next
    <3>1. OneStep
      BY <2>1, EveryStep
    <3>2. LockInv'
      BY <2>1, LockStep DEF KnowInv
    <3> QED
      BY <3>1, <3>2, TypesStep, WorkStep, RevStep, OwnStep, StagedStep, HeadStep, ClearedStep DEF KnowInv
  <2>2. CASE UNCHANGED vars
    <3>1. Quiet /\ UNCHANGED runner
      BY <2>2 DEF vars, Quiet, process
    <3>2. OneStep
      BY <3>1 DEF OneStep
    <3>3. LockInv'
      BY <3>1 DEF Quiet, LockInv, KnowInv
    <3> QED
      BY <3>2, <3>3, TypesStep, WorkStep, RevStep, OwnStep, StagedStep, HeadStep, ClearedStep DEF KnowInv
  <2> QED BY <2>1, <2>2
<1> QED BY <1>1, <1>2, PTL DEF FairSpec

-----------------------------------------------------------------------------
(* The contract.                                                           *)

Visible == In("active")
Ledger == [j \in Job |-> [phase |-> PhaseOf[job[j].status], rev |-> job[j].rev]]

\* How a row's status goes from one step to the next.
Moved(from, to) ==
    \/ from = to
    \/ <<from, to>> \in
          {<<"none", "queued">>, <<"failed", "queued">>, <<"cancelled", "queued">>,
           <<"queued", "cancelled">>, <<"failed", "cancelled">>, <<"running", "cancelling">>,
           <<"queued", "running">>, <<"running", "queued">>, <<"running", "failed">>,
           <<"running", "completed">>, <<"cancelling", "cancelled">>}

LEMMA Phases ==
    /\ PhaseOf["none"] = "absent" /\ PhaseOf["queued"] = "open" /\ PhaseOf["running"] = "open"
    /\ PhaseOf["cancelling"] = "stopping" /\ PhaseOf["completed"] = "done"
    /\ PhaseOf["failed"] = "undone" /\ PhaseOf["cancelled"] = "undone"
BY DEF PhaseOf

LEMMA MovedFollows ==
    ASSUME NEW from, NEW to, Moved(from, to)
    PROVE  \/ PhaseOf[from] = PhaseOf[to]
           \/ PhaseOf[to] \in Contract!Follows[PhaseOf[from]]
<1>1. /\ Contract!Follows["absent"] = {"open"}
      /\ Contract!Follows["open"] = {"stopping", "done", "undone"}
      /\ Contract!Follows["stopping"] = {"undone"} /\ Contract!Follows["undone"] = {"open"}
  BY DEF Contract!Follows
<1>2. CASE from = to
  BY <1>2
<1>3. CASE <<from, to>> \in {<<"none", "queued">>, <<"failed", "queued">>, <<"cancelled", "queued">>}
  BY Phases, <1>1, <1>3
<1>4. CASE <<from, to>> \in {<<"queued", "cancelled">>, <<"failed", "cancelled">>, <<"running", "cancelling">>}
  BY Phases, <1>1, <1>4
<1>5. CASE <<from, to>> \in {<<"queued", "running">>, <<"running", "queued">>, <<"running", "failed">>,
                             <<"running", "completed">>, <<"cancelling", "cancelled">>}
  BY Phases, <1>1, <1>5
<1> QED BY <1>2, <1>3, <1>4, <1>5 DEF Moved

\* Rows that move, with no point changed, are a step of the contract.
LEMMA RowsMove ==
    ASSUME KnowInv, KnowTypes', UNCHANGED cloud,
           \A j \in Job : /\ job'[j].rev = job[j].rev /\ Moved(job[j].status, job'[j].status)
                          /\ job'[j].status = "completed" /\ job[j].status # "completed" =>
                                \A r \in Revision : cloud[r] = "active" => r >= job[j].rev
    PROVE  Contract!Next
<1>1. \A j \in Job : Ledger[j].phase = PhaseOf[job[j].status] /\ Ledger[j].rev = job[j].rev
  BY DEF Ledger
<1>2. \A j \in Job : Ledger'[j].phase = PhaseOf[job'[j].status] /\ Ledger'[j].rev = job'[j].rev
  BY DEF Ledger
<1>3. Visible' = Visible /\ \A r \in Visible : r \in Revision /\ cloud[r] = "active"
  BY DEF Visible, In
<1>4. ASSUME NEW j \in Job PROVE Ledger'[j] = Ledger[j] \/ Contract!Move(j)
  <2>1. Moved(job[j].status, job'[j].status) /\ job'[j].rev = job[j].rev
    OBVIOUS
  <2>2. CASE PhaseOf[job[j].status] = PhaseOf[job'[j].status]
    BY <2>1, <2>2 DEF Ledger
  <2>3. CASE PhaseOf[job[j].status] # PhaseOf[job'[j].status]
    <3>1. PhaseOf[job'[j].status] \in Contract!Follows[PhaseOf[job[j].status]]
      BY <2>1, <2>3, MovedFollows
    <3>2. job'[j].status \in Status
      BY DEF KnowTypes
    <3>3. PhaseOf[job'[j].status] = "done" => job'[j].status = "completed"
      BY <3>2, Phases DEF Status
    <3>4. PhaseOf[job'[j].status] = "done" => \A r \in Visible : r >= job[j].rev
      BY <1>3, <2>3, <3>3
    <3>5. /\ Ledger[j].phase = PhaseOf[job[j].status] /\ Ledger[j].rev = job[j].rev
          /\ Ledger'[j].phase = PhaseOf[job'[j].status] /\ Ledger'[j].rev = job[j].rev
      BY <1>1, <1>2, <2>1
    <3>6. /\ Ledger'[j].phase \in Contract!Follows[Ledger[j].phase]
          /\ Ledger'[j].rev = Ledger[j].rev
          /\ Ledger'[j].phase = "done" => \A r \in Visible : r >= Ledger[j].rev
      BY <3>1, <3>4, <3>5
    <3> QED BY <3>6 DEF Contract!Move, Ledger, Visible
  <2> QED BY <2>2, <2>3
<1>5. Contract!Jobs
  BY <1>3, <1>4 DEF Contract!Jobs, Ledger, Visible
<1> QED BY <1>5 DEF Contract!Next

\* The contract counts as this module does.
LEMMA SameCount ==
    ASSUME NEW S PROVE Contract!Cardinality(S) = Cardinality(S)
BY DEF Contract!Cardinality, Cardinality, Contract!IsFiniteSet, IsFiniteSet

LEMMA ContractStep ==
    ASSUME KnowInv, OneStep PROVE Contract!Next \/ UNCHANGED Contract!vars
<1> DEFINE Row == [status : Status, rev : 0 .. MaxRevision]
<1>1. KnowTypes' /\ job \in [Job -> Row]
  BY TypesStep DEF KnowInv, KnowTypes
<1>2. /\ MaxRevision \in Nat /\ Revision = 1 .. MaxRevision
      /\ \A r \in Revision : cloud[r] \in {"absent", "staging", "active"}
      /\ \A m \in Machine : writer[m].pc # "idle" => Mine(m) \in Job
      /\ \A m \in Machine : writer[m].pc \in Uploads => Rev(m) \in Revision
  BY Workers
<1> HIDE DEF Row
<1>3. ASSUME UNCHANGED <<job, cloud>> PROVE UNCHANGED Contract!vars
  BY <1>3 DEF Contract!vars, In
<1>4. ASSUME NEW j \in Job, NEW to \in Status, Gesture(j, to) PROVE Contract!Next
  <2>1. /\ UNCHANGED cloud /\ Moved(job[j].status, to) /\ to # "completed"
        /\ job' = [job EXCEPT ![j].status = to]
    BY <1>4 DEF Gesture, SetStatus, Moved
  <2>2. \A k \in Job : /\ job'[k].rev = job[k].rev /\ Moved(job[k].status, job'[k].status)
                       /\ job'[k].status = "completed" => job[k].status = "completed"
    BY <1>1, <2>1 DEF Row, Moved
  <2> QED BY <1>1, <2>1, <2>2, RowsMove
<1>5. ASSUME NEW m, NEW st \in {"queued", "failed"}
      PROVE  /\ Recovered(m, st) \in [Job -> Row]
             /\ \A j \in Job : /\ Recovered(m, st)[j].rev = job[j].rev
                               /\ Moved(job[j].status, Recovered(m, st)[j].status)
                               /\ Recovered(m, st)[j].status = "completed" => job[j].status = "completed"
                               /\ job[j].status = "none" => Recovered(m, st)[j].status = "none"
  BY <1>1, <1>5 DEF Recovered, Status, Row, Moved
<1>6. ASSUME NEW j \in Job, Starts(j) PROVE Contract!Next
  <2> DEFINE rows == Recovered(Home[j], "failed")
  <2>1. /\ rows \in [Job -> Row] /\ rows[j].status = "none" /\ job[j].status = "none"
        /\ \A k \in Job : /\ rows[k].rev = job[k].rev /\ Moved(job[k].status, rows[k].status)
                          /\ rows[k].status = "completed" => job[k].status = "completed"
    BY <1>5, <1>6 DEF Starts
  <2>2. job' = [rows EXCEPT ![j].status = "queued"] /\ UNCHANGED cloud
    BY <1>6 DEF Starts
  <2> HIDE DEF rows
  <2>3. \A k \in Job : /\ job'[k].rev = job[k].rev /\ Moved(job[k].status, job'[k].status)
                       /\ job'[k].status = "completed" => job[k].status = "completed"
    BY <2>1, <2>2 DEF Row, Moved
  <2> QED BY <1>1, <2>2, <2>3, RowsMove
<1>7. ASSUME NEW m \in Machine, Settles(m) PROVE Contract!Next
  BY <1>1, <1>5, <1>7, RowsMove DEF Settles
<1>8. ASSUME NEW m \in Machine, Claims(m) PROVE Contract!Next
  <2>1. /\ UNCHANGED cloud /\ Moved(job[Mine(m)].status, "running")
        /\ job' = [job EXCEPT ![Mine(m)].status = "running"]
    BY <1>8 DEF Claims, SetStatus, Moved
  <2>2. \A k \in Job : /\ job'[k].rev = job[k].rev /\ Moved(job[k].status, job'[k].status)
                       /\ job'[k].status = "completed" => job[k].status = "completed"
    BY <1>1, <2>1 DEF Row, Moved
  <2> QED BY <1>1, <2>1, <2>2, RowsMove
<1>9. ASSUME NEW m \in Machine, NEW end \in Status, Closes(m, end) PROVE Contract!Next
  <2>1. /\ UNCHANGED cloud /\ Moved(job[Mine(m)].status, end) /\ Mine(m) \in Job
        /\ job' = [job EXCEPT ![Mine(m)].status = end]
        /\ end = "completed" => writer[m].pc = "succeeded"
    BY <1>2, <1>9 DEF Closes, SetStatus, Moved
  <2>2. \A k \in Job : /\ job'[k].rev = job[k].rev /\ Moved(job[k].status, job'[k].status)
                       /\ job'[k].status = "completed" /\ job[k].status # "completed" =>
                             k = Mine(m) /\ writer[m].pc = "succeeded"
    BY <1>1, <2>1 DEF Row, Moved
  <2>3. ASSUME writer[m].pc = "succeeded", NEW r \in Revision, cloud[r] = "active"
        PROVE  r >= job[Mine(m)].rev
    <3>1. job[Mine(m)].rev \in Nat /\ r \in Nat
      BY <1>1, <1>2, <2>1 DEF Row
    <3>2. CASE Mine(m) \in Remote
      <4>1. Clear(job[Mine(m)].rev)
        BY <2>3, <3>2 DEF KnowInv, ClearedInv, Rev
      <4> QED BY <2>3, <3>1, <4>1 DEF Clear
    <3>3. CASE Mine(m) \notin Remote
      BY <2>1, <3>1, <3>3 DEF KnowInv, RevInv
    <3> QED BY <3>2, <3>3
  <2> QED BY <1>1, <2>1, <2>2, <2>3, RowsMove
<1>10. ASSUME NEW m \in Machine, NEW r \in Revision, Draws(m, r) PROVE Contract!Next
  <2> DEFINE i == Mine(m)
  <2>1. /\ i \in Job /\ job[i].rev = 0 /\ job[i].status \in {"running", "cancelling"}
        /\ UNCHANGED cloud /\ job' = [job EXCEPT ![i].rev = r] /\ \A j \in Job : job[j].rev # r
    BY <1>10 DEF Draws, Works, KnowInv, WorkInv, Rev
  <2> HIDE DEF i
  <2>2. /\ job'[i].rev = r /\ job'[i].status = job[i].status
        /\ \A j \in Job \ {i} : job'[j] = job[j]
    BY <1>1, <2>1 DEF Row
  <2>3. /\ Ledger[i].phase \in {"open", "stopping"} /\ Ledger[i].rev = 0
        /\ Ledger'[i].phase = Ledger[i].phase
        /\ \A k \in Job \ {i} : Ledger[k].rev # Ledger'[i].rev
    BY <2>1, <2>2, Phases DEF Ledger
  <2>4. ASSUME NEW j \in Job, j = i PROVE Contract!Allocate(j)
    BY <2>3, <2>4 DEF Contract!Allocate, Ledger
  <2>5. \A j \in Job : Ledger'[j] = Ledger[j] \/ Contract!Allocate(j)
    <3>1. ASSUME NEW j \in Job, j # i PROVE Ledger'[j] = Ledger[j]
      BY <2>2, <3>1 DEF Ledger
    <3> QED BY <2>4, <3>1
  <2>6. Visible' = Visible
    BY <2>1 DEF Visible, In
  <2>7. Contract!Jobs
    BY <2>5, <2>6 DEF Contract!Jobs, Ledger, Visible
  <2> QED BY <2>7 DEF Contract!Next
<1>11. ASSUME NEW m \in Machine, Stages(m) PROVE UNCHANGED Contract!vars
  <2>1. cloud[Rev(m)] # "active"
    BY <1>11 DEF Stages, Works, KnowInv, OwnInv
  <2>2. \A r \in Revision : cloud'[r] = "active" <=> cloud[r] = "active"
    BY <1>11, <2>1 DEF Stages
  <2> QED BY <1>11, <2>2 DEF Stages, Contract!vars, In
<1>12. ASSUME UNCHANGED job, \A r \in Revision : cloud'[r] = "active" => cloud[r] = "active"
       PROVE  Contract!Next
  <2>1. Visible' \subseteq Visible
    BY <1>12 DEF Visible, In
  <2>2. \A r \in Visible \ Visible' : \E top \in Visible' : r < top
    <3> SUFFICES ASSUME NEW r \in Visible \ Visible' PROVE \E top \in Visible' : r < top
      OBVIOUS
    <3>1. r \in Revision /\ r \in Nat /\ cloud[r] = "active" /\ cloud'[r] # "active"
      BY <1>2 DEF Visible, In
    <3>2. Headed(r)
      BY <1>2, <3>1 DEF Headed
    <3>3. Headed(r)'
      BY <3>1, <3>2, TopStays
    <3>4. PICK top \in Revision : cloud'[top] = "active" /\ r <= top
      BY <3>3 DEF Headed
    <3> QED BY <1>2, <3>1, <3>4 DEF Visible, In
  <2>3. Contract!Retire
    BY <1>12, <2>1, <2>2 DEF Contract!Retire, Visible
  <2> QED BY <2>3 DEF Contract!Next
<1>13. ASSUME NEW m \in Machine, Hides(m) \/ Purges(m) \/ Withdraws(m) PROVE Contract!Next
  <2>1. UNCHANGED job /\ \A r \in Revision : cloud'[r] = "active" => cloud[r] = "active"
    BY <1>13 DEF Hides, Purges, Withdraws
  <2> QED BY <1>12, <2>1
<1>14. ASSUME NEW m \in Machine, Shows(m) PROVE Contract!Next \/ UNCHANGED Contract!vars
  <2> DEFINE x == Rev(m)
  <2>1. /\ writer[m].pc = "activate" /\ x \in Revision /\ UNCHANGED job
        /\ cloud' = [r \in Revision |-> IF r = x /\ cloud[r] = "staging" THEN "active" ELSE cloud[r]]
    BY <1>2, <1>14 DEF Shows, Works, Uploads
  <2>2. CASE cloud[x] # "staging"
    <3>1. \A r \in Revision : cloud'[r] = "active" <=> cloud[r] = "active"
      BY <2>1, <2>2
    <3> QED BY <2>1, <3>1 DEF Contract!vars, In
  <2>3. CASE cloud[x] = "staging"
    <3>1. /\ Visible \subseteq Visible' /\ Visible' \ Visible = {x}
      BY <2>1, <2>3 DEF Visible, In
    <3>2. Cardinality(Visible' \ Visible) = 1
      BY <3>1, FS_Singleton
    <3>3. ASSUME NEW j \in Job, Ledger[j].phase = "done" PROVE Ledger[j].rev < x
      <4>1. job[j].status \in Status /\ job[j].rev \in Nat /\ Ledger[j].rev = job[j].rev
            /\ Ledger[j].phase = PhaseOf[job[j].status]
        BY <1>1, <1>2 DEF Row, Ledger
      <4>2. job[j].status = "completed"
        BY <3>3, <4>1, Phases DEF Status
      <4>3. CASE job[j].rev = 0
        BY <1>2, <2>1, <4>1, <4>3
      <4>4. CASE job[j].rev # 0
        <5>1. Clear(job[j].rev)
          BY <4>2, <4>4 DEF KnowInv, ClearedInv
        <5>2. ~(x < job[j].rev)
          BY <2>1, <2>3, <5>1 DEF Clear
        <5>3. x # job[j].rev
          <6>1. job[Mine(m)].status \in {"running", "cancelling"} /\ Mine(m) \in Job
            BY <2>1 DEF KnowInv, WorkInv
          <6>2. Mine(m) # j
            BY <4>2, <6>1
          <6> QED BY <4>4, <6>1, <6>2 DEF KnowInv, RevInv, Rev
        <5> QED BY <1>2, <2>1, <4>1, <5>2, <5>3
      <4> QED BY <4>3, <4>4
    <3>4. \A r \in Visible' \ Visible : \A d \in Contract!Done : d < r
      BY <3>1, <3>3 DEF Contract!Done, Ledger
    <3>5. UNCHANGED Ledger
      BY <2>1 DEF Ledger
    <3>6. Contract!Publish
      BY <3>1, <3>2, <3>4, <3>5, SameCount DEF Contract!Publish, Visible, Ledger
    <3> QED BY <3>6 DEF Contract!Next
  <2> QED BY <2>2, <2>3
<1> QED
  BY <1>3, <1>4, <1>6, <1>7, <1>8, <1>9, <1>10, <1>11, <1>13, <1>14
     DEF OneStep, JobStep, Quiet, Drops, Takes, Walks, Reads

\* Ingestion implements the contract of one document: for any number of
\* machines, jobs and revisions, a reader never loses the newest revision
\* it could find, a job recorded as completed left no older one behind and
\* none comes back, and a job that was asked to stop only ends
\* (resolve_remote_revision, the reads around activation, the filters on
\* lower revisions, put_job, finalize_job).
THEOREM ReplacementKept == FairSpec => KeepsReplacementContract
<1>1. Init => Contract!Init
  <2> SUFFICES ASSUME Init PROVE Contract!Init
    OBVIOUS
  <2>1. In("active") = {}
    BY DEF Init, In
  <2>2. Cardinality(In("active")) <= 1
    BY <2>1, FS_EmptySet
  <2>3. \A j \in Job : Ledger[j].phase = "absent"
    BY Phases DEF Init, Ledger
  <2> QED BY <2>2, <2>3, SameCount DEF Contract!Init, Ledger
<1>2. KnowInv /\ [Next]_vars => [Contract!Next]_(Contract!vars)
  <2> SUFFICES ASSUME KnowInv, [Next]_vars PROVE Contract!Next \/ UNCHANGED Contract!vars
    OBVIOUS
  <2>1. CASE Next
    <3>1. OneStep
      BY <2>1, EveryStep
    <3> QED BY <3>1, ContractStep
  <2>2. CASE UNCHANGED vars
    BY <2>2 DEF vars, Contract!vars, In
  <2> QED BY <2>1, <2>2
<1> QED BY <1>1, <1>2, IngestInvariant, PTL DEF FairSpec, KeepsReplacementContract, Contract!Spec
=============================================================================
