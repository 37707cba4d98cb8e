-------------------------- MODULE KnowledgeIngest --------------------------
(***************************************************************************)
(* One job from its claim to its end (run_job_locked and ingest_headless), *)
(* against a Qdrant collection in which other machines replace the same    *)
(* document: ingest_qdrant, ingest_qdrant_headless and the local bucket's  *)
(* loop.  Each request is a step of its own.                               *)
(***************************************************************************)
EXTENDS KnowledgeJobs

Works(m, pc) == writer[m].pc = pc
App(m) == writer[m].by = "app"
Mine(m) == writer[m].job
Rev(m) == job[Mine(m)].rev
Cancelled(m) == job[Mine(m)].status \in {"cancelling", "cancelled"}

Goto(m, pc) == writer' = [writer EXCEPT ![m].pc = pc]
Ready(m) == writer' = [writer EXCEPT ![m] = IF App(m) THEN [Idle EXCEPT !.by = "app"] ELSE Idle]
Around == UNCHANGED <<born, enabled, process>>
Local == Around /\ UNCHANGED <<cloud, events>>

\* persist_progress: put_job keeps a cancellation it finds in the row.
Progress(m) ==
    IF Cancelled(m) THEN UNCHANGED job ELSE SetStatus(Mine(m), "running")

In(state) == {r \in Revision : cloud[r] = state}
Highest(S) == IF S = {} THEN 0 ELSE CHOOSE r \in S : \A s \in S : s <= r
ActiveHead == Highest(In("active"))

\* Microseconds of the client's own clock, but above every manifest; two
\* clients do not draw the same one.
Fresh == {r \in Revision : r > Highest(Revision \ In("absent")) /\ \A j \in Job : job[j].rev # r}

-----------------------------------------------------------------------------
ClaimJob(m) ==
    /\ Works(m, "claim")
    /\ IF job[Mine(m)].status = "queued"
       THEN SetStatus(Mine(m), "running") /\ Goto(m, "begin")
       ELSE Ready(m) /\ UNCHANGED job
    /\ Local

\* ensure_knowledge_enabled, then is_cancelled; the tool asks neither.
Checked(m, next) ==
    IF ~App(m) THEN next
    ELSE IF ~enabled[m] THEN "paused" ELSE IF Cancelled(m) THEN "failed" ELSE next

Begin(m) ==
    /\ Works(m, "begin")
    /\ LET next == Checked(m, IF Mine(m) \in Remote THEN "resolve" ELSE "embed")
       IN  /\ Goto(m, next)
           /\ IF next \in {"paused", "failed"} THEN UNCHANGED job ELSE Progress(m)
    /\ Local

\* A retried job keeps its revision; a new one is saved before any upload.
ResolveRevision(m) ==
    /\ Works(m, "resolve")
    /\ \/ Rev(m) # 0 /\ Goto(m, "read") /\ UNCHANGED job
       \/ /\ Rev(m) = 0
          /\ \E r \in Fresh : job' = [job EXCEPT ![Mine(m)].rev = r]
          /\ Goto(m, "read")
       \/ Rev(m) = 0 /\ Fresh = {} /\ Goto(m, "failed") /\ UNCHANGED job
    /\ Local

\* A newer active revision ends the job.
ReadHead(m) ==
    /\ Works(m, "read")
    /\ writer' = [writer EXCEPT ![m].pc = IF ActiveHead > Rev(m) THEN "failed" ELSE "embed",
                                ![m].current = ActiveHead = Rev(m)]
    /\ Local /\ UNCHANGED job

\* A batch; between batches the job looks at the switch and its own row.
Embed(m) ==
    /\ Works(m, "embed")
    /\ LET next == Checked(m, IF Mine(m) \notin Remote THEN "succeeded"
                              ELSE IF writer[m].current THEN "check" ELSE "stage")
       IN  /\ Goto(m, next)
           /\ IF next \in {"paused", "failed"} THEN UNCHANGED job ELSE Progress(m)
    /\ Local

\* What a request to change points does to those its filter selects: the
\* job's own revision, or every lower one.
Own(m, to) == [r \in Revision |-> IF r = Rev(m) THEN to[cloud[r]] ELSE cloud[r]]
Lower(m, to) == [r \in Revision |-> IF r < Rev(m) THEN to[cloud[r]] ELSE cloud[r]]
Gone == [s \in {"absent", "staging", "active"} |-> "absent"]
Hidden == [absent |-> "absent", staging |-> "staging", active |-> "staging"]
Shown == [absent |-> "absent", staging |-> "active", active |-> "active"]
Uploaded == [s \in {"absent", "staging", "active"} |-> "staging"]

Effect(m) ==
    CASE Works(m, "stage") -> Own(m, Uploaded)
      [] Works(m, "activate") -> Own(m, Shown)
      [] Works(m, "hide") -> Lower(m, Hidden)
      [] Works(m, "purge") -> Lower(m, Gone)

Write(m, pc, next) ==
    Works(m, pc) /\ cloud' = Effect(m) /\ Goto(m, next) /\ Around /\ UNCHANGED <<job, events>>

\* A request fails at the client: refused, or carried out and its answer lost.
RequestFails(m) ==
    /\ writer[m].pc \in {"resolve", "read", "embed", "stage", "confirm", "activate", "verify", "hide", "purge"}
    /\ \/ UNCHANGED cloud
       \/ writer[m].pc \in {"stage", "activate", "hide", "purge"} /\ cloud' = Effect(m)
    /\ Goto(m, "failed") /\ Budget /\ Around /\ UNCHANGED job

Stage(m) ==
    IF App(m) /\ ~enabled[m]
    THEN Works(m, "stage") /\ Goto(m, "paused") /\ Local /\ UNCHANGED job
    ELSE Write(m, "stage", "check")

CheckBeforeCommit(m) ==
    /\ Works(m, "check")
    /\ LET next == IF App(m) /\ Cancelled(m) THEN "failed"
                   ELSE Checked(m, IF writer[m].current THEN "verify" ELSE "confirm")
       IN  Goto(m, next)
    /\ Progress(m) /\ Local

\* Wrong on purpose: what was read before embedding is taken to hold.
Confirm_Stale(m) == Works(m, "confirm") /\ Goto(m, "activate") /\ Local /\ UNCHANGED job
Confirm(m) ==
    /\ Works(m, "confirm")
    /\ Goto(m, IF ActiveHead > Rev(m) THEN "failed"
               ELSE IF ActiveHead = Rev(m) THEN "succeeded" ELSE "activate")
    /\ Local /\ UNCHANGED job

\* No points are selected if a newer job has deleted them by now.
Activate(m) == Write(m, "activate", "verify")

Verify(m) ==
    /\ Works(m, "verify")
    /\ Goto(m, IF ActiveHead > Rev(m) THEN "retire" ELSE "hide")
    /\ Local /\ UNCHANGED job

\* Demoted, then deleted; either may fail, and the job fails anyway.
RetireOwn(m) ==
    /\ Works(m, "retire") /\ Goto(m, "failed")
    /\ \/ cloud' = Own(m, Gone) /\ UNCHANGED events
       \/ (cloud' = Own(m, Hidden) \/ UNCHANGED cloud) /\ Budget
    /\ Around /\ UNCHANGED job

HideLower(m) == Write(m, "hide", "purge")
DeleteLower(m) == Write(m, "purge", "succeeded")

\* finalize_job and requeue_paused_job; a row that ended stays as it is.
Settled(status, end) ==
    CASE status = "running" -> end
      [] status = "cancelling" -> "cancelled"
      [] OTHER -> status

Ends(m, pc, end) ==
    /\ Works(m, pc) /\ SetStatus(Mine(m), Settled(job[Mine(m)].status, end))
    /\ Ready(m) /\ Local

Finalize(m) == Ends(m, "succeeded", "completed") \/ Ends(m, "failed", "failed")
Requeue(m) == Ends(m, "paused", "queued")

-----------------------------------------------------------------------------
Work(m) ==
    \/ ClaimJob(m) \/ Begin(m) \/ ResolveRevision(m) \/ ReadHead(m) \/ Embed(m)
    \/ Stage(m) \/ CheckBeforeCommit(m) \/ Confirm(m) \/ Activate(m) \/ Verify(m)
    \/ RetireOwn(m) \/ HideLower(m) \/ DeleteLower(m) \/ Finalize(m) \/ Requeue(m)

Desktop(m) == AcquireLock(m) \/ NextJob(m) \/ ReleaseLease(m) \/ Recheck(m)

Next ==
    \/ \E j \in Job : Enqueue(j) \/ Retry(j) \/ Cancel(j) \/ CliStarts(j)
    \/ \E m \in Machine :
        \/ SwitchOff(m) \/ SwitchOn(m) \/ WakeJobRunner(m) \/ Desktop(m) \/ Work(m)
        \/ DrainFails(m) \/ Unwoken(m) \/ RequestFails(m) \/ Restart(m)
        \/ CliKilled(m) \/ CliSettles(m)

\* Tasks that can go on do, and every request has a time limit.  Nothing is
\* expected of the operator.
FairSpec ==
    /\ Init /\ [][Next]_vars
    /\ \A m \in Machine : WF_vars(WakeJobRunner(m)) /\ WF_vars(Desktop(m)) /\ WF_vars(Work(m))
=============================================================================
