--------------------------- MODULE KnowledgeJobs ---------------------------
(***************************************************************************)
(* The durable ingestion jobs of some machines (knowledge/ingest.rs,       *)
(* knowledge_jobs in docs/semantic.rs), the desktop's runner that is woken *)
(* for them, the command-line tool that runs one itself, and the lock that *)
(* makes either of them the only writer of its machine.  A machine has its *)
(* own rows; only the collection of KnowledgeIngest is shared.             *)
(***************************************************************************)
EXTENDS Naturals, Sequences, FiniteSets

CONSTANTS
    Machine, Job, NoJob,
    Home,          \* the machine whose database holds the job
    Headless,      \* jobs of the command-line tool, the others are the desktop's
    Remote,        \* jobs that replace the shared document, the others fill a bucket each
    MaxRevision,   \* named bound on the revisions a clock can give
    MaxEvents      \* bound on gestures after the first, crashes and faults

ASSUME KnowledgeAssumption ==
    /\ Home \in [Job -> Machine] /\ NoJob \notin Job
    /\ Headless \subseteq Job /\ Remote \subseteq Job
    /\ MaxRevision \in Nat /\ MaxEvents \in Nat

VARIABLES
    job,       \* per job: its row's status and the revision its payload saved
    born,      \* per machine: its jobs in the order of created_at
    enabled,   \* per machine: the docs_enabled setting
    active,    \* KnowledgeJobRunnerState
    runner,    \* per machine: where the spawned runner is, "dead" after an error that
               \* left nobody to run what is queued
    wake,      \* a command that changed a row or the setting has yet to wake the runner
    recheck,   \* a runner that released its lease has yet to look again
    writer,    \* the process that holds the writer lock, and its place in a job
    cloud,     \* the shared document: per revision the state of its points
    events

process == <<active, runner, wake, recheck>>
vars == <<job, born, enabled, process, writer, cloud, events>>

Revision == 1 .. MaxRevision
Idle == [by |-> "none", job |-> NoJob, pc |-> "idle", current |-> FALSE]
Holds == {"queued", "running", "cancelling"}

Init ==
    /\ job = [j \in Job |-> [status |-> "none", rev |-> 0]] /\ born = [m \in Machine |-> <<>>]
    /\ enabled = [m \in Machine |-> TRUE]
    /\ active = [m \in Machine |-> FALSE] /\ runner = [m \in Machine |-> "off"]
    /\ wake = [m \in Machine |-> FALSE] /\ recheck = [m \in Machine |-> FALSE]
    /\ writer = [m \in Machine |-> Idle]
    /\ cloud = [r \in Revision |-> "absent"]
    /\ events = 0

Budget == events < MaxEvents /\ events' = events + 1
Here(m) == {j \in Job : Home[j] = m}
Queued(m) == {j \in Here(m) : job[j].status = "queued"}
SetStatus(j, status) == job' = [job EXCEPT ![j].status = status]

Born(j) == born' = [born EXCEPT ![Home[j]] = Append(@, j)]

\* The unique index over resource_key of the active jobs.
ResourceFree(j, rows) ==
    j \in Remote => \A k \in (Remote \cap Here(Home[j])) \ {j} : rows[k].status \notin Holds

\* Rows that no live process is working on, as the next writer settles them.
Recovered(m, interrupted) ==
    [j \in Job |->
        IF Home[j] # m THEN job[j]
        ELSE CASE job[j].status = "running" -> [job[j] EXCEPT !.status = interrupted]
               [] job[j].status = "cancelling" -> [job[j] EXCEPT !.status = "cancelled"]
               [] OTHER -> job[j]]

-----------------------------------------------------------------------------
(* The operator.  A command that leaves work behind wakes the runner after *)
(* it has written the row; one such command is under way at a time.        *)

Woken(m) == ~wake[m] /\ wake' = [wake EXCEPT ![m] = TRUE]
Elsewhere == UNCHANGED <<active, runner, recheck, writer, cloud>>

Enqueue(j) ==
    /\ j \notin Headless /\ job[j].status = "none" /\ enabled[Home[j]] /\ ResourceFree(j, job)
    /\ SetStatus(j, "queued") /\ Born(j) /\ Woken(Home[j])
    /\ Elsewhere /\ UNCHANGED <<enabled, events>>

Retry(j) ==
    /\ job[j].status \in {"failed", "cancelled"} /\ enabled[Home[j]] /\ ResourceFree(j, job)
    /\ SetStatus(j, "queued") /\ Woken(Home[j]) /\ Budget
    /\ Elsewhere /\ UNCHANGED <<born, enabled>>

Cancel(j) ==
    /\ job[j].status \in {"queued", "running", "failed"} /\ enabled[Home[j]] /\ Budget
    /\ SetStatus(j, IF job[j].status = "running" THEN "cancelling" ELSE "cancelled")
    /\ Elsewhere /\ UNCHANGED <<born, enabled, wake>>

SwitchOff(m) ==
    /\ enabled[m] /\ enabled' = [enabled EXCEPT ![m] = FALSE] /\ Budget
    /\ Elsewhere /\ UNCHANGED <<job, born, wake>>

\* save_settings ends with resume_pending_jobs.
SwitchOn(m) ==
    /\ ~enabled[m] /\ enabled' = [enabled EXCEPT ![m] = TRUE] /\ Woken(m)
    /\ Elsewhere /\ UNCHANGED <<job, born, events>>

-----------------------------------------------------------------------------
(* The desktop's runner.                                                   *)

Spawns(m) == enabled[m] /\ ~active[m]
Spawn(m) ==
    /\ active' = [active EXCEPT ![m] = active[m] \/ Spawns(m)]
    /\ runner' = IF Spawns(m) THEN [runner EXCEPT ![m] = "waiting"] ELSE runner
Rest == UNCHANGED <<job, born, enabled, cloud, events>>

WakeJobRunner(m) ==
    /\ wake[m] /\ wake' = [wake EXCEPT ![m] = FALSE]
    /\ Spawn(m) /\ Rest /\ UNCHANGED <<recheck, writer>>

\* The lock is waited for; whatever an earlier process left is queued again.
AcquireLock(m) ==
    /\ runner[m] = "waiting" /\ writer[m].by = "none"
    /\ runner' = [runner EXCEPT ![m] = "draining"]
    /\ writer' = [writer EXCEPT ![m].by = "app"]
    /\ job' = Recovered(m, "queued")
    /\ UNCHANGED <<born, enabled, active, wake, recheck, cloud, events>>

Oldest(m) ==
    CHOOSE j \in Queued(m) :
        \E i \in DOMAIN born[m] :
            born[m][i] = j /\ \A h \in 1 .. (i - 1) : born[m][h] \notin Queued(m)

\* The loop's head: the next job, or nothing more to do and the lock dropped.
Draining(m) == runner[m] = "draining" /\ writer[m].pc = "idle"
NextJob(m) ==
    /\ Draining(m)
    /\ IF enabled[m] /\ Queued(m) # {}
       THEN /\ writer' = [writer EXCEPT ![m].job = Oldest(m), ![m].pc = "claim"]
            /\ UNCHANGED runner
       ELSE writer' = [writer EXCEPT ![m] = Idle] /\ runner' = [runner EXCEPT ![m] = "leaving"]
    /\ Rest /\ UNCHANGED <<active, wake, recheck>>

\* The lock or the database gives an error; the drain returns it.
DrainFails(m) ==
    /\ runner[m] = "waiting" \/ Draining(m)
    /\ runner' = [runner EXCEPT ![m] = "failing"] /\ Budget
    /\ writer' = IF Draining(m) THEN [writer EXCEPT ![m] = Idle] ELSE writer
    /\ UNCHANGED <<job, born, enabled, active, wake, recheck, cloud>>

ReleaseLease(m) ==
    /\ runner[m] \in {"leaving", "failing"} /\ ~recheck[m]
    /\ active' = [active EXCEPT ![m] = FALSE]
    /\ recheck' = [recheck EXCEPT ![m] = runner[m] = "leaving"]
    /\ runner' = [runner EXCEPT ![m] = IF @ = "leaving" THEN "off" ELSE "dead"]
    /\ Rest /\ UNCHANGED <<wake, writer>>

\* Wrong on purpose: trusts that the final query saw everything.
Recheck_Not(m) ==
    /\ recheck[m] /\ recheck' = [recheck EXCEPT ![m] = FALSE]
    /\ UNCHANGED <<active, runner>> /\ Rest /\ UNCHANGED <<wake, writer>>
Recheck(m) ==
    /\ recheck[m] /\ recheck' = [recheck EXCEPT ![m] = FALSE]
    /\ IF Queued(m) # {} THEN Spawn(m) ELSE UNCHANGED <<active, runner>>
    /\ Rest /\ UNCHANGED <<wake, writer>>

\* The command that queued a row or switched the feature on returns an error
\* before it comes to wake the runner, or the second look's query fails.
Unwoken(m) ==
    /\ \/ wake[m] /\ wake' = [wake EXCEPT ![m] = FALSE] /\ UNCHANGED recheck
       \/ recheck[m] /\ recheck' = [recheck EXCEPT ![m] = FALSE] /\ UNCHANGED wake
    /\ runner' = IF active[m] THEN runner ELSE [runner EXCEPT ![m] = "dead"]
    /\ Budget /\ UNCHANGED <<job, born, enabled, active, writer, cloud>>

\* The desktop dies and is started again: setup resumes pending jobs.
Restart(m) ==
    /\ Budget
    /\ active' = [active EXCEPT ![m] = FALSE] /\ runner' = [runner EXCEPT ![m] = "off"]
    /\ recheck' = [recheck EXCEPT ![m] = FALSE] /\ wake' = [wake EXCEPT ![m] = enabled[m]]
    /\ writer' = IF writer[m].by = "app" THEN [writer EXCEPT ![m] = Idle] ELSE writer
    /\ UNCHANGED <<job, born, enabled, cloud>>

-----------------------------------------------------------------------------
(* The command-line tool.                                                  *)

\* It does not wait for the lock; it settles what an interrupted process
\* left, and stores its own job.
CliStarts(j) ==
    LET m == Home[j]  rows == Recovered(m, "failed")
    IN  /\ j \in Headless /\ job[j].status = "none" /\ writer[m].by = "none"
        /\ ResourceFree(j, rows)
        /\ job' = [rows EXCEPT ![j].status = "queued"] /\ Born(j)
        /\ writer' = [writer EXCEPT ![m] = [by |-> "cli", job |-> j, pc |-> "claim", current |-> FALSE]]
        /\ UNCHANGED <<enabled, process, cloud, events>>

\* Any other command that writes settles such rows as well, and so does one
\* whose own job is refused.
CliSettles(m) ==
    /\ writer[m].by = "none" /\ job' = Recovered(m, "failed")
    /\ UNCHANGED <<born, enabled, process, writer, cloud, events>>

CliKilled(m) ==
    /\ writer[m].by = "cli" /\ Budget /\ writer' = [writer EXCEPT ![m] = Idle]
    /\ UNCHANGED <<job, born, enabled, process, cloud>>
=============================================================================
