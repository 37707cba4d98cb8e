------------------------ MODULE KnowledgeProperties ------------------------
(***************************************************************************)
(* What ingestion must keep, across machines and interruptions.            *)
(***************************************************************************)
EXTENDS KnowledgeIngest

PhaseOf ==
    [none |-> "absent", queued |-> "open", running |-> "open", cancelling |-> "stopping",
     completed |-> "done", failed |-> "undone", cancelled |-> "undone"]

Contract == INSTANCE KnowledgeContract
    WITH visible <- In("active"),
         ledger <- [j \in Job |-> [phase |-> PhaseOf[job[j].status], rev |-> job[j].rev]]

\* Any number of machines, each with its own jobs, implement the contract of
\* one document: the newest published revision stays to be found whatever
\* older jobs do late, a job recorded as completed left no older revision
\* behind and none comes back, jobs never share a revision, and a job that
\* was asked to stop only ends (resolve_remote_revision, the reads before and
\* after activation, the filters on lower revisions, put_job, finalize_job).
KeepsReplacementContract == Contract!Spec

\* A job the desktop queued is taken up, or its machine's feature is off, or
\* an error (of the drain, of its second look, or of a command before its
\* wake-up) has left no runner and nobody has woken one since: a wake-up that
\* finds the runner still marked active is not lost (wake_job_runner's second
\* look after releasing its lease).
QueuedIsServed ==
    \A j \in Job \ Headless :
        job[j].status = "queued" ~>
            (job[j].status # "queued" \/ ~enabled[Home[j]] \/ runner[Home[j]] = "dead")
=============================================================================
