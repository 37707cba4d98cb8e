# VTerminal in TLA+

Formal models of the parts of VTerminal whose correctness depends on the order
in which things happen: an engine task, an operator, a webview, a terminal and a
process that can die, meeting in a SQLite database and a handful of in-memory
registries. Paths below are relative to the repository root; `rs/` abbreviates
`src-tauri/src/`.

Five subsystems are modelled, each a set of modules with its own properties:
the **runbook run**, which types commands into a user's terminal on the strength
of an approval and promises never to repeat one; the **scheduled actions**; the
**agent run** and the panel that follows it; the **exit of the application** with
the PTY sessions it has to end; and the **ingestion of documents** into a
collection that several machines write to. The rest is inventoried below.

| file | what it is |
|---|---|
| `RunbookStates.tla` | status enumerations and transition tables (`rs/runbooks/state.rs`) |
| `RunbookDb.tla` | the durable rows of one run, one operator per SQLite transaction (`rs/runbooks/db.rs`) |
| `RunbookCoordinator.tla` | the in-memory `RunCoordinator` (`rs/runbooks/runtime.rs`) |
| `RunbookRun.tla` | the engine task and everybody who meets it (`rs/runbooks/engine.rs`, `rs/commands/runbooks.rs`, the registries of `rs/runbooks/runtime.rs`) |
| `DispatchContract.tla` | what a run promises about commands: the abstract specification |
| `RunbookProperties.tla`, `MCRunbookRun.tla` | properties, refinement mapping, instances |
| `RunbookTypes.tla`, `RunbookRunProofs.tla` | types of the rows and the run, the pending approval: theorems and proofs |
| `RunbookInvariants.tla`, `RunbookSafetyProofs.tla` | the inductive invariant of a run; its safety properties and its contract, proved |
| `ScheduleRules.tla` | when an action is due and what a tick decides (`rs/scheduled/recurrence.rs`, `scheduler.rs`) |
| `ScheduleLoop.tla` | the loop, its start and stop, rows of actions and runs (`rs/scheduled/scheduler.rs`, `db.rs`) |
| `ScheduledRuns.tla` | fires, the permit, headless and tab runs, the commands (`rs/scheduled/runner.rs`, `engine.rs`, `rs/commands/scheduled.rs`, `src/hooks/useScheduledActions.ts`) |
| `ScheduleContract.tla`, `ScheduledProperties.tla`, `MCScheduled.tla` | contract, properties, instance |
| `ScheduleProofs.tla` | safety properties and contract of the schedule, proved |
| `AgentRun.tla` | the backend's run and its registries (`rs/agent/run.rs`, `rs/commands/ai.rs`) |
| `AgentPanel.tla` | the panel, the operator, the terminal, events and calls (`src/hooks/useAiStream.ts`, `src/stores/appStore.ts`) |
| `AgentContract.tla`, `AgentProperties.tla`, `MCAgent.tla` | contract, properties, instance |
| `AgentProofs.tla`, `AgentContractProofs.tla` | safety properties of an agent run; its contract; proved |
| `PtySessions.tla` | spawn, kill, reader and back-pressure of terminals (`rs/pty/*`, `rs/commands/pty.rs`) |
| `AppExit.tla`, `ExitProperties.tla` | the exit coordinator, cleanup, restart, and what they must keep (`rs/app_exit.rs`, `rs/lib.rs`, `src/lib/sessionPersistence.ts`) |
| `ExitProofs.tla` | the theorems about terminals and the exit, and their proofs |
| `KnowledgeJobs.tla` | durable jobs, runner, writer lock, command-line tool (`rs/knowledge/ingest.rs`, `process_lock.rs`) |
| `KnowledgeIngest.tla` | one job from claim to end against the shared collection (`rs/knowledge/ingest.rs`, `qdrant.rs`) |
| `KnowledgeContract.tla`, `KnowledgeProperties.tla`, `MCKnowledge.tla` | contract, properties, instance |
| `KnowledgeProofs.tla` | that ingestion implements its contract, proved |
| `*.cfg` | the configurations TLC checks |
| `PROJECT.json` | components, runs, mutants, source map, findings, hazards, theorems |

Run `tlc -config X.cfg M` with the module named in `PROJECT.json` (`runs`), and
`tlapm M.tla` for each proof module: `RunbookTypes`, `RunbookRunProofs`,
`RunbookSafetyProofs`, `ScheduleProofs`, `AgentProofs`, `AgentContractProofs`,
`ExitProofs`, `KnowledgeProofs` (a few minutes each).

## Inventory

VTerminal is a Tauri application: a Rust backend and a TypeScript webview that
owns the terminals (xterm.js), with commands (webview to backend), events and
channels (backend to webview) between them. One SQLite database holds the durable
state, behind one mutex for the commands (each runbook engine opens a connection of
its own); a second one, `docs.db`, holds the documentation index and
the ingestion jobs. The components in bold are modelled, wholly or in part.

| component | state | operations | hard behaviour | what makes it correct |
|---|---|---|---|---|
| **Runbook run** `rs/runbooks/{state,db,runtime,engine}.rs`, `rs/commands/runbooks.rs` | run, step, attempt, approval and report rows; coordinator entry; the engine's checklist; one-shot registries for approvals, decisions, attestations, dispatch leases; cancellation watches | start, phases check/apply/verify, approve, decline, dispatch, claim, result, attest, retry/skip/waive/stop, cancel, resume, finalize, abort | three copies of one state moved in separate transactions; a crash between any two; cancel, timeout and answer racing; replayed events; a terminal that closes | no command without its own approval, none twice; no blind re-application; success only on evidence; one report that describes the rows; cancel ends the run |
| Runbook evidence and deletion `rs/runbooks/db.rs`, `rs/commands/runbooks.rs` | evidence rows and files, tombstones | reserve, promote, complete, reconcile, tombstone, purge | crash between a row and its file | a complete row has its file; a deleted run leaves neither |
| Runbook definitions, packages, drafts, authoring `definition.rs`, `package.rs`, `drafts.rs`, `authoring.rs` | registrations, snapshots, draft documents | validate, register, refresh, publish | optimistic revisions, hash-pinned snapshots | a run executes the snapshot that was approved |
| Runbook agent executor `agent_executor.rs` | a bounded conversation per phase | propose, observe, conclude | a model that proposes the wrong step or phase | a proposal is bound to the active step and phase |
| **Scheduled actions** `rs/scheduled/*`, `rs/commands/scheduled.rs` | actions with projected fire times, runs, step attempts; scheduler loop flag, run permit, cancel watches | tick, evaluate due, fire, skip, run now, attach tab, step begin/finish, run finish, cancel, edit, disarm, delete | loop stop/start race; a queued run outliving its action; tab watcher against late finish; crash between commit and launch | at most one fire per projected time; every run ends once; a cancel wins |
| **Agent loop** `rs/agent/run.rs`, `exec.rs`, `history.rs`, `compact.rs`, `policy.rs` | transcript, tool batch, checkpoints, permission modes, approval/steer registries | round, classify, ask, execute, steer, compact, cancel | approvals answered late; permission mode lowered while a command waits | every tool call has exactly one result; a denied command does not run |
| **PTY execution bridge** `rs/agent/pty_exec.rs`, `src/lib/ptyExec.ts` | pending one-shot per command, two deadlines | request, settle, drain | backend watchdog against the webview's late result | a completed command is not reported lost |
| **PTY sessions** `rs/pty/*` | sessions, outstanding bytes, shutdown flag, SSH autofill grant | spawn, read, ack, resize, kill | back-pressure with acks and shutdown | the reader always resumes or exits |
| **Knowledge ingest** `rs/knowledge/*` | durable jobs, runner-active flag, process lock, bucket revisions | enqueue, claim, drain, activate, cancel | enqueue against runner exit; two processes; staged Qdrant revision against activation | no queued job is stranded; readers see one whole revision |
| Documentation index `rs/docs/*` | buckets, files, chunks, derived FTS and vector tables | scan, replace, search, rebuild | staleness, derived tables rebuilt | derived tables match canonical rows |
| MCP `rs/mcp/*` | client connections, approvals, OAuth flows, sandbox guards | connect, call, approve, refresh | callback against timeout; process exit | a tool call has its approval |
| Models and downloads `rs/models/*` | catalog, registry, partial files | download, verify, probe | cancel and resume of a partial file | only verified artifacts are registered |
| Providers `rs/provider/*` | one loaded local model; streaming rounds | load, stream, abort | load against unload | one model at a time |
| Chat, archive, workspace `rs/database/*`, `rs/commands/{chat,chat_ai,archive,workspace}.rs` | threads, archived sessions, snapshots by generation | append, archive, snapshot, restore | late snapshot of an older boot | restore reads one generation |
| **Exit, restart, updates** `rs/app_exit.rs`, `rs/restart.rs`, `rs/commands/updates.rs` | exit phase and ticket, cleanup mutex, busy flag | begin, cancel, complete, watchdog | a webview reply for an old ticket against the watchdog | the clean marker only after the cleanup |
| Settings, credentials, SSH hosts, shell integration, vision, attachments, Windows support | key/value rows, OS vault, files | get, set, import | pure I/O for the most part | - |
| Webview `src/` | stores, terminal registries, streams | rendering, exit observation, live jobs | it is the other end of the backend's races | modelled from the backend's side |
| Vendored llama.cpp binding, MCP relay, `vterminal-docs` binary, site and scripts | - | - | - | outside the program's core |

### How the runbook run interacts

`runbooks_start` commits the rows and spawns one engine task per run. The engine
moves three copies of the run's state: the **rows** in SQLite, the **coordinator**
entry (checked before each dispatch; also the lock on a terminal session) and its
own **checklist**, from which the report texts and the `changed` flags are
written back. The operator's commands validate against the *rows* and answer
through one-shot *registries* the engine waits on; the webview receives
`RunInTerminal`, claims the attempt's *lease* once, types the command, and reports
its exit. `runbooks_cancel` reads the status, trips the run's watch, drops the
lease, and finalizes a run that no engine owns. When the process dies everything
but the rows is lost; startup makes active runs `interrupted`, and
`runbooks_resume` rebinds one to a terminal and spawns a new engine for it.

## Plan

Done, in the order of importance: the runbook run with its contract and liveness;
the scheduled actions with an abstract schedule; the exit of the application with the
PTY sessions; the agent run with its panel; the ingestion jobs; the disagreements with
the documentation, one run each. Every safety property and every contract that a
run checks is also a theorem; what is left to the runs is liveness.

What a next step would take up:

1. *Other executors of a runbook run*: goal checks, an agent phase with a provider
   (a bounded sequence of proposals, each through the same approval), the Ansible
   adapter, the memory of declined commands.
2. *Runbook evidence*: reservation, file promotion, reconciliation, tombstones.
3. *More theorems*: what the schedule's rules compute (`EvaluateDue` fires at most
   once for a missed stretch), and the invariant that a new executor would need.

## The models

### Runbook run

**State.** `db` is the record of rows (`RunbookDb!Database`): run status, per-step
status and `changed`, the cursor (`active`, `phase`), the latest attempt and its
approval, whether an apply of a step was ever started (`applyStarted`, that is an
apply attempt with `started_at`), and the report. An attempt ends before the next
is created, so older ones matter only through `applyStarted`. `coord` is the
`ManagedRun`. `eng` is the engine task: `pc` says between which two transactions
it is, `i`, `phase`, `result` are its locals, `list` and `chg` its checklist. `io`
holds the registries: a waiter or its reply for approvals, attestations and
decisions, the dispatch lease, the cancellation sender and its pre-cancelled mark.
`env` has the process, the terminal and the progress of `runbooks_cancel`. `hist` is
history: what was really typed and observed. No action reads it.

**Grain.** One engine action is one SQLite transaction with the in-memory work next to
it; that is where a crash or a command can be told apart. Each engine has a connection
of its own behind a mutex of its own (`open_engine_database`,
`rs/commands/runbooks.rs:3158`), so that a command may come between any two of its
transactions, those it makes under one hold of that mutex included (a decline, a
drift, the end of a phase, an abort). `runbooks_cancel` is three actions, because it
reads the status under the lock, releases it, signals, and takes the lock again. The
signal is one action: it trips the watch and drops the lease, two registries the
engine cannot tell apart, because it drops the lease itself when it sees the watch.

**Actions and code.** Names follow the functions: `Register`, `Launch`, `Probe`
(`prepare_durable_run`, `run_discovery`); `NextStep`, `BeginPhase`, `Dispatch`
(`execute_mode`, `run_phase`); `RequestApproval` to `Recheck` and `StartCommand` to
`CommandObserved` (`await_approval`, `execute_command`); `StartManual` to
`ManualObserved` (`execute_manual`); `TargetDrift` (`ensure_target`); `CompletePhase`,
`SettleRun`, `Assess`, `FailurePolicyApplies`, `Decided` (`complete_phase`, `run_step`,
`handle_failure`, `await_step_decision`); `FinishCancelled` to `Finalize` (`finish`,
`finalize_status_and_report`); `EngineError`, `Abort...` (`abort_with_report`). The
commands carry their own names. `PROJECT.json` maps each definition to its lines.

**What is abstracted.** Command text, summaries, evidence, risk and assurance
levels; wording of errors. Exit codes are the phase result they are mapped to.
Timeouts are nondeterministic: an approval or an attestation may time out at any
time it is unanswered; a dispatch lease first expires (`LeaseExpires`) and only
then can the engine's own, fifteen seconds longer, timeout fire.

**The report.** `finalize_run` assembles and validates the report in the transaction
that writes the terminal status, and rolls both back when the rows contradict each
other (`Reportable`, `CanFinalizeRun`): a step that is `already_compliant` and yet
changed is such a row. Where `finish` is refused the engine aborts; the abort's own
`finalize_run` is refused as well (`AbortRefused`), and so is that of a cancel: the
engine is gone and the run is `Stranded` in whatever status it had. What else
validation looks at, the availability of evidence, is not modelled.

**What is left out of the run.** Agent phases are modelled only without a model
provider (they fail on the spot); their conversation, the goal checks (`execute_goal`,
several commands in one phase) and the Ansible adapter are not. Neither are the memory
of declined commands, the feature switch (`cancel_all`, which acts on a run as a
cancel does), and a run without a database (used by tests only), nor a write that a
busy database refuses. `WrapUp` fuses the row updates at the end of a run; a crash
between them is followed by the same startup reconciliation. Past a probe's approval
request the discovery is unreachable, see below.

### Scheduled actions

`actions` and `runs` are the rows; `loop` is the scheduler task with the
`running` flag; the permit, the in-flight set and the cancel watches are the
registries of `ScheduledState`. A tick reads the due actions, decides for each
(`Nothing`, `Reschedule`, `Skip`, `Fire`), commits the new projected time
together with the run, and only then launches it; a crash may come between the
two. A headless run waits for the one permit, a tab run waits for the webview to
attach and report its steps. The webview asks whether the run is still active and
types a command in two steps (`AskBack`, `TypeStep`). A verdict is three statements,
each committed by itself (`rs/scheduled/db.rs:847`, `:865`, `:876`): the run, its
attempts, the status in the list. They share one hold of the mutex, so that only a
process that dies can come between them (`Ending`, `CutShort`); what it leaves is a
`torn` run, ended, with an attempt that stays `running` or a list that shows the
status before, and the startup reconciliation does not look at it, since it asks for
active runs (`RowsFound`). `scheduled_run_finish` is two steps, because it reads
the status and writes the outcome under separate locks; `scheduled_action_delete`
is two, because it releases the lock between cancelling and deleting. A refusal at
fire time and the uptime that ends a storm of restarts are nondeterministic. The
clock advances only while the loop sleeps (a busy loop finds it later, not
earlier). `did` and `era` are history: `did` has the steps that reached a shell;
`era` counts the reckonings of the wall clock, because a clock that is set back meets
its moments again. A row carries the reckoning its next fire was computed in, the
loop the one it looked in, and an occurrence carries both. The loop's own is
needed: a row saved again after the clock was set back, while the loop still
decides by its older reading, is decided in the new reckoning and, when the loop
returns, may be due at the same moment of that reckoning. One event of the run does
not reach this; the proof of `KeepsContract` did, and TLC confirmed it with three.

### Agent run

Two processes that share no state: the backend's run (`AgentRun`: the task's program
counter, transcript and budget, and the registries for mode, steering messages,
approval and command) and the panel (`AgentPanel`: what it follows, its card, its
command in the terminal). Events travel in order through `chan`; calls are a set and
arrive in any order. A call that is rejected comes back as a failed reply. A stop
retires the panel at once and sends `ai_cancel`. The transcript is the set of steering
messages it contains: their fate is what the panel reports. A command goes through
policy, mode, classifier, gate, the re-check after the gate, dispatch, and its
outcome; the watchdog may fire at any time, since the model has no clock, and a time
limit may also win over an answer that was already delivered (`GateCloses`,
`TerminalLost`). An answer of the model that says nothing (an output limit, a provider
without tool calls) ends the run, mail or no mail. Messages leave the transcript in
two ways, and both may drop any of them: compaction (`Compact`) puts a summary in the
place of older turns, and what a checkpoint stores is cut to the newest 60 messages
and 24 000 characters (`CheckpointOf`, `Trimmed`). What `SteersToldTruly` says of a
transcript is thus that it has no message but delivered ones, and all of them if
nothing was dropped. `taken`, `settled`, `clicked`, `seen`, `modes` and `smart` are
history. Left out: the wording of a summary, tool calls that are answered on the spot
and change nothing (searches, MCP calls, denied or malformed ones), the number of
calls in a round, the stand-alone subprocess target, commands edited by the operator,
the binding of an attested prompt. A busy terminal is one of the ways a preflight
fails.

### Exit and PTY sessions

`PtySessions` has a session per handle: created but in no map, registered, shutting
down, gone; a kill is verified or not; the reader stops above the high watermark and
resumes on acknowledgements or on its own poll. `AppExit` has the coordinator (phase,
ticket), the watchdog, the webview's persistence barrier, cleanup under its mutex and
the clean marker. Everything the user or the platform may do (kill, exit of a shell,
update, reload of the webview, destroyed window, imposed exit) shares one budget.
`unix` is the platform of the build, chosen at the start. On Windows a kill may come
back unverified, and a reader blocks in its read: it moves when the shell writes or
when the master is dropped, not when it is told to stop. On Unix, of which the model
takes macOS, every kill is verified, the reader polls every 250 ms, and the `Exit`
event has a cleanup of its own and a hard exit after two seconds. The handler of a
destroyed window empties the map under neither the admission lock nor the cleanup
mutex (`WindowDestroyed`, `rs/lib.rs:199`) and then kills one shell after the other
(`WindowKills`); a shell whose kill it could not verify loses its handle. A spawn that
fails after the child was started leaves a shell that the application never knew
(`FailLate`). The exit ends the process, and runs, sessions and events are exhausted,
hence `CHECK_DEADLOCK FALSE` in every configuration but the runbook's.

### Knowledge ingestion

A `job` row has a status and, in its payload, the revision it was given. A machine has
the setting, the runner's `active` flag, the runner task, and a `writer`: the process
that holds the operating-system lock with its place in a job, the desktop (`app`) or
the command-line tool (`cli`). Storing a row and waking the runner are two steps; so
are the last empty look at the queue, the release of the lease and the look after it.
A command may return an error between the two, and the look after the release may fail
without a word (`Unwoken`). The tool settles the rows of a dead process whichever
writing command it is given (`CliSettles`). `cloud` is one document of a Qdrant
collection: per revision, whether its points are absent, staged or active. Every
request is one step and may be refused, or carried out with its answer lost. A job's
progress writes go through `put_job`, which keeps a cancellation it finds. The
assumptions: a request whose client has given up is not carried out later; two clients
never draw the same revision (`allocate_remote_revision` says why this is unlikely,
not impossible); the pages of a head are read as one; a partial upload is a staged
revision.

## Checks

| run | instance | question |
|---|---|---|
| `step` | one step, four shapes; 2 crashes, 1 retry, 1 cancel | does one step keep every safety property, does a cancel end the run, does the engine come to rest? |
| `checklist` | two steps, `stop` and `continue`; 1 crash, 1 cancel | does one step leak into the next? |
| `scheduled` | a repeating headless action and a one-off in a tab; one gesture, crash or fault, switching on again free | is every occurrence run at most once, does every run end with one truthful verdict and free its slot? |
| `agent` | one run, three rounds at most, two pieces of work, one message, one stop, change of mode or of the terminal | does nothing run unasked, twice or beside another command, is the fate of a message told truly, does the run end? |
| `exit` | two terminals; shared budget of gestures and faults | does a quit end, decided once, with no shell left and the marker true? does a reader move? |
| `knowledge` | two machines, three jobs, two revisions; two gestures, crashes or faults | is the newest revision kept, is a completed replacement clean, is a queued job taken up? |
| `resumed_decision`, `discovery_probe`, `reconciled_step`, `stopped_run`, `cancelled_dispatch`, `scheduler_stops` | the smallest instance that shows it | the six disagreements below |

**Bounds.** Each configuration names them. For a runbook: two crashes let a resumed
run be interrupted again; one retry lets an apply be asked for twice; one cancel per
process life still meets both a live and an interrupted run. Checklists of one step
cover every shape of step; two are enough for one to inherit what another left. For
the schedule: two actions are enough to compete for the permit, and one repeats, so
that a slot is left for the next occurrence; `interval` and `once` are exercised, a
daily rule is not. For the agent: `MaxIterations` 1 and the hard cap of three rounds
let a message raise the budget to its cap; two commands, each plain, protected or
private, let one follow the other; three events and calls under way let each overtake
another; all numbers are what a second command, a second round or a late call needs to
meet the first. For the exit: one ticket is all the code issues (the coordinator never
returns to running), two terminals let one be created while another is killed. For the
jobs: two replacements on two machines take both orders of revision against start; one
fault and one retry or cancel fit in a behaviour; the third job competes for the lock
of the first machine.

**Properties.** The runbook run:

- `HonoursContract`: the run implements `DispatchContract`. The mapping takes *asked*
  from a pending approval row, *granted* from an approved one whose attempt has not
  started, *offered* from an unclaimed lease of a running attempt (with the
  engine's step and phase, so that rows and engine must mean the same command),
  *closed* from the run row. What is excluded: a second hand-over of a lease, a
  lease without its own approval, an approval surviving a crash, a run that ends
  with something still askable or typeable;
- `ApplyNeedsFreshCheck`: whatever was retried, resumed or reconciled, an apply
  reaches the terminal or the operator only after a noncompliant check of the step
  since its last change and in this process;
- `TypedApplyIsRecorded`: a typed apply is never forgotten, although the engine's
  copy of `changed` overwrites the column many times;
- `ReportDescribesRun`, `SuccessIsEarned`, `ChecklistInOrder`, `CopiesAgree`,
  `DecisionWillCommit`, `PendingApprovalHoldsRun`, `CancelEndsRun`,
  `EngineComesToRest`: stated and explained in `RunbookProperties.tla`.

The others each implement a contract of their own: `KeepsContract` (an occurrence
is accounted for once, an action has one open run, a verdict never changes),
`KeepsCommandContract` (one command at a time, asked for, cleared and typed once,
none by a panel that let go), `KeepsReplacementContract` (the newest revision stays,
what is completed stays clean, a job asked to stop only ends). Besides, in
`ScheduledProperties`, `AgentProperties`, `ExitProperties` and
`KnowledgeProperties`: whether the records tell the truth (`SuccessIsWhole`,
`ExecutedIsOnRecord`, `SteersToldTruly`, `MarkerNeedsBarrier`), whether anything is
left behind (`NoOrphans`, `HandleKept`, `NothingIsLeftBehind`), whether a decision
stands (`DecisionStands`), and what must happen (`SlotIsFreed`, `RunEnds`,
`QuitEnds`, `ReaderMoves`, `QueuedIsServed`). Each is stated in words there.

Each property is paired with a mutated definition (the `_Suffix` operators, "wrong
on purpose") that breaks it under the same configuration.

**Fairness** is always weak and only of what the code drives itself. Runbook: the
engine's steps (the runtime polls a ready task, its waits have timers), the expiry
of a lease (a timer), the rest of a `runbooks_cancel` that has started
(straight-line code). Nothing is assumed of the operator, the webview, the terminal
or the process, so `EngineComesToRest` ends in "gone, or waiting for a decision": a
decision has no timeout in the code. Schedule: the loop, the run tasks and their
timers, not the webview. Agent: the run's task (every wait of it has a time limit:
the provider's, the approval's ten minutes, the watchdog), the start, the delivery
of events and of each kind of call; not the operator, not the terminal. Exit:
cleanup, watchdog and reader, the kills of the window's handler, the end of the
event loop, and that a live webview acknowledges output (it does at
least once a second); that a write to a terminal ends is assumed. Jobs: the
runner, the wake-up that a command has begun, the job at work (each request has a
time limit). `QueuedIsServed` excuses a machine whose last runner gave up with an
error, or whose wake-up was lost with an error, and which was not woken since: the
code looks again only after a drain that did not fail. `CancelEndsRun` excuses a run
that no report can be made of (`Stranded`): it is the third disagreement.

## Disagreements

Each is a run that must find a violation; `findings` in `PROJECT.json` quotes the
text.

1. `resumed_decision`. A run resumed on an `unknown` or `paused` step asks for a
   decision, but only the coordinator is moved to `waiting_operator`; the run row
   stays `running`, and `runbooks_decide` refuses. The documented reconciliation
   cannot be answered; only a cancel or a restart gets out.
2. `discovery_probe`. Discovery asks for the approval of a command before any phase
   has begun; the coordinator refuses a request for a step that is not active, after
   the request was committed, and the run fails.
3. `reconciled_step`. After a retry of a step this run has changed, a compliant check
   still has to be verified; if the process dies between the two, the resumed engine
   takes `already_compliant` for final and goes on to the report. No report may say
   that a step was compliant and changed: `finalize_run` refuses, the abort that
   follows is refused, and so is a cancel. The engine leaves without having settled
   its run (`EngineSettlesRun`), and nothing settles it later.
4. `stopped_run`. A stop settles the step and puts the run row back to `running`
   until the report is stored; if the process dies in between, the resumed run
   passes over the failed step and executes the next one.
5. `cancelled_dispatch`. The last look at the cancellation watch is followed by a
   database transaction before the lease is registered; a cancel in between finds
   no lease to drop, and the command is offered after the cancel returned.

6. `scheduler_stops`. A loop that found the feature off leaves, and only then
   clears `running`; switching the feature on in between wakes the loop that is
   leaving, and nobody starts another.

Read while modelling, and not run: a target that drifts while the operator performs
a manual apply clears the step's `changed` flag, which is written from the
checklist's copy (`engine.rs:2261`; hence `TypedApplyIsRecorded` speaks of shell
applies, and `ReportDescribesRun` leaves that flag out); a process that dies inside
a decline leaves a row in `waiting_approval` with no approval pending, which
`persist_approval_decision` calls out for the approve path only; a cancel that read
`interrupted` and is overtaken by a resume settles the attempts of the new engine,
whose run then ends `failed`, not `cancelled`.

Of the other components, also read and not run:

- schedule: `set_run_status` writes the list's status "so the list view never
  disagrees with the run it points at" (`rs/scheduled/db.rs:874`), but in a statement
  of its own: a process lost before it leaves the disagreement, and an attempt
  `running` under an ended run if it was lost earlier (`ListAgreesWithRun` and
  `ExecutedIsOnRecord` say what holds otherwise); `scheduled_action_delete` cancels
  first so as not to leave an orphaned run in flight (`rs/commands/scheduled.rs:248`),
  but a run that is committed and not yet registered, or fired between the two locks,
  is not cancelled by it; a cancel "must win over a late success"
  (`rs/commands/scheduled.rs:663`), but loses between the check and the write;
- agent: a stop whose `ai_cancel` arrives before the run is registered is lost; the
  run goes on unwatched until its time limits, and nothing it asks for can be typed.
  A message accepted after the last look at the mailbox is reported undelivered;
- exit: below the high watermark a paused reader resumes by its own poll, whatever
  `rs/pty/session.rs:13` says of the low one; the cleanup at `RunEvent::Exit` does
  not take the mutex that `rs/app_exit.rs:66` says serialises all cleanup;
  `app_restart` writes the clean marker without asking the coordinator; `pty_write`
  holds the session map while a program does not read (`rs/commands/pty.rs:83`); a
  failing update rolls back the barrier while the clean end of a quit may still mark;
  the handler of a destroyed window takes the map away from a cleanup that runs beside
  it, which then verifies an empty one (`CleanQuitIsVerified` and `NoOrphans` leave
  those shells out), and on Windows it drops the only handle of a shell it could not
  kill (`HandleKept`);
- jobs: a drain that fails is not followed by a second look, so a job whose wake-up
  it absorbed waits for the next one; a command-line tool killed between storing its
  job and claiming it leaves a queued row that only the desktop's next wake-up
  takes up (`QueuedIsServed` speaks of the desktop's own jobs); a job whose activation
  is carried out but whose answer is lost is recorded as failed with its revision
  visible beside the older one, until it is retried;
  `knowledge_document_delete` refuses while a job of the document waits on its own
  machine (`ensure_remote_document_idle`), but not one of another machine: a job
  whose points it deleted after their verification still hides and purges every
  lower revision, one published since included, and leaves nothing to be found.

## Proofs

The runs find out whether a property holds on a small instance; the theorems say it
for every value of the constants. `PROJECT.json` lists them. Each inductive invariant
was first checked by TLC on a small instance; each theorem rests on
`Init => Inv`, `Inv /\ [Next]_vars => Inv'` and `Inv => Property`, with one lemma per
action or per kind of action. A contract is proved by its step: under the invariant,
every step of the detailed specification is a step of the contract or a stutter.

`RunbookRunProofs` proves, for every non-empty checklist, every set of definitions
and every bound:

- `TypeCorrect`: `Spec => []TypeOK`. `TypeOK` is not inductive: an action that moves
  the row of step `eng.i` needs that `eng.i` is a step, so `TypeInv` adds `InRange`
  (only the positions of the end of a run, `next`, `wrapUp`, `finalize`, `exit` and
  those of an abort, may be past the last step). `RunbookTypes` has lemmas for the row
  and coordinator operators (what a transaction returns is a `Database`), so that each
  action is a few lines;
- `GateHeld`: `Spec => []PendingApprovalHoldsRun`. The property is not inductive: what
  keeps the run row still while an approval is pending is where the engine is. `GateInv`
  adds that, while the process is up, an approval is pending only at the positions
  `approval` and `abort`, and that a dead process has no engine; so each other action
  either finds no approval pending or settles it (`GateFrame`, `GateEnds`, `GateOpens`).

`RunbookSafetyProofs` proves, under the same assumptions, every safety property of the
`step` and `checklist` runs and the contract:

- `RunInvariant`: `Spec => [](TypeInv /\ RunInv)`. `RunInv` (in `RunbookInvariants`) says,
  for each position of the engine, what the other copies of the state may hold.
  `RowInv`, `CoordInv` and `StepInv` tie the run row, the coordinator and the row of the
  engine's step to `eng.pc`, which is what keeps a command that meets the engine in the
  middle from finding a combination nobody wrote code for; `CopyInv` does the same for
  the three checklists, `AttemptInv` for the latest attempt, `EngineInv` for the locals.
  `ChangeInv` says that a typed apply is in `applyStarted` and, once the rows are
  restored, in the engine's `changed`, so that no later overwrite loses it.
  `OrderInv` says everything before the engine's step is settled and nothing after it
  begun. `LeaseInv` and `GrantInv` say where a lease, an attestation and an approval can
  be held at all. `EvidenceInv` and `EarnedInv` carry the last verdict seen of a
  target from the terminal to the row and from the rows to the report;
- `TypedIsRecorded`, `ReportStands`, `SuccessEarned`, `CopiesStayTogether`,
  `DecisionCommits`, `WorkedInOrder` (`TypedApplyIsRecorded`, `ReportDescribesRun`,
  `SuccessIsEarned`, `CopiesAgree`, `DecisionWillCommit`, `ChecklistInOrder`) follow
  from it, `NoBlindApply` (`ApplyNeedsFreshCheck`) by inspection of the steps that hand
  a command over;
- `ContractHonoured` (`HonoursContract`): a coordinated approval asks, an answer grants,
  `StartCommand` offers, the webview's claim takes, the ends of a run close; a crash, a
  decline or a timeout withdraws; every other step is a stutter.

An action of the engine has several ways through it; `OneStep` lists them as branches
without alternatives, `EveryStep` shows that there are no others, and each part of the
invariant is kept branch by branch.

`ScheduleProofs` proves, for any number of actions, runs, steps and events and any
plans:

- `ScheduleInvariant`, and from it `ScheduleTypes`, `ListFollowsRun`, `ExecutionRecorded`,
  `SuccessEarned`, `OneRunAtATime` (`TypeOK`, `ListAgreesWithRun`, `ExecutedIsOnRecord`,
  `SuccessIsWhole`, `RunningHoldsPermit`). Its parts: where the task and the tab of a run
  can be by its status (`Staged`), what its record says of the steps that reached a shell
  (`Recorded`), that success reported or written is a whole walk (`Earned`), that a task
  past the queue holds the permit (`PermitInv`), which rows the list points at
  (`ListInv`), that a run that ended without being torn has no attempt in progress
  (`ClosedInv`), and that run numbers are issued without a gap (`InOrder`), which makes a
  pass of the loop write to absent runs only. `ListFollowsRun` and `ExecutionRecorded`
  are about runs whose verdict no process loss cut short;
- `ScheduleContractKept` (`KeepsContract`). `PastInv` says why no occurrence is
  accounted for twice: as long as an occurrence's reckonings are current, the clock and
  the reading of the loop are not before its moment and the row's next fire lies
  after it, because every rule's next fire lies strictly ahead of the moment it was
  computed at (`NextFireLiesAhead`), whatever the anchor, the zone and the period.

`AgentProofs` and `AgentContractProofs` prove, for any number of rounds, commands,
messages and events, any ceiling and any commands put forward:

- `AgentInvariant`, and from it `AgentTypes`, `CommandsAreAsked`, `SteersTold`,
  `NothingLeft` (`TypeOK`, `NothingRunsUnasked`, `SteersToldTruly`,
  `NothingIsLeftBehind`). Where the one command in hand is: `CountInv` (the counters
  keep within their bounds), `GateInv` (an answer on its way or taken that says run
  belongs to the gate that waits, and was clicked if it asked), `VerdictInv` (what the
  classifier said), `TokenInv` and `TakenInv` (a command is with the gate, in an event,
  in the panel, in the terminal or in a result, never in two of them), `EndInv` (what
  remains after the run), `MailInv` and `ToldInv` (a message is in the mail, in the
  transcript, or in an event or call that will tell its fate);
- `CommandContractKept` (`KeepsCommandContract`): by the invariant only the newest
  gate's command can be asked, cleared or offered, so that each step moves one
  command of the contract or none.

`ExitProofs` proves, for any number of terminals, tabs, failed kills and events (the
run has two terminals and one of each), every safety property of the `exit` run:

- `ExitTypes`, `HandlesKept`, `NothingOrphaned`, `CleanMeansVerified` (`TypeOK`,
  `HandleKept`, `NoOrphans`, `CleanQuitIsVerified`), from one inductive invariant
  `IInv` in three layers. `RowInv` is about one terminal: a handle that was never made
  or was dropped belongs to no running shell, a kill that was not verified has set the
  stop flag. `FlowInv` is about the coordinator: the commit's cleanup is idle until
  the quit is committed, and done when the exit is clean. `SweepInv` is why a cleanup
  means anything: the mutex admits one path beside the run loop's (`MutexInv`), each
  shuts the gate before it takes the map (`GateInv`), so that once a map was taken
  nothing opens and every shell that runs was told to stop, is in the hands of a path
  that kills or of the window's handler, or was leaked by its spawn (`HeldInv`,
  `SweptInv`); without the run loop's own cleanup nothing is put back meanwhile, so
  that all that survives a finished path was told to stop (`StopInv`) and nothing
  survives a verified one (`QuietInv`), with the same two exceptions. Steps come in
  three kinds, those that leave the terminals alone (`Onward`), those of a terminal
  (`Beside`) and the four of a cleanup, with one lemma each;
- `DecisionKept` (`DecisionStands`), by inspection of every action;
- `BarrierFirst` (`MarkerNeedsBarrier`): the marker is not enough, the barrier was
  passed already wherever a quit is committing or cleaning and an update installs or
  restarts (`BarrierInv`).

`KnowledgeProofs` proves, for any number of machines, jobs, revisions and events:

- `IngestInvariant`: `KnowInv`. `LockInv` and `WorkInv` say who works and that the row of
  its job is running or cancelling from the claim to the end; `RevInv` that no two jobs
  share a revision; `OwnInv`, `StagedInv` and `HeadInv` what a job at each stage knows
  about the shared points although other machines write to them (nothing is hidden but
  under an active revision above it); `ClearedInv` that below a completed revision no
  point is active and no job past its last look at the head can still make one so;
- `ReplacementKept` (`KeepsReplacementContract`): an activation publishes or stutters,
  hiding and purging retire, allocation and the moves of rows are the contract's.
  That the newest visible revision stays (`TopStays`) and that nothing older returns
  below a completed one (`ClearStays`) are lemmas of their own.

**Assumptions.** `NumStepsAssumption`, `DefinitionsAssumption`, `ScheduleAssumption`,
`PlanAssumption`, `RunAssumption`, `PanelAssumption`, `TerminalAssumption` and
`KnowledgeAssumption`: types of the constants and what validation refuses before a
plan or a definition is saved. TLC evaluates them in the runs.

**Model-checked only**: the liveness properties (`CancelEndsRun`, `EngineComesToRest`,
`SlotIsFreed`, `RunEnds`, `QuitEnds`, `ReaderMoves`, `QueuedIsServed`), because liveness
under fairness and `ENABLED` are out of the prover's reach; and the six
disagreements, which are counterexamples. No recursive definition is proved about.

## Not modelled

See `components` in `PROJECT.json` for each part and the reason.

- *Runbook evidence and deletion*: rows and files written in turn, with tombstones
  and a startup reconciliation. They share no state with the run but the rows, and
  are the first thing to add; their two hazards are listed without a property.
- *Other executors of a runbook run* (agent phase, goal checks, Ansible): each
  command of theirs passes the approval and dispatch that are modelled; the
  conversation that proposes it is not.
- *Schedule*: creating and validating an action, missed-run notices, history pages,
  the calendar arithmetic of daily rules over the time-zone library.
- *PTY*: SSH autofill and the writing itself; *exit*: Windows' hook before an
  installer, the shutdown of MCP servers, the wait for background work, the
  removal of attachments.
- *Knowledge*: deleting or editing a document from the collection's page, changing or
  removing a connection (its jobs fail under the same lock), chunking, embedding, search.
- *MCP, providers, models and downloads, chat, archive and workspace, definitions,
  packages and drafts, settings*: validation, protocol data or I/O over one
  transaction each; what is concurrent in them (an OAuth callback against its time
  limit, a load against an unload, a partial file) is not modelled yet.
- *Time*: no model measures it. A deadline that may pass is a step that may be
  taken; the order of two deadlines is kept where the code fixes it.
