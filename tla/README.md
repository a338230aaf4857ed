# A verification project for the Enoch control plane

Enoch runs autonomous research: ideas become queue rows, the control plane
dispatches a row to a worker, the worker runs an agent in a process group of its
own, a wake gate next to it notices when the run is really over, callbacks carry
the result back, and decided projects become follow-up runs or papers that are
released to public repositories.

This directory holds TLA+ models of the parts of that system where steps of
several processes interleave, are lost, repeated or cut short, the TLC
configurations that check them, and proofs for the properties that matter most.

## Inventory

| Component | State it keeps | Operations | What is hard | What makes it correct | Module |
| --- | --- | --- | --- | --- | --- |
| Execution ledger (`control_plane/supabase_store.py`, `store.py`, `router.py`) | `queue_items`, `runs`, `control_events`, `control_flags` in Postgres or SQLite | claim, prepare, post, mark started, release, record callback, reconcile, pause, resume, mark paused | one store lock per block and several blocks per request; POSTs that time out; restarts; callbacks late, repeated, concurrent | one active row per lane; a row settled by its own run only; success final; nothing active for ever | `QueueLedger`, `DispatchLease` |
| Wake gate (`app.py`, `gate.py`, `state_store.py`, `process_tracker.py`) | one JSON record per run, evaluator tasks | dispatch, idle detection, quiet window, readiness, timeout, retry, reconcile loop | coroutines that load a record, await, and save what they loaded | ready only after a full quiet window; no success for a failed run; every run reported | `WorkerGate` |
| Callback outbox (`callback_outbox.py`, runner script) | payload files: pending, claimed, delivered, dead | write, claim, deliver, retry, replay, dead-letter | runner and gate replay the same files, either may die at any step | a payload is delivered or set aside, never lost | `CallbackOutbox`, `DurableCallback` |
| Paper pipeline (`router.py`, `supabase_store.py`, `paper_writer.py`) | `papers`, review rows, draft artifacts, manifests | draft, backfill, rewrite, finalize, claim, change status, answer | read in one block, files written in between, write in a later block; repeated calls | nothing finalized without a package; decided reviews stay decided; no answer lost; no paper on record without its artifacts | `PaperPipeline` |
| Corpus import autopilot (`deploy/enoch_corpus_import_autopilot.py`) | git repositories, `corpus_imports` | dry run, preflight, import, rebuild, validate, commit, push, sync | a oneshot process that dies anywhere, an importer that chooses again, pushes that fail | nothing unchecked is released; the ledger names committed papers; repositories agree | `CorpusRelease` |
| Research autopilot, decision gate, follow-ups (`router.py`) | `research_candidates`, admissions, `project_decisions`, `followup.launch` events | plan, janitor, generate, promote, launch, dispatch, refill | acts on what was read at the start of a long cycle, beside other cycles and the operator | bounded chains and queues; promoted once; nothing that has run queued again | `ResearchCycle` |
| Queue alert check and pump (`alerts.py`, `deploy/enoch_queue_alert_check.py`) | alert events, a cooldown file | observe, reconcile, judge, page, check readiness, pump | rows, workers and dispatches are read at different moments; two checks at once; pages that fail | healthy work is not paged about; what stays wrong is; the queue is worked off | `QueueWatch` |
| Snapshot import and idea intake (`supabase_store.py`) | queue rows of external projects | import snapshot, upsert ideas | row by row beside dispatch, on snapshots that are old | a live run keeps its row, a worker one run | `Intake` |
| Control flags and maintenance (`scripts/enoch-maintenance-*.sh`, pause and resume endpoints) | `control_flags`, systemd timers and services | pause, stop and disable timers, look, resume, rearm, look | flags, timers, rows and processes are changed and looked at in separate steps, beside dispatches and a second operator; exit statuses discarded | a report of success is true and stays so until somebody undoes it | `Maintenance` |
| Enoch core (`enoch_core/`) | events and snapshots of ideas | intake, triage | idempotency keys | one effect per key | not modelled |
| Safe restart of the gate (`deploy/wait_safe_restart_wake_gate.py`) | none | poll until nothing lives, restart | a dispatch in between; a gate that is never quiet | restarts while nothing lives; under a hold it does restart, unless a record never stops being live | `Maintenance` |
| Read models, quality, lineage, signals | none | project rows to views | -- | views agree with rows | not modelled |

How they interact. The control plane calls the worker over HTTP (`/dispatch`,
preflight); the worker and its runner call back with `GateCallback`s through the
outbox. Timers run the alert check, the research cycle, the paper drain and the
corpus autopilot as processes of their own against the control plane; the
operator pauses, resumes, claims, promotes, dispatches and marks rows. All of
them meet in the rows of the execution ledger, which no two of them lock
together.

## Modules

| Module | What it is |
| --- | --- |
| `QueueLedger` | the execution ledger with every process that writes it |
| `DispatchLease` | what the ledger promises about worker lanes, as a specification of its own |
| `WorkerGate` | the wake gate of a worker, its runner and the shared run record |
| `CallbackOutbox` | the files of one callback and the processes that deliver it |
| `DurableCallback` | what the outbox promises: written, held, settled |
| `PaperPipeline` | one paper from its draft to its finalization package |
| `CorpusRelease` | ticks of the corpus import autopilot over the release repositories |
| `ResearchCycle` | cycles that generate, promote, follow up and dispatch |
| `QueueWatch` | the alert check, its pages and the queue pump |
| `Intake` | imports and intakes beside dispatchers |
| `Maintenance` | holding the automation, letting it go, restarting a gate in between |
| `MCQueueLedger`, `MCCallbackOutbox`, `MCPaperPipeline`, `MCResearchCycle`, `MCQueueWatch`, `MCIntake`, `MCMaintenance` | values for TLC |
| `QueueLedgerProofs` | the ledger under every disturbance; the lane lease: ownership, exclusion, refinement of `DispatchLease`; live runs and recorded successes |
| `WorkerProofs` | the worker's side: quiet window and one voice of the gate, attempts and durability of the outbox |
| `PaperPipelineProofs`, `CorpusReleaseProofs`, `ResearchCycleProofs` | the safety properties of these modules |
| `QueueWatchProofs` | pages once, and not about healthy work |
| `IntakeProofs` | live runs keep their rows and workers have one, beside imports |
| `MaintenanceProofs` | the reports of the stop and resume scripts |

Names of the outbox carry a prefix (`OutboxSpec`, `OutboxTypeOK`, ...) where the
gate has the same ones, so that `WorkerProofs` can extend both.

In most modules a variable (`hazards`, `overlap`, `setup`, `exposed`) is chosen in
the first state and never changes: it says what the behaviour is exposed to. One
run so covers several scenarios, and a property that holds only where, say,
requests do not overlap says so itself. Hazards are things the environment, the
operator or the timer does; the code modelled is the same in all of them.

### QueueLedger

The store holds a process-wide lock around each `with _connect()` block, and
endpoints are synchronous functions of a thread pool. One block is therefore one
action, and a request is as many actions as it has blocks.

| Code | Actions |
| --- | --- |
| `_execute_live_dispatch`, one dispatcher per run id | `Admit`, `ClaimDispatchCandidate`, `ClaimRefused`, `PreflightOk`, `PreflightFails`, `Prepare`, `PostDispatch`, `DispatchFails`, `ReleaseDispatchClaim`, `MarkDispatchStarted` |
| `record_worker_callback`, one handler per request thread | `BeginCallback` (replay check, row snapshot and decision), `Recheck`, `ApplyCallback`, `RecordIgnored` |
| `_auto_reconcile_stale_callback_ready` | `ObserveWorker`, `PlanReconcile`, `ReconcileReplayed`, then an ordinary callback |
| `pause`, `resume`, `mark_queue_item_paused` | `Pause`, `Resume`, `MarkQueueItemPaused` |
| a restart of the control plane | `Crash`: requests are gone, the database is not |
| the worker, seen from the control plane | `WorkerAccepts`, `WorkerRejects`, `WorkerEnds`, `Emit` |

State: `queue` is `queue_items` (status, current run, last run state), `manual`
its `manual_review_required`, `runs` and `recorded` the run rows and callback
events, `flags` the control flags, `observed` the cached preflight of a lane.
`dispatch`, `handler` and `plans` are what request threads remember between two
blocks; that is where the hazards are. A callback already delivered may be
delivered again at any time, by any handler, in any order.

`Disturbances` names what an instance is exposed to: `early_callback`,
`lost_response`, `late_arrival`, `mark_paused`, `auto_reconcile`,
`hasty_reconcile`, `cached_observation`, `hold`, `crash`. No TLC run enables
`hasty_reconcile` or `cached_observation`; the theorems that hold under every
disturbance cover them.

### WorkerGate

One run, whose JSON record has four writers. Coroutines interleave at awaits
only, so that the code between two awaits is one action; the runner is a process
group of its own and interleaves anywhere.

| Code | Actions |
| --- | --- |
| `/dispatch` handler (`app.py`) | `Spawn`, `PersistRunRecord` |
| runner script and `write_pending`, `deliver_pending_file` | `RunnerEnds`, `RunnerWrites`, `RunnerReads`, `RunnerMarks`, `RunnerDelivers`, `RunnerFindsItClaimed` |
| reconcile loop | `ReplayDelivers`, `ReplayFails`, `ReplayIdles`, `ReplayReads`, `ReplayMarks`, `ListRuns`, `Reconcile` |
| `_evaluate_until_ready` | `LoadRun`, `PostRecorded`, `RetryReady`, `RetryOk`, `RetryFails`, `TimeOut`, `TimeOutSent`, `EvaluateNothing`, `EvaluateActive`, `EvaluateWaiting`, `EvaluateReady`, `AnnounceOk`, `AnnounceFails` |
| time, other processes, systemd | `Expire`, `VisitorArrives`, `VisitorLeaves`, `Restart` |

The record is abstracted to its gate state, its `idle_seen_at`, its
`last_idempotency_key` and the number of its quiet samples. `listed` and `held`
are the copies the loop and the evaluator write back after an await, `note` the
copy a writer of the outbox has read. `calm` is history: the samples really
taken without activity, which no stale copy can restore.

That the control plane records a POST of the evaluator (`PostRecorded`) and that
the evaluator saves the key (`RetryOk`, `TimeOutSent`, `AnnounceOk`) are two
steps, between which the answer may be lost, the service restart, or the
evaluator be replaced (in `EnsureEvaluator`). A failed POST from the outbox
leaves the callback held or sets it aside (`KeepOrSetAside`): `CallbackOutbox`
has the count of attempts, `WorkerGate` its outcome.

### CallbackOutbox

The pending and the claimed file carry the attempt count and whether the retry
is due; the delivered and the dead-letter copies are booleans. A deliverer goes
through `Claim` or `AlreadyClaimed`, `Read` or `ReadNothing`, `Post`,
`WriteDelivered`, `DeadLetter` or `WriteRetry`, and `Unlink`; it may die between
any two. `overlap` says whether a deliverer may start while another is at work:
runner, gate and the operator's command line do not exclude each other, so the
code runs with overlap; without it is the best case, in which the promise is
kept.

`WorkerGate` contains the outbox as four states (none, held, delivered, dead) and
`QueueLedger` contains worker, gate and outbox as `Emit` with redelivery.

### PaperPipeline

One paper, seven kinds of request, any number of attempts of each call. A block
of the store is one action; so is the writing of the five artifacts, completed
(`WriteDraft`, `WriteRewrite`) or cut short (`WriteDraftFails`,
`WriteRewriteFails`, and `Crash` during either).

| Code | Actions |
| --- | --- |
| `draft_next` and the review backfill | `BeginDraft`, `WriteDraft`, `RecordDraft`, `BeginBackfill`, `Backfill` |
| rewrite of a draft, single or by batch | `BeginRewrite`, `SnapshotArtifacts`, `WriteRewrite`, `RecordRewrite`, then finalization |
| a rewrite that fails | `WriteRewriteFails`, `RecordRewriteFails`, `RestoreArtifacts` |
| finalization package | `BeginFinalization`, `ReadForFinalization`, `WriteManifest`, `CommitFinalization`, `FinalizationFails` |
| claim, status, checklist | `BeginClaim`/`Claim`, `BeginStatusUpdate`/`StatusUpdate`, `BeginAnswer`/`Answer` |
| failing reads and writes, restart | `WriteDraftFails`, `DraftFails`, `FinalizationReadFails`, `ReviewWriteFails`, `Crash` |

`request` is what a request thread has read and not yet acted on. `files` says
what the artifacts are: none, some of a draft cut short (`part`), all of one
draft or of several (`draft`, `patched`), those of a rewrite, or `mixed` when some
are a rewrite's and some older. Only a rewrite sets aside and puts back what it
found. A draft without force passes over each file that exists
(`paper_writer.py:179`), and so completes what another one left. `manifests` are the
finalization manifests on disk and `events` the idempotency keys in
`control_events`.

### CorpusRelease

A tick is one oneshot process, so that its steps are sequential, and what can
come between two of them is its end (`Crash`), the operator (`Hold`, `Repair`)
and the control plane (`Finalize`). Its steps are those of `main` and
`_execute_live_corpus_import`: `BeginTick`, `DryRun`, `Preflight`, `LiveImport`, `Rebuild`,
`Validate`, `CommitRepo`, `CommitsDone`, `PushRepo`, `PushesDone`, `SyncLedger`,
and the failing `DryRunFails`, `RebuildFails`, `PushFails`. A repository is three
sets of papers: worktree, last commit, remote. The importer is external: it adds
up to `Limit` finalized papers of its choice, and may choose others in the
preflight than in the live import.

### ResearchCycle

| Code | Actions |
| --- | --- |
| run-cycle endpoint: plan | `BeginCycle` (active rows), `Plan` (janitor, queue, backpressure) |
| dispatches of a cycle | `Dispatch`, `DispatchRefused`, `DispatchFails`, `Dispatched`, `Refill`, `EndCycle` |
| follow-ups | `ReadFollowup`, `LaunchFollowup`; the decision that allows them `RecordDecision` |
| generation and promotion | `Generate`, `Select`, `Promote` |
| worker, operator | `Complete`, `Requeue`, `OperatorPromotes`, `OperatorLaunches`, `OperatorDispatches` |

`cycle` is what a cycle has read: lanes that were busy, rows each lane lacked,
the lane to generate for, the follow-up parent. `ledger` has of each candidate
its status, its latest admission, whether that names an idea, and the
idempotency keys used. A project is a candidate and its place in the chain of
follow-ups, so that a follow-up has one identity, as its id derived from the
parent has in the code. Claiming a lane is one step here; that it behaves so is
the subject of `QueueLedger` and `DispatchLease`.

### QueueWatch

| Code | Actions |
| --- | --- |
| `enoch_queue_alert_check.py`, by timer | `StartTick`, the check, `ReadinessOk`, `ReadinessPaged`, `ReadinessPushFails`, then the pump |
| alert check endpoint, by timer or operator | `ReadRows`, `Observe`, `AutoReconcile`, `Evaluate`, `AppendAlert`, `PushOk`, `PushFails`, `Answer` |
| `_execute_queue_pump` | `PumpRests`, `PumpDrafts`, `PumpDispatches`, `PumpWaits`, `PumpLaunches`, `LaunchedDispatches` |
| rows, workers, operator | `Enqueue`, `OtherDispatch`, `WorkerStarts`, `WorkerEnds`, `ReportRun`, `Vanish`, `Detach`, `Hold`, `Resume` |
| time | `Quiet`, `Expire` (race grace), `Grow` (hang threshold), `NewBucket`, `CoolDown` |

`check` is what a check has read: rows, workers, flags, and the key of the page
it is about to send. Time is abstract: a grace period may end at any moment that
the durations in the configuration allow, so `Expire` waits for a status being
read and `Quiet` for a report unless the hazard says otherwise.

After an auto-reconciliation the check reads the rows again, but not the workers
(`router_http_bindings.py:2978`, `refresh_worker=False`); `replayed` says that a
check has done so, and that its rows are newer than its view of the workers.

What `RawFindings` computes is dropped where a dispatch explains it (`Excused`) or
where a lane is settling, its run over and its row gone (`HeldBack`,
`alerts.py:850`). The second looks at the words of the finding and of the lane's
role, which `setup.role` abstracts: `gpu` for a default lane that is a named
target, `other` for one that is only the configured default. `Conflict` is the
default lane's own finding of live work without a row.

### Intake

| Code | Actions |
| --- | --- |
| snapshot import, idea upsert | `TakeSnapshot`, `SubmitIdeas`, `Begin` (the event), `ReadRow` and `WriteRow` per row, `Commit`, `Rollback` |
| dispatch, for what intake can do to it | `Select`, `Claim`, `ClaimRefused`, `PreflightOk`, `PreflightRefused`, `Post`, `MarkStarted` |
| worker | `EndRun`, `ReportRun` |

A transaction reads committed rows; what it has written is locked for others
until it ends, and the unique index on the dispatching row of a lane
(`supabase/migrations/20260505233844`) rejects or delays a write
(`Duplicate`, `MayDuplicate`).

`updated` is a row's `updated_at`, as the number of its version: `stamps` counts
the versions of a project, every statement that writes its row gives it the next
one (`Stamped`), and a dated snapshot carries the number it was exported with. An
import passes over a row that is older than the stored one (`Older`).

### Maintenance

| Code | Actions |
| --- | --- |
| `enoch-maintenance-stop.sh` | `StorePause`, `StopTimers`, `DisableTimers` (the request), `Sweep`, then `ReadFlags`, `ReadRows`, `ReadEnabled`, `ReadActive`, `CheckWorker` per worker, `ReportStop`; `Abort` |
| `enoch-maintenance-resume.sh` | `CheckActive`, `StoreResume`, `EnableTimers`, `RestartTimers`, `KickServices`, then `ReadFlags`, `ReadEnabled`, `ReadActive` |
| an operator at the dashboard | `StorePause` to `DisableTimers`, `StoreResume` to `KickServices` |
| dispatches | `Admit` (flags read), `Claim`, `ClaimRefused`, `DispatchFails`, `Release`, `GiveUp`, `SpawnRun`, `PersistRunRecord`, `RunEnds`, `Settle`, `Strand`, `Supersede` |
| systemd | `TimerFires`, `ServiceEnds` |
| `wait_safe_restart_wake_gate.py` | `StartWatch`, `FetchDashboard`, `ListProcesses`, `RestartService` |

`at` is the step each operator has reached, `sound` whether everything a script
has looked at so far was right, `job` one dispatch per thread: its step, whether
an operator let it past the hold, and whether its row is active. A call of
systemctl gets to all units it names, or under `systemctl` to any of them. The
claim, the gate and its callbacks are the ledger's and the gate's in few steps;
what they add here is the time between reading the flags and having a row, and
between having a process and having a record. A `stranded` job is one whose record
stays live although its run has been reported: `ReadyConfirmed` of `WorkerGate`
says when. Only a newer record of the same project hides it (`Supersede`).
`unseen` and `undisturbed` are
history: which dispatches had nothing to show when the script looked, and
whether another operator has been undoing what a script did.

## Runs

| Run | Instance | What it shows |
| --- | --- | --- |
| `ledger_faults` | one lane, two projects; lost and late POSTs, early reports, pauses, marked rows | hand-off stays exclusive, completed rows are backed by a recorded success, a dispatch that failed leaves nothing active |
| `ledger_restart` | one lane, three runs, two handlers; lost responses, a restart | a dispatcher owns its claim, rows and runs agree, one live run per worker, the ledger implements `DispatchLease` |
| `ledger_live` | one lane, lost responses, a restart, alert check, fairness | live runs are not reconciled away, a recorded success is final with one handler, no row is active for ever |
| `gate` | four regimes: outage with callbacks set aside, lost responses, visitor, slow reaping, expiry, early end, two restarts or replaced evaluators; fairness | a full quiet window before a run is called ready, one voice per run, no success for a failed one, every run reported or set aside, no ready record unconfirmed but for one whose answer was missed |
| `outbox` | runner and two replayers, one death, with and without overlap, fairness | set aside only after the last attempt; without overlap `DurableCallback` is implemented and every callback settled |
| `papers` | seven calls, two threads; undisturbed, failures, crashes, overlap | `PackageBacked`, `AnswersKept`, `ArtifactsAccounted`, `TerminalFinal` |
| `corpus` | three repositories, three papers of which one may be defective, four sets of options, four of hazards; fairness | `ReleaseChecked`, `LedgerCommitted`, `SurfacesAgree`, `LedgerKept`, `PapersRecorded` |
| `research` | two lanes, three candidates, two cycles, five scenarios | `ChainsEnd`, `QueueStaysShallow`, `PromotedOnce`, `NoRevival` |
| `watch` | two lanes, timer and operator, eleven scenarios; fairness | `NoFalseAlarm`, `PagedOnce`, `ProblemsPaged`, `PumpProgress` |
| `intake` | two projects, two lanes, two dispatchers, two requests, five scenarios | `LiveRunKept`, `WorkerExclusive` |
| `maintenance` | two units, two dispatches on one of two workers, the scripts, an operator and the watch on one gate, eight scenarios; fairness | `StopIsQuiet`, `ResumeIsArmed`, `HoldLetsRestart` |
| `ledger_success_lost` | no disturbance, two handlers | **violated** `TerminalSuccessFinal` |

`CHECK_DEADLOCK FALSE` stands everywhere: the instances are bounded, and a
ledger whose runs are used up, an outbox whose callback is settled, a paper whose
calls are all answered, or a queue that is worked off, stops.

### Bounds

- Ledger: two projects contend for a lane; one project has a second run id where
  a released row is to be claimed again. Two handlers are enough for two
  overlapping decisions on one row. `MaxCrashes` is one. The signals are one
  success and one failure of different sources: what the ledger distinguishes of
  a callback is its class and its key. `ledger_restart` treats its two handlers
  as interchangeable, which they are: no definition names one. Restarts are left
  out of `ledger_faults` for its size; the theorems about its properties include
  them.
- Gate: `Window` 2 is the least window a stale copy can fill wrongly (one sample
  from before an activity, one from after). `MaxStamp` 2 allows a second idle
  stamp after the first. `MaxInterrupts` 2: a restart or a replaced evaluator may
  strand a record, and a second one may meet what the first left. One regime
  loses no answers, so that `ReadyConfirmed` is checked there without its
  exception.
- Outbox: `MaxAttempts` is 3 (50 in the code): first, middle and last attempt
  differ. Two replayers and the runner; one death, at any step, which leaves two
  that take over.
- Papers: one call of each kind, and one that asks for a status the endpoint
  always refuses. Two threads, so that two requests, or two attempts of one call,
  meet in every pair. Papers share no row and no file, so one is enough.
- Corpus: two repositories beside the corpus, so that a tick can die between
  their commits; three papers at two per tick, so that a second tick is needed
  and preflight and import can choose differently.
- Research: two candidates compete for a lane, a third has its own; `MinDepth` 1
  and `MaxPromotions` 2 make lanes both short and full; `MaxDepth` 1 gives chains
  an end a wrong depth oversteps; `MaxClaim` bounds the depth a worker may claim
  and `MaxBatch` one generation, which is repeated. Overlapping calls get one
  candidate.
- Watch: the default lane and another, because they are treated differently; one
  job or two, one paper, one follow-up, one hold, one check by the operator. The
  default lane is a named target or not. Two lanes show two of the three mistakes
  `NoFalseAlarm` names (see below); the last takes a third lane, which makes the
  liveness properties too slow for a routine run. The theorems about safety are
  for any number of lanes.
- Intake: two projects on two lanes that intake may exchange, two requests that
  meet, two or three claims. Dispatchers are interchangeable: no definition names
  one, and the run has no liveness property that symmetry could spoil.
- Maintenance: one unit that dispatches and is in every list, one that only the
  stop script and the endpoints name; a list's other units behave like one of
  these. Two dispatches that meet on the lane of one worker, and a second worker
  that is looked at before or after it; three operators, of which a scenario
  exposes two. Each hazard is in a scenario with what it disturbs; the theorems
  have them all together.

### Fairness

- Ledger: a request that has started runs to its end, the worker answers what it
  received and its runs end, deliveries are handled, the alert timer keeps
  firing. Neither a report of the worker nor any act of the operator is assumed:
  `ActiveSettles` rests on the alert check alone where the worker stays silent.
- Gate: coroutines are resumed, the runner's processes go on, the wait elapses,
  visitors leave or are reaped. Strong fairness stands where the code tries again:
  the replay's POST, which ends in a delivery or in the dead letters after the
  last attempt (`EventuallySettled` of `CallbackOutbox`); the evaluator's, which
  the control plane records and answers some time unless it refuses it; and a
  sampled machine, which is found quiet. A refused POST is not made to succeed,
  and nothing makes a run end.
- Outbox: deliverers that live go on, time passes, the gate's loop picks files
  up. No POST has to succeed.
- Corpus: a tick that runs goes on; the timer finds the control plane open again
  and again (`PapersRecorded` says `held` where it does not). No push and no
  finalization has to happen.
- Watch: the timer's process and requests run to their ends, grace periods,
  buckets and cooldowns pass, workers start what they were posted, reports
  arrive, the operator ends a hold. Pages are strongly fair: one that is tried
  again and again is delivered once. A run ends of itself only in scenarios
  without hazards, on which `PumpProgress` rests.
- Maintenance: a dispatch that has begun goes on to its end (calls have time
  limits, and so have agents), and the watch, which polls for ever by default,
  looks again and restarts. That a run which was reported leaves a record that is
  no longer live is assumed without the hazard `stranded` only: `Settle` and
  `Strand` are then alternatives, of which fairness demands neither in particular.
  No timer, operator or script has to act.

## What the runs found

- **A recorded success can be taken back** (`ledger_success_lost`).
  `record_worker_callback` decides on a row snapshot in one block and writes in
  a later one. A `gate_timeout` decided before a `wake_ready` was stored turns
  the completed row into a blocked one.

Seen while modelling, not shown by a run of their own. Where a property excludes
them, its condition says so.

Ledger
- A lane can be leased twice: the alert check may complete a row that is still
  being handed off (`hasty_reconcile`), the lane is claimed by another project,
  and `mark_dispatch_started` makes the first row active again without looking
  at its status. The same happens under `early_callback` and `mark_paused`.
  After such a reconciliation the second one of the same run is answered as a
  replay, and the row stays active.
- `WorkerExclusive` needs POSTs given up on not to arrive later, and no restart
  in the middle of a dispatch: the ledger cannot know what a worker does with a
  request whose answer it never saw.

Gate and outbox
- The outbox stores `gate_error` in the run record (`callback_outbox.py:203`),
  which the record's model rejects; the next reader moves the record to
  `corrupt/`, and the gate forgets the run.
- With slow reaping, `Reconcile` (`app.py:3042`) saves a listed copy over the
  `gate_error` the runner stored meanwhile, and the gate reports a failed run as
  ready.
- A gate callback that was recorded, but whose key was not saved, is retried with
  the same key and another payload (`app.py:1499`), which the control plane
  refuses as a conflict (`control_plane/idempotency.py:57`), each time. The
  answer may have been lost, or the service restarted or the evaluator replaced
  between the POST and the save (`app.py:2964` and `2979`, `2908` and `2923`). The
  record stays ready and unconfirmed for ever; `ReadyConfirmed` names this.
- A runner's callback that ends among the dead letters leaves a record it has
  marked before. Nobody reports that run any more, and the dashboard shows it as
  delivered, because it looks at the key alone (`app.py:1578`). `RunReported` names
  the dead letter, which is left to the operator.
- A restart between the runner's callback file and its mark in the record lets
  the gate report the run a second time, under a key of its own.
- With overlapping deliverers a callback can be lost: the claimed file is
  unlinked by name after its successor was written (`callback_outbox.py:426`); by
  then it may be a file another deliverer has claimed.

Papers
- A draft that fails in the middle of its five files leaves a part
  (`paper_writer.py:184`), and the next one, which does not force, keeps these and
  writes the others from what it knows by then. All five are there when the paper
  goes on record (`ArtifactsAccounted`), but need not be of one draft.
- A rewrite is recorded before it is finalized. When the finalization fails or is
  cut off, the same call is answered as a replay and does not finalize again;
  `docs/state-transition-map.md:116` has artifacts go on "as written once
  deterministic gates pass".
- With overlapping requests a claim decided earlier takes a finalized review
  back, answers are overwritten by those read earlier, and a failing attempt
  removes the manifest that another attempt of the same call has committed.

Research
- The cycle plans generated candidates without looking at those it knows
  (`router.py:4389`), where `docs/research-facility.md:148` has the planner query
  prior candidates. One that was promoted and is proposed again is recorded with
  its status overwritten; its new admission names no idea, so that the workbench
  offers it once more. The second promotion meets the idempotency key of the
  first, which undoes the batch and ends the cycle, at every tick that selects it.
  `PromotedOnce` excludes such proposals (`repeat`).

Alert check
- The cooldown is one calendar bucket per `queue_alert_cooldown_sec`
  (`config.py:118`), so two pages about the same findings may be seconds apart
  on either side of a boundary; `docs/configuration-reference.md:36` calls it
  the "Minimum time between duplicate alerts".
- The event that suppresses duplicates is stored before the page is sent: a page
  that fails is not tried again in its bucket. The readiness page is.
- All slow rows share one finding; a second slow row is not paged about while
  the first is. A dispatch on any lane excuses a stuck row of the default lane.
- A run that takes longer than the hang threshold and has just ended, but not
  reported, is paged about.
- Once auto-reconciliation leaves no row active, no alert at all is evaluated,
  orphans included; `docs/operator-runbook.md:241` says that it "suppresses the
  stale-run Pushover alert".
- With three lanes a healthy run can be paged about. A check whose reconciliation
  settled one row, while another lane is still active, reads the rows again and
  keeps its view of the workers; a run of the third lane that ended and reported
  in between is live in that view and has no row, an orphan. (The finding is
  dropped only for runs known to have succeeded, `router.py:6841`.) With two lanes
  no row is then left active, and no alert is evaluated. This is the last of
  the three mistakes `NoFalseAlarm` names; the next two items are the others.
- A run of the default lane that has reported and is still settling is spared
  only while no lane has a row (`router_http_bindings.py:1636`); once another
  lane has one, it is reported as live work without a row (`:1835`). The settling
  lane itself holds the finding back where it is a named target, whose role says
  GB10 (`alerts.py:850`). A lane that is only the configured default is not
  recognized, and is paged about.
- The same finding names no lane. A dispatch on the default lane between the
  reading of the rows and of the workers therefore makes a conflict no grace
  period excuses; the orphan that comes with it is excused.
- The pump launches follow-ups only when nothing is queued or active; while
  other work keeps arriving it launches none.

Import and intake
- An import of an active row keeps its status and run, but writes the lane of the
  snapshot (`supabase_store.py:6083`), where `docs/state-transition-map.md:95`
  forbids "Notion/source metadata overwriting control-plane-owned runtime
  fields". With an undated snapshot this moves a claimed row to another lane, and
  two dispatchers may start two runs on one worker.
- An import that read an active row whose run then completes makes the row active
  again; an undated old snapshot puts a completed project back into the queue.
- Intake that moves a queued project between its selection and its claim leaves
  the claim looking at the wrong lane. Two things together stop a second run, as
  the proof of `WorkerExclusive` shows: the unique index until the first start is
  recorded, and the preflight from its POST on.

Maintenance
- A dispatch passes a hold. The flags are read once, before the claim
  (`router.py:2292`); a dispatch that read them before the pause was stored takes
  its row under the hold, which `docs/state-transition-map.md:96` calls
  impossible. The stop script therefore looks at rows and workers afterwards, and
  its report is true but for dispatches it could not see (`unseen` in
  `StopIsQuiet`).
- A restart kills a run. Between the watch's look at the dashboard, its look at
  the process table and the restart, the gate goes on accepting dispatches. Only
  an operator who holds the queue first, and waits, makes the window safe.
- The watch may wait for ever. It counts a ready record without a delivered
  callback as live (`wait_safe_restart_wake_gate.py:23`), and the one the gate
  retries in vain (above) stays such, until a newer record of its project hides
  it. A run that waits for an answer to a question holds the watch as well, by
  design. `HoldLetsRestart` names the stranded record.
- After stop and resume by script the timer of the paper material graph, which
  the pause endpoint disables, stays disabled: the script's list does not name it.
- The stop script calls a run that a worker starts after its look, from a POST
  the control plane had given up on, no failure; nothing else would show it until
  the worker reports.

## What is proved

TLAPS checks these for every value of the constants that meets the modules'
named assumptions: any number of projects, lanes, runs, handlers, replayers,
threads, calls, papers, repositories, candidates, importers and cycles, any
window, depth and attempt limit. Every safety and action property a passing run
checks is stated by a theorem, and so are the two refinements; `TypeCorrect`
(`OutboxTypeCorrect`) is a theorem of each of the nine models. Where a property
needs more of the instance than the module assumes, the theorem names it as a
hypothesis of its own (`Orderly`, `TerminalSignals`, ...), and the cfg of its run
meets it.

**Ledger, under every disturbance** (`QueueLedgerProofs`):
`HandOffExclusive`, whose invariant is the property itself together with types,
because nothing but a claim enters dispatching and a claim looks at the whole
lane; `CompletionEarned`, by way of the events: a row becomes completed in the
step that records the success, and recorded events stay.

**Ledger, who holds a row**. `ReleaseComplete` assumes
`TerminalSignals` (the worker side reports ends of runs; `session_started`,
which nothing in the repository sends, would make a released row active again).
`SettledReleasesRow` alone is not inductive: a released run's row could be made
active by a callback or a late start. `ReleaseInv` adds that a row names a run
of its own project that was handed off (`RowNamesItsRun`), and that an active
row whose run is in hand-off or released is in dispatching and in hand-off
(`ActiveRowOfDispatcher`).

`LaneLeaseExclusive`, `ClaimOwned`, `ReportOfCurrentRun` and
`LedgerImplementsLease` assume in addition `Orderly`: no early callbacks, no
hasty reconciliation, no marking of single rows. Their invariant, `LeaseInv`,
adds to the two properties that a queued row names no run (`QueuedRowFree`),
that the worker knows a run only once it was posted and ends it only after its
hand-off (`WorkerFollows`), that reports, planned reconciliations and busy
handlers concern finished hand-offs (`ReportsAreOfFinal`), and that what a
handler is about to apply is of the row's current run (`PendingIsCurrent`). Each
part needs the others: exclusion needs ownership, for a start makes a row active
and may do so only while the claim stands; ownership needs that reports come
after the hand-off; that needs the worker to follow the dispatcher. The
refinement maps each ledger step to `Grant`, `Return`, `Start`, `Settle` or a
stutter.

**Ledger, rows, workers and successes**. Four more theorems rest on `LeaseInv`,
each with one thing it cannot do without:
- `RowAndRunAgree` (`RowMatchesRun`): nothing more. Row and run row are
  written together, and a step that writes one of them concerns the row's own run.
- `OneRunPerWorker` (`WorkerExclusive`): `NoStrayStart`, that is, POSTs given up on
  do not arrive later, and not both a restart and an alert check that reconciles
  what the restart left. `StartInv` adds that a run that is on its worker, or past
  the preflight on its way there, is alone on its lane (`EngagedExclusive`), and
  that a run which a restart stranded with its POST on the way keeps its row, and
  so its lane (`StrandedHolds`). No more than one can be dropped: a reconciliation
  gives the lane of a stranded run away, and the run may start afterwards.
- `AlertCheckSparesLive` (`ReconcileSparesLive`): `FreshObservation`. What is
  planned was observed when the run was no longer on its worker, and a run whose
  hand-off is over does not come back (`ReconcilesSpare`).
- `SuccessFinalWhenSerial` (`TerminalSuccessFinal`): `SerialReports`, one handler,
  or no reports of failure. Then a failure about to be applied concerns a run whose
  success is not recorded (`NoFailureOverSuccess`). `ledger_success_lost` is
  the counterexample without it.

`Orderly` is asked for a reason too: on small instances TLC refutes `RowMatchesRun`
under early callbacks and under hasty reconciliation, `ReconcileSparesLive` under
hasty reconciliation, `WorkerExclusive` and `TerminalSuccessFinal` when single rows
are marked. Of the four, `RowMatchesRun` and `ReconcileSparesLive` hold of these
instances with marked rows, which the theorems leave out.

**Gate** (`WorkerProofs`): `QuietBeforeReady` under all hazards and any
number of restarts. `WindowInv` says that every copy of the record from which a
window could be continued, the stored one and the evaluator's, counts no more
samples than were really taken quiet since the last activity (`Earned`). The
other copies need no such clause: the loop writes back what it listed with its
samples emptied, and a writer of the outbox leaves the record in a state that is
not evaluated. `HeldInv` says what the evaluator holds at each of its steps.
`OneVoiceHolds` and `FailureIsNotReady` are about what reaches the control plane,
under `Undisturbed`: the record is there before the run ends, the loop is not held
up, nothing restarts; outages, lost answers, visitors and expiry are allowed. As
long as the runner may still report, every copy of the record is one of two, the
one the dispatch handler made or what the runner's mark makes of it
(`CopiesInv`); neither is evaluated, so that only the runner's key is posted
(`OwnKeyOnly`). `OrderInv` keeps dispatch, runner and outbox in step.

**Outbox** (`WorkerProofs`): `SetAsideLast` holds for any overlap; the
invariant `Counted` bounds the attempts in every file and in every deliverer's
hands by the POSTs made. `CallbackKept` and `OutboxDurable` are about behaviours
without overlap; `SerialInv` adds that at most one deliverer is at work
(`Alone`), that what it delivers is on file (`OnFile`), and that an unwritten
callback has no files (`Untouched`).

**Papers** (`PaperPipelineProofs`): `FinalizedByPackage`, `NoAnswerLost`,
`TerminalStays`, under failures, crashes and, where the property does not exclude
it, overlap. `ReviewInv` adds that a thread between its read and its write is
alone (`Alone`) and that what it decided on is therefore still so (`Decided`).
That a finalized review names a recorded package needs neither.
`ArtifactsOnRecord` (`ArtifactsAccounted`) has two parts. That a paper on record
has its five artifacts holds under every hazard, because nothing takes one away
again: only a draft that was not cut short puts a paper on record, and what a
rewrite found, and may put back, was complete (`Whole`). That these are of drafts
or of a recorded rewrite, without crashes and overlap, needs to know what a
rewrite under way will put back: what it has set aside is itself accounted for,
and between its write and its record the files are its own (`Accounted`).

**Corpus** (`CorpusReleaseProofs`): `NothingUnchecked`, `LedgerBacked`,
`SurfacesInStep`, `LedgerMonotonic`, under every option and hazard. `ReleaseInv`
adds what has been published (`Published`: the corpus never loses a committed
paper, no remote is ahead of it), what a tick may rely on at each step
(`Prepared`: whoever commits does so on worktrees that agree and passed the
checks), and that heads which disagree belong to a release cut short
(`Agreement`).

**Research** (`ResearchCycleProofs`): `FollowupsEnd`, `OfferedOnce`,
`NothingRevived`, for any number of overlapping cycles and with the operator at
work. `ResearchInv` adds that depths never lag behind the place in the chain
(`Deepening`), that a cycle about to launch has read a decision that still
stands (`Sound`), and that a promoted candidate is linked (`PromotedLinked`).
`QueuesStayShallow`, for single undisturbed cycles, adds that what a cycle may
still launch and promote fits what is missing in each lane (`Room`), where one
follow-up per cycle may come on top; it counts the elements of sets that change
one at a time.

**Maintenance** (`MaintenanceProofs`): `StopReportHolds` and `ResumeReportHolds`,
under every hazard. A report is the conjunction of looks taken one after the
other, so each look has to stay true while the next ones are taken. `StopInv`
says what does: the hold stands, nobody is rearming, and every dispatch under way
could not be seen, was let past the hold, or has lost its row and its worker is
still to be looked at (`Slipped`). `ResumeInv` is its counterpart: the hold is
gone and nobody is in the middle of a pause.

**Watch** (`QueueWatchProofs`): `OnePagePerBucket` (`PagedOnce`), for timer and
operator together. `PageInv`: a page that is about to be sent has its event
stored, nobody has sent it, and nobody else is about to.
`HealthyWorkIsNotPagedAbout` (`NoFalseAlarm`), for any number of lanes.
`WatchInv` says how far what a check has read may differ from what is the case:
rows only by what has ended since and by recent dispatches (`RowsFit`), rows and
view of a lane only where there was a recent dispatch (`ViewFits`). That excuses
every finding but the three kinds the property names (`KeptFacts`), of which one
comes with a dispatch on the default lane while the check looked, one with a
settling default lane that nobody recognizes, one with rows read again. A healthy
row has a run that is posted, running or owed a report
(`RunsHoldRows`), and no row is old (`NoOldRows`).

**Intake** (`IntakeProofs`), under every hazard a property does not exclude.
`LiveRunsKeepTheirRows` (`LiveRunKept`): from its claim to its end a run is held,
and all that the model has of its project keeps it (`HeldKept`): the stored row,
what uncommitted transactions have written, and each snapshot, which either knows
the run or is older than every version of the row that does (`Newer`). That is
what `updated_at` is for, and why an undated snapshot keeps the row but may move
it. `OneRunPerWorker` (`WorkerExclusive`) adds the unique index over stored
and uncommitted rows (`Indexed`), that the row of a run is the dispatching one of
its lane until its start is recorded (`Pending`), and that a worker found idle
stays so until the POST (`Exclusive`).

**What the proofs changed.** Two attempts failed for good reasons.
- `Intake` judged which snapshot rows are older without the `updated_at` that the
  code compares; what protects a live run from a stale snapshot is just that
  comparison, so rows now carry it.
- `NoFalseAlarm` was false for three lanes (see "Seen while modelling"). The two
  lanes of the run could not show it; the theorem is about any number.

**Model-checked only**: the liveness properties (`ActiveSettles`, `RunReported`,
`ReadyConfirmed`, `EventuallySettled`, `PapersRecorded`, `ProblemsPaged`,
`PumpProgress`, `HoldLetsRestart`): the provers at hand reason neither about
fairness nor about ENABLED. The theorems with hypotheses say nothing about what
these exclude; for `TerminalSuccessFinal` a run shows that it fails there.

## What is not modelled, and why

- Of the ledger: the SQLite twin (`store.py`), which splits a dispatch into the
  same blocks, but decides on a callback and applies it in one, so that what
  `ledger_success_lost` shows cannot happen there; evidence checks before a
  reconciliation are assumed to pass, which `ActiveSettles` depends on
  (`QueueWatch` has them as `no_evidence`); manual requeue of single rows and the
  dry-run endpoints.
- Of the gate: session events (`apply_event`), which nothing sends; CPU, GPU and
  memory thresholds are one boolean, quiet or not; several runs of one gate meet
  only through slow reaping.
- Of the outbox: unreadable files, permissions, several callbacks of one worker
  (their files are disjoint).
- Of papers: the writer and its quality gates, which fail or do not; evidence
  bundles; stages an operator walks through by hand.
- Of the corpus: the texts of the checks, the promising-signals refresh, which
  needs a database url, and the importer, which lives in another repository.
- Of research: the provider, scores and budgets, which choose and are choices
  here; the parsing of decision artifacts.
- Of the alert check: texts, the order and the values of thresholds; the drain of
  papers, whose calls are those of `PaperPipeline`; a tick that ends early because
  a request of the script itself fails, and leaves out the rest of its steps.
- Of import and intake: fetching from Notion, metadata-only fields, papers and
  execution updates of a snapshot except as a reason to roll back; lane aliases,
  of which each lane has one here.
- Enoch core: a shadow store that proposes only. Events are appended once per
  key, triage is a pure classification, and nothing reads it back to act.
- Of maintenance: the queue snapshot on a gate's dashboard (`_check_active_queue`),
  a file posted to the gate by a caller that is not in the repository, and without
  which the dashboard shows no rows; the readiness report; a pause request that
  outlives its caller; the verification after a restart, its dry run, its maximal
  wait and the failure notification.
- Read models, dashboard, quality scoring, lineage: pure projections of rows, and
  the largest part of the code outside the modelled files. They have no state to
  go wrong over several steps.
- Signing, URL validation, redaction, settings, evidence transfer: pure functions
  or I/O.
- Scripts, migrations and the dashboard client: not part of the running system's
  state; the migrations' unique indexes are, and guard `Claimable` and `Claim`.

The components are not composed into one model. Each takes its neighbours as
single steps that another module shows to behave so. `Intake` and `QueueLedger`
interleave more blocks than the one process around its one lock can, which adds
behaviours and takes none away. `Emit` in the ledger stands
for gate and outbox, a dispatch in `ResearchCycle`, `QueueWatch` and `Intake` for
the ledger's claim, a finalized paper in `CorpusRelease` for `PaperPipeline`.

## Plan

Written, checked and proved: all of the above. What is left:

1. `RowMatchesRun` and `ReconcileSparesLive` with marked rows: they need an
   invariant without ownership of the claim, which marking a row ends.
2. Refinement of the ledger's claim by the single step that `Intake` and
   `QueueWatch` take for it.
3. The step of each liveness argument that is a safety property (a variant that
   no step raises), so that only fairness is left to TLC.
