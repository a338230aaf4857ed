---------------------------- MODULE QueueLedger ----------------------------
(***************************************************************************)
(* The execution ledger of the Enoch control plane: the queue rows, run    *)
(* rows and callback events it keeps in its database, and every process    *)
(* that writes them.                                                       *)
(*                                                                         *)
(*   - a DISPATCHER per run (_execute_live_dispatch): reads the control    *)
(*     flags, claims the row, preflights the worker, prepares the project, *)
(*     posts /dispatch, and marks the row started or releases the claim;   *)
(*   - callback HANDLERS (record_worker_callback): replay check and row    *)
(*     snapshot in one database session, the write in a later one;         *)
(*   - the queue ALERT CHECK, which observes the worker and replays a      *)
(*     wake_ready for an active row without a live worker run;             *)
(*   - the OPERATOR, who pauses, resumes, and pauses one row;              *)
(*   - the WORKER, external here: it starts, ends and reports runs.        *)
(*                                                                         *)
(* Every endpoint is a synchronous function of a thread pool and the store *)
(* holds one process-wide connection lock per "with _connect()" block, so  *)
(* one such block is one step and nothing larger is.                       *)
(***************************************************************************)
EXTENDS Naturals, FiniteSets

CONSTANTS
    Projects,     \* project_id values, one queue row each
    Lanes,        \* worker lanes (one wake gate each)
    DefaultLane,  \* the lane of an empty machine_target
    LaneOf,       \* the lane the machine_target of a project routes to
    Runs,         \* run ids: project_id plus a timestamp, never reused
    ProjectOf,    \* the project a run id was minted for
    Handlers,     \* request threads that record callbacks
    NoRun,        \* the empty current_run_id
    Signals,      \* <<source, event>> pairs the worker side may report
    Disturbances, \* which of AllDisturbances happen
    MaxCrashes    \* bound: restarts of the control plane

(***************************************************************************)
(* What a run of the system may be exposed to, each a behaviour of the     *)
(* environment or of the operator, not of the code:                        *)
(*  early_callback  a run ends before its dispatcher has stored the start  *)
(*  lost_response   the /dispatch POST fails or times out (5 s) although   *)
(*                  the worker may have acted on it                        *)
(*  late_arrival    a POST given up on reaches the worker afterwards       *)
(*  mark_paused     the operator marks a single row paused                 *)
(*  auto_reconcile  the queue alert check runs live, refreshing what it    *)
(*                  knows of the worker first, while no row it looks at is *)
(*                  in the middle of a dispatch                            *)
(*  hasty_reconcile the same check may meet a row in mid-dispatch          *)
(*  cached_observation  the check is asked not to refresh                  *)
(*  hold            the operator pauses, resumes, overrides                *)
(*  crash           the control-plane process restarts                     *)
(***************************************************************************)
AllDisturbances ==
    {"early_callback", "lost_response", "late_arrival", "mark_paused",
     "auto_reconcile", "hasty_reconcile", "cached_observation", "hold", "crash"}

ActiveStatuses ==
    {"dispatching", "running", "awaiting_wake", "wake_received", "reconciling"}
Statuses ==
    ActiveStatuses \cup {"queued", "completed", "blocked", "needs_review", "paused"}

TerminalSuccess == {"wake_ready", "session_finished_ready"}
GateFailures    == {"gate_timeout", "gate_error"}
Events == TerminalSuccess \cup GateFailures \cup {"session_started", "question_pending"}
Sources == {"runner", "gate", "reconcile"}

ASSUME LanesAssumption ==
    /\ LaneOf \in [Projects -> Lanes]
    /\ DefaultLane \in Lanes
ASSUME RunsAssumption ==
    /\ ProjectOf \in [Runs -> Projects]
    /\ NoRun \notin Runs
ASSUME SignalsAssumption == Signals \subseteq ({"runner", "gate"} \X Events)
ASSUME DisturbancesAssumption == Disturbances \subseteq AllDisturbances
ASSUME MaxCrashesAssumption == MaxCrashes \in Nat

(***************************************************************************)
(* Data                                                                    *)
(***************************************************************************)
\* A callback is identified by its idempotency key, run:event:...:source.
Callback == {c \in [run : Runs, source : Sources, event : Events] :
                <<c.source, c.event>> \in Signals \cup {<<"reconcile", "wake_ready">>}}

\* last_run_state of a row, state of a run row.
LastStates == {"none", "dispatching", "awaiting_wake", "running"} \cup Events
RunStates  == {"absent", "running"} \cup Events

QueueRow == [status : Statuses, run : Runs \cup {NoRun}, last : LastStates]

\* The order a dispatcher goes through; the last four are final.
DispatchSteps ==
    {"new", "admitted", "claimed", "preflighted", "prepared", "posted", "releasing",
     "started", "released", "refused", "crashed"}
\* Between the claim and its settlement the dispatcher owns the row.
HandOff == {"claimed", "preflighted", "prepared", "posted", "releasing"}

Outcomes == {"apply", "late", "stale"}
Idle == [outcome |-> "none"]
Pending == [callback : Callback, outcome : Outcomes]

VARIABLES
    flags,     \* the control_flags that are set
    queue,     \* queue_items: status, current_run_id, last_run_state
    manual,    \* the projects whose row has manual_review_required
    runs,      \* runs.state
    recorded,  \* control_events of callbacks: how each was recorded, if it was
    observed,  \* cached worker_preflight observation of a lane
    dispatch,  \* the step the dispatcher of a run has reached
    override,  \* runs dispatched with override_hold_action
    handler,   \* what a request thread has decided and not yet written
    plans,     \* runs the alert check has decided to replay a wake_ready for
    worker,    \* external: the worker's side of a run
    sent,      \* callbacks delivered at least once, at any time and repeatedly
    crashes

ledger == <<flags, queue, manual, runs, recorded, observed>>
dispatchers == <<dispatch, override>>
requests == <<handler, plans>>
world == <<worker, sent, crashes>>
vars == <<flags, queue, manual, runs, recorded, observed, dispatch, override,
          handler, plans, worker, sent, crashes>>

TypeOK ==
    /\ flags \subseteq {"queue_paused", "maintenance_mode"}
    /\ queue \in [Projects -> QueueRow]
    /\ manual \subseteq Projects
    /\ runs \in [Runs -> RunStates]
    /\ recorded \in [Callback -> {"none", "applied", "late", "stale"}]
    /\ observed \in [Lanes -> {"unknown", "live", "idle", "predates"}]
    /\ dispatch \in [Runs -> DispatchSteps]
    /\ override \subseteq Runs
    /\ handler \in [Handlers -> {Idle} \cup Pending]
    /\ plans \subseteq Runs
    /\ worker \in [Runs -> {"none", "requested", "running", "ended", "rejected"}]
    /\ sent \subseteq Callback
    /\ crashes \in 0 .. MaxCrashes

Init ==
    /\ flags = {}
    /\ queue = [p \in Projects |-> [status |-> "queued", run |-> NoRun, last |-> "none"]]
    /\ manual = {}
    /\ runs = [r \in Runs |-> "absent"]
    /\ recorded = [c \in Callback |-> "none"]
    /\ observed = [l \in Lanes |-> "unknown"]
    /\ dispatch = [r \in Runs |-> "new"]
    /\ override = {}
    /\ handler = [h \in Handlers |-> Idle]
    /\ plans = {}
    /\ worker = [r \in Runs |-> "none"]
    /\ sent = {}
    /\ crashes = 0
-----------------------------------------------------------------------------
(***************************************************************************)
(* Shared state formulae                                                   *)
(***************************************************************************)
RunLane(r) == LaneOf[ProjectOf[r]]
Active(p) == queue[p].status \in ActiveStatuses

\* Faulty variant: every live run is taken for stale gate state.
NeverLiveOnWorker(l) == FALSE

LiveOnWorker(l) == \E r \in Runs : RunLane(r) = l /\ worker[r] = "running"

Busy(h) == handler[h] # Idle

At(r, step) == dispatch[r] = step
MoveTo(r, step) == dispatch' = [dispatch EXCEPT ![r] = step]

\* last_dispatch_at is now: what was observed so far is older than the dispatch.
AgeObservation(r) ==
    observed' = [observed EXCEPT ![RunLane(r)] = IF @ = "idle" THEN "predates" ELSE @]

-----------------------------------------------------------------------------
(***************************************************************************)
(* The dispatcher of run r                                                 *)
(***************************************************************************)

\* _assert_live_dispatch_preconditions: the flags are read once, here. An
\* operator override passes both holds; it exists only where holds do.
HoldsAllow(r) == r \in override \/ flags = {}

\* A row read as queued passes the preconditions and is given a run id.
Admit(r) ==
    /\ At(r, "new")
    /\ queue[ProjectOf[r]].status = "queued"
    /\ override' \in {override} \cup
           IF "hold" \in Disturbances THEN {override \cup {r}} ELSE {}
    /\ r \in override' \/ flags = {}
    /\ MoveTo(r, "admitted")
    /\ UNCHANGED <<ledger, requests, world>>

\* The conditional UPDATE of claim_dispatch_candidate.

\* Faulty variants: no look at the lane; a look at the statuses of the unique
\* index only; a retry that takes over a row already handed off.
ClaimableOnBusyLane(r) ==
    queue[ProjectOf[r]].status = "queued" /\ ProjectOf[r] \notin manual

ClaimableByIndex(r) ==
    /\ queue[ProjectOf[r]].status = "queued"
    /\ ProjectOf[r] \notin manual
    /\ \A p \in Projects : LaneOf[p] = RunLane(r) =>
           queue[p].status \notin {"dispatching", "running"}

ClaimableAgain(r) ==
    /\ queue[ProjectOf[r]].status \in {"queued", "dispatching"}
    /\ \A p \in Projects \ {ProjectOf[r]} : LaneOf[p] = RunLane(r) => ~Active(p)

Claimable(r) ==
    /\ queue[ProjectOf[r]].status = "queued"
    /\ ProjectOf[r] \notin manual
    /\ \A p \in Projects : LaneOf[p] = RunLane(r) => ~Active(p)

ClaimDispatchCandidate(r) ==
    /\ At(r, "admitted")
    /\ Claimable(r)
    /\ queue' = [queue EXCEPT ![ProjectOf[r]] =
                   [status |-> "dispatching", run |-> r, last |-> "dispatching"]]
    /\ AgeObservation(r)
    /\ MoveTo(r, "claimed")
    /\ UNCHANGED <<flags, manual, runs, recorded, override, requests, world>>

\* rowcount 0: the caller answers 409 and nothing is written.
ClaimRefused(r) ==
    /\ At(r, "admitted")
    /\ ~Claimable(r)
    /\ MoveTo(r, "refused")
    /\ UNCHANGED <<ledger, override, requests, world>>

\* The preflight passes only on a worker without live runs, and its outcome is
\* cached as the lane's observation.
PreflightOk(r) ==
    /\ At(r, "claimed")
    /\ ~LiveOnWorker(RunLane(r))
    /\ observed' = [observed EXCEPT ![RunLane(r)] = "idle"]
    /\ MoveTo(r, "preflighted")
    /\ UNCHANGED <<flags, queue, manual, runs, recorded, override, requests, world>>

\* A failing check (live run, memory, gpu, token) or no answer at all.
PreflightFails(r) ==
    /\ At(r, "claimed")
    /\ \E seen \in {observed[RunLane(r)],
                    IF LiveOnWorker(RunLane(r)) THEN "live" ELSE "idle"} :
          observed' = [observed EXCEPT ![RunLane(r)] = seen]
    /\ MoveTo(r, "releasing")
    /\ UNCHANGED <<flags, queue, manual, runs, recorded, override, requests, world>>

\* POST /prepare-project.
Prepare(r) ==
    /\ At(r, "preflighted")
    /\ \E step \in {"prepared", "releasing"} : MoveTo(r, step)
    /\ UNCHANGED <<ledger, override, requests, world>>

\* POST /dispatch leaves; the answer is awaited for at most five seconds.
PostDispatch(r) ==
    /\ At(r, "prepared")
    /\ worker' = [worker EXCEPT ![r] = "requested"]
    /\ MoveTo(r, "posted")
    /\ UNCHANGED <<ledger, override, requests, sent, crashes>>

\* Any answer that is not ok, a timeout included, leads to a release.
DispatchFails(r) ==
    /\ At(r, "posted")
    /\ worker[r] = "rejected" \/ "lost_response" \in Disturbances
    /\ MoveTo(r, "releasing")
    /\ UNCHANGED <<ledger, override, requests, world>>

\* release_dispatch_claim: only the row this run still holds in dispatching.
\* Faulty variant: only the claim of a run already registered is released.
HoldsRegisteredClaim(r) ==
    queue[ProjectOf[r]].run = r /\ runs[r] = "running"

HoldsClaim(r) ==
    queue[ProjectOf[r]].run = r /\ queue[ProjectOf[r]].status = "dispatching"

ReleaseDispatchClaim(r) ==
    /\ At(r, "releasing")
    /\ queue' = IF HoldsClaim(r)
                  THEN [queue EXCEPT ![ProjectOf[r]] =
                          [status |-> "queued", run |-> NoRun, last |-> "none"]]
                  ELSE queue
    /\ MoveTo(r, "released")
    /\ UNCHANGED <<flags, manual, runs, recorded, observed, override, requests, world>>

\* Faulty variant: the run row is left to the first callback.
MarkRowOnly(r) ==
    /\ At(r, "posted")
    /\ worker[r] \in {"running", "ended"}
    /\ queue' = [queue EXCEPT ![ProjectOf[r]] =
                   [status |-> "awaiting_wake", run |-> r, last |-> "awaiting_wake"]]
    /\ AgeObservation(r)
    /\ MoveTo(r, "started")
    /\ UNCHANGED <<flags, manual, runs, recorded, override, requests, world>>

\* mark_dispatch_started: the row is written wherever it is, by project_id
\* alone, and the run row is started.
MarkDispatchStarted(r) ==
    /\ At(r, "posted")
    /\ worker[r] \in {"running", "ended"}
    /\ queue' = [queue EXCEPT ![ProjectOf[r]] =
                   [status |-> "awaiting_wake", run |-> r, last |-> "awaiting_wake"]]
    /\ runs' = [runs EXCEPT ![r] = "running"]
    /\ AgeObservation(r)
    /\ MoveTo(r, "started")
    /\ UNCHANGED <<flags, manual, recorded, override, requests, world>>
-----------------------------------------------------------------------------
(***************************************************************************)
(* The worker (external)                                                   *)
(***************************************************************************)
\* A posted request survives the death of its sender, and with late_arrival
\* also the sender giving up on it.
WorkerAccepts(r) ==
    /\ worker[r] = "requested"
    /\ dispatch[r] \in {"posted", "crashed"} \/ "late_arrival" \in Disturbances
    /\ worker' = [worker EXCEPT ![r] = "running"]
    /\ UNCHANGED <<ledger, dispatchers, requests, sent, crashes>>

WorkerRejects(r) ==
    /\ worker[r] = "requested"
    /\ worker' = [worker EXCEPT ![r] = "rejected"]
    /\ UNCHANGED <<ledger, dispatchers, requests, sent, crashes>>

WorkerEnds(r) ==
    /\ worker[r] = "running"
    /\ dispatch[r] \notin HandOff \/ "early_callback" \in Disturbances
    /\ worker' = [worker EXCEPT ![r] = "ended"]
    /\ UNCHANGED <<ledger, dispatchers, requests, sent, crashes>>

\* The runner and the wake gate report the end of a run with keys of their own;
\* each report is then delivered at least once.
Emit(r) ==
    \E signal \in Signals :
        /\ worker[r] = "ended"
        /\ sent' = sent \cup {[run |-> r, source |-> signal[1], event |-> signal[2]]}
        /\ UNCHANGED <<ledger, dispatchers, requests, worker, crashes>>
-----------------------------------------------------------------------------
(***************************************************************************)
(* Callback handlers                                                       *)
(***************************************************************************)
Reconciliation(r) == [run |-> r, source |-> "reconcile", event |-> "wake_ready"]

CompletedSuccess(row, r) ==
    row.status = "completed" /\ row.run = r /\ row.last \in TerminalSuccess

\* Faulty variants: a completed row is no obstacle; the run id is not compared.
OutcomeWithoutLate(row, callback) ==
    IF row.run # callback.run THEN "stale" ELSE "apply"

OutcomeWithoutStale(row, callback) ==
    IF CompletedSuccess(row, callback.run) /\ callback.event \notin TerminalSuccess
      THEN "late" ELSE "apply"

\* What record_worker_callback makes of the row it reads.
Outcome(row, callback) ==
    IF CompletedSuccess(row, callback.run) /\ callback.event \notin TerminalSuccess
      THEN "late"
    ELSE IF row.run # callback.run THEN "stale"
    ELSE "apply"

\* Faulty variant: a timeout counted as an end.
StatusIgnoringFailure(event) ==
    IF event = "session_started" THEN "running" ELSE "completed"

\* _worker_callback_transition: the status an applied event gives the row.
StatusAfter(event) ==
    CASE event = "session_started"  -> "running"
      [] event = "question_pending" -> "needs_review"
      [] event \in GateFailures     -> "blocked"
      [] OTHER                      -> "completed"
NeedsManual(event) == event \in GateFailures \cup {"question_pending"}
StateAfter(event) == IF event = "session_started" THEN "running" ELSE event

\* Replay check and row snapshot. A recorded callback is answered from its event.
BeginCallback(h) ==
    \E callback \in sent \cup {Reconciliation(r) : r \in plans} :
        /\ ~Busy(h)
        /\ recorded[callback] = "none"
        /\ handler' = [handler EXCEPT ![h] =
             [callback |-> callback,
              outcome |-> Outcome(queue[ProjectOf[callback.run]], callback)]]
        /\ plans' = IF callback.source = "reconcile" THEN plans \ {callback.run} ELSE plans
        /\ UNCHANGED <<ledger, dispatchers, world>>

\* The replay of a planned reconciliation whose key is already recorded.
ReconcileReplayed(r) ==
    /\ r \in plans
    /\ recorded[Reconciliation(r)] # "none"
    /\ plans' = plans \ {r}
    /\ UNCHANGED <<ledger, dispatchers, handler, world>>

\* The second look at the event key before an apply finds it recorded.
Recheck(h) ==
    /\ Busy(h)
    /\ recorded[handler[h].callback] # "none"
    /\ handler' = [handler EXCEPT ![h] = Idle]
    /\ UNCHANGED <<ledger, dispatchers, plans, world>>

\* _persist_applied_worker_callback: the row by project_id, the run row, the
\* event. The same event already there leaves the update standing; the key
\* under another payload (a late or stale record) rolls everything back.
ApplyCallback(h) ==
    LET callback == handler[h].callback
        event == callback.event IN
    /\ Busy(h)
    /\ handler[h].outcome = "apply"
    /\ recorded[callback] \in {"none", "applied"}
    /\ queue' = [queue EXCEPT ![ProjectOf[callback.run]] =
                   [status |-> StatusAfter(event), run |-> @.run, last |-> StateAfter(event)]]
    /\ manual' = IF NeedsManual(event) THEN manual \cup {ProjectOf[callback.run]}
                                      ELSE manual \ {ProjectOf[callback.run]}
    /\ runs' = [runs EXCEPT ![callback.run] = StateAfter(event)]
    /\ recorded' = [recorded EXCEPT ![callback] = "applied"]
    /\ handler' = [handler EXCEPT ![h] = Idle]
    /\ UNCHANGED <<flags, observed, dispatchers, plans, world>>

\* A late or stale callback leaves an event and nothing else.
RecordIgnored(h) ==
    /\ Busy(h)
    /\ handler[h].outcome \in {"late", "stale"}
    /\ recorded[handler[h].callback] = "none"
    /\ recorded' = [recorded EXCEPT ![handler[h].callback] = handler[h].outcome]
    /\ handler' = [handler EXCEPT ![h] = Idle]
    /\ UNCHANGED <<flags, queue, manual, runs, observed, dispatchers, plans, world>>
-----------------------------------------------------------------------------
(***************************************************************************)
(* The queue alert check                                                   *)
(***************************************************************************)
\* A worker preflight outside a dispatch refreshes the cached observation.
ObserveWorker(l) ==
    /\ "auto_reconcile" \in Disturbances
    /\ observed' = [observed EXCEPT ![l] = IF LiveOnWorker(l) THEN "live" ELSE "idle"]
    /\ UNCHANGED <<flags, queue, manual, runs, recorded, dispatchers, requests, world>>

SeenIdle(l) == observed[l] \in {"idle", "predates"}

\* Faulty variant: rows left in dispatching are nobody's conflict.
ConflictOfStartedRows ==
    \E p \in Projects : queue[p].status = "awaiting_wake" /\ SeenIdle(LaneOf[p])

\* An active row whose lane was seen idle, once any lane is in conflict: a
\* stale lane past the grace period, or the default lane with no regard to
\* grace or to the age of the observation.
NoLiveWorkerConflict ==
    \/ \E p \in Projects : Active(p) /\ observed[LaneOf[p]] = "idle"
    \/ \E p \in Projects : Active(p) /\ LaneOf[p] = DefaultLane /\ SeenIdle(DefaultLane)

PlanReconcile(p) ==
    /\ "auto_reconcile" \in Disturbances
    /\ Active(p)
    /\ queue[p].run # NoRun
    /\ SeenIdle(LaneOf[p])
    /\ NoLiveWorkerConflict
    /\ "cached_observation" \in Disturbances \/
         (observed[LaneOf[p]] = "idle" /\ ~LiveOnWorker(LaneOf[p]))
    /\ "hasty_reconcile" \in Disturbances \/ dispatch[queue[p].run] \notin HandOff
    /\ plans' = plans \cup {queue[p].run}
    /\ UNCHANGED <<ledger, dispatchers, handler, world>>
-----------------------------------------------------------------------------
(***************************************************************************)
(* The operator, and restarts                                              *)
(***************************************************************************)
Pause ==
    /\ "hold" \in Disturbances
    /\ flags' \in {{"queue_paused"}, {"queue_paused", "maintenance_mode"}}
    /\ UNCHANGED <<queue, manual, runs, recorded, observed, dispatchers, requests, world>>

Resume ==
    /\ "hold" \in Disturbances
    /\ flags' \in {{}, {"maintenance_mode"}}
    /\ UNCHANGED <<queue, manual, runs, recorded, observed, dispatchers, requests, world>>

\* mark_queue_item_paused changes the status alone, whatever it was.
MarkQueueItemPaused(p) ==
    /\ "mark_paused" \in Disturbances
    /\ queue' = [queue EXCEPT ![p].status = "paused"]
    /\ UNCHANGED <<flags, manual, runs, recorded, observed, dispatchers, requests, world>>

\* The database survives; every request in the process is gone.
Crash ==
    /\ "crash" \in Disturbances
    /\ crashes < MaxCrashes
    /\ crashes' = crashes + 1
    /\ dispatch' = [r \in Runs |-> IF dispatch[r] \in HandOff \cup {"admitted"}
                                     THEN "crashed" ELSE dispatch[r]]
    /\ handler' = [h \in Handlers |-> Idle]
    /\ plans' = {}
    /\ UNCHANGED <<ledger, override, worker, sent>>
-----------------------------------------------------------------------------
Dispatcher(r) ==
    \/ Admit(r) \/ ClaimDispatchCandidate(r) \/ ClaimRefused(r)
    \/ PreflightOk(r) \/ PreflightFails(r) \/ Prepare(r) \/ PostDispatch(r)
    \/ DispatchFails(r) \/ ReleaseDispatchClaim(r) \/ MarkDispatchStarted(r)

Worker(r) == WorkerAccepts(r) \/ WorkerRejects(r) \/ WorkerEnds(r) \/ Emit(r)

CallbackHandler(h) ==
    BeginCallback(h) \/ Recheck(h) \/ ApplyCallback(h) \/ RecordIgnored(h)

AlertCheck ==
    \/ \E l \in Lanes : ObserveWorker(l)
    \/ \E p \in Projects : PlanReconcile(p)
    \/ \E r \in Runs : ReconcileReplayed(r)

Operator == Pause \/ Resume \/ \E p \in Projects : MarkQueueItemPaused(p)

Next ==
    \/ \E r \in Runs : Dispatcher(r) \/ Worker(r)
    \/ \E h \in Handlers : CallbackHandler(h)
    \/ AlertCheck
    \/ Operator
    \/ Crash

Spec == Init /\ [][Next]_vars
-----------------------------------------------------------------------------
(***************************************************************************)
(* Safety                                                                  *)
(***************************************************************************)

\* One lane hands off at most one project at a time, whatever fails: the claim
\* refuses while any row of the lane is active, and nothing but a claim enters
\* dispatching.
DispatchingExclusive ==
    \A p, q \in Projects :
        (LaneOf[p] = LaneOf[q] /\ queue[p].status = "dispatching"
                               /\ queue[q].status = "dispatching") => p = q

\* A project is shown completed only on a recorded terminal success of one of
\* its own runs, so no timeout, late or stale report can complete it.
CompletedBacked ==
    \A p \in Projects : queue[p].status = "completed" =>
        \E c \in Callback : /\ recorded[c] = "applied"
                            /\ ProjectOf[c.run] = p
                            /\ c.event \in TerminalSuccess

\* Once a dispatcher has given its caller an error, its run no longer keeps
\* the row, and with it the lane, active.
SettledReleasesRow ==
    \A r \in Runs : At(r, "released") \/ At(r, "refused") =>
        ~(queue[ProjectOf[r]].run = r /\ Active(ProjectOf[r]))

\* From the claim to its settlement the dispatcher holds its row: what it
\* releases or marks started is still its own.
OwnsClaim ==
    \A r \in Runs : dispatch[r] \in HandOff => HoldsClaim(r)

\* A single active lane: one active row per worker lane.
LaneExclusive ==
    \A p, q \in Projects :
        (LaneOf[p] = LaneOf[q] /\ Active(p) /\ Active(q)) => p = q

\* Two dispatches never put two live runs on one worker.
WorkerExclusive ==
    \A r, s \in Runs :
        (RunLane(r) = RunLane(s) /\ worker[r] = "running" /\ worker[s] = "running")
            => r = s

\* The lanes are leased as DispatchLease promises.
Phase(status) ==
    CASE status = "queued"      -> "waiting"
      [] status = "dispatching" -> "handoff"
      [] status \in ActiveStatuses \ {"dispatching"} -> "running"
      [] OTHER                  -> "settled"

Lease == INSTANCE DispatchLease WITH
           phase <- [p \in Projects |-> Phase(queue[p].status)]

LeaseImplemented == Lease!Spec

\* The queue row and the run row of its current run tell one story.
RowMatchesRun ==
    \A p \in Projects : queue[p].run # NoRun =>
        LET row == queue[p] IN
        /\ row.last = "awaiting_wake" => runs[row.run] = "running"
        /\ row.last \in Events => runs[row.run] = row.last

\* A callback changes a row only on behalf of the row's current run.
CallbackOfCurrentRun ==
    [][\A p \in Projects, h \in Handlers :
         (ApplyCallback(h) /\ ProjectOf[handler[h].callback.run] = p)
            => queue[p].run = handler[h].callback.run]_vars

\* A recorded success of the row's current run is final: no later report and
\* no dispatcher takes it back.
TerminalSuccessFinal ==
    [][\A p \in Projects, r \in Runs :
         CompletedSuccess(queue[p], r) => CompletedSuccess(queue'[p], r)]_vars

\* The alert check finishes a run in the worker's stead only when the worker
\* is not running it.  The one exception is a run whose dispatch died with the
\* control plane while its POST was on the way: nothing in the database says
\* that the worker may still start it.
ReconcileSparesLive ==
    [][\A h \in Handlers :
         (ApplyCallback(h) /\ handler[h].callback.source = "reconcile")
            => \/ worker[handler[h].callback.run] # "running"
               \/ dispatch[handler[h].callback.run] = "crashed"]_vars
-----------------------------------------------------------------------------
(***************************************************************************)
(* Liveness                                                                *)
(***************************************************************************)
\* Requests run to their end, the worker answers and ends its runs, callbacks
\* are redelivered until recorded, and the alert timer keeps firing. Nothing
\* makes the worker report, nothing makes the operator or a crash act.
Fairness ==
    /\ \A r \in Runs :
         /\ WF_vars(ClaimDispatchCandidate(r) \/ ClaimRefused(r))
         /\ WF_vars(PreflightOk(r) \/ PreflightFails(r))
         /\ WF_vars(Prepare(r)) /\ WF_vars(PostDispatch(r)) /\ WF_vars(DispatchFails(r))
         /\ WF_vars(ReleaseDispatchClaim(r)) /\ WF_vars(MarkDispatchStarted(r))
         /\ WF_vars(WorkerAccepts(r) \/ WorkerRejects(r)) /\ WF_vars(WorkerEnds(r))
         /\ WF_vars(ReconcileReplayed(r))
    /\ \A h \in Handlers : WF_vars(CallbackHandler(h))
    /\ \A l \in Lanes : WF_vars(ObserveWorker(l))
    /\ \A p \in Projects : WF_vars(PlanReconcile(p))

FairSpec == Spec /\ Fairness

\* An active row does not stay active for ever: the run reports, or the alert
\* check finds its worker idle and settles it.
ActiveSettles ==
    \A p \in Projects : Active(p) ~> ~Active(p)
=============================================================================
