------------------------- MODULE QueueLedgerProofs -------------------------
(***************************************************************************)
(* Proofs about QueueLedger for every set of projects, lanes, runs,        *)
(* handlers, signals and disturbances.  In order: types and what holds     *)
(* under every disturbance; who holds a queue row, and the lane lease,     *)
(* which needs runs that are not reported on while they are handed off;    *)
(* what a row says of its run; who runs on a worker, and whom the alert    *)
(* check may finish.                                                       *)
(***************************************************************************)
EXTENDS QueueLedger, TLAPS

-----------------------------------------------------------------------------
(***************************************************************************)
(* Type correctness                                                        *)
(***************************************************************************)

\* The initial state has the declared types.
LEMMA InitTypeOK == Init => TypeOK
  BY LanesAssumption, RunsAssumption, MaxCrashesAssumption
  DEF Init, TypeOK, QueueRow, Statuses, ActiveStatuses, LastStates, RunStates, DispatchSteps

\* Every step of a dispatcher keeps them.
LEMMA DispatcherTypeOK ==
  ASSUME TypeOK, NEW r \in Runs, Dispatcher(r)
  PROVE  TypeOK'
  <1> USE LanesAssumption, RunsAssumption
  <1> USE DEF TypeOK, QueueRow, Statuses, ActiveStatuses, LastStates, RunStates, DispatchSteps,
              MoveTo, At, ledger, requests, world
  <1>1. CASE Admit(r)
    BY <1>1 DEF Admit
  <1>2. CASE ClaimDispatchCandidate(r)
    BY <1>2 DEF ClaimDispatchCandidate, AgeObservation, RunLane
  <1>3. CASE ClaimRefused(r)
    BY <1>3 DEF ClaimRefused
  <1>4. CASE PreflightOk(r)
    BY <1>4 DEF PreflightOk, RunLane
  <1>5. CASE PreflightFails(r)
    <2>1. PICK seen \in {observed[RunLane(r)],
                         IF LiveOnWorker(RunLane(r)) THEN "live" ELSE "idle"} :
            observed' = [observed EXCEPT ![RunLane(r)] = seen]
      BY <1>5 DEF PreflightFails
    <2>2. seen \in {"unknown", "live", "idle", "predates"}
      BY DEF RunLane
    <2>3. QED
      BY <1>5, <2>1, <2>2 DEF PreflightFails
  <1>6. CASE Prepare(r)
    BY <1>6 DEF Prepare
  <1>7. CASE PostDispatch(r)
    BY <1>7 DEF PostDispatch
  <1>8. CASE DispatchFails(r)
    BY <1>8 DEF DispatchFails
  <1>9. CASE ReleaseDispatchClaim(r)
    BY <1>9 DEF ReleaseDispatchClaim
  <1>10. CASE MarkDispatchStarted(r)
    BY <1>10 DEF MarkDispatchStarted, AgeObservation, RunLane
  <1>11. QED
    BY <1>1, <1>2, <1>3, <1>4, <1>5, <1>6, <1>7, <1>8, <1>9, <1>10 DEF Dispatcher

\* So do the worker's,
LEMMA WorkerTypeOK ==
  ASSUME TypeOK, NEW r \in Runs, Worker(r)
  PROVE  TypeOK'
  <1> USE DEF TypeOK, ledger, dispatchers, requests, world
  <1>1. CASE WorkerAccepts(r)
    BY <1>1 DEF WorkerAccepts
  <1>2. CASE WorkerRejects(r)
    BY <1>2 DEF WorkerRejects
  <1>3. CASE WorkerEnds(r)
    BY <1>3 DEF WorkerEnds
  <1>4. CASE Emit(r)
    <2>1. PICK signal \in Signals :
            sent' = sent \cup {[run |-> r, source |-> signal[1], event |-> signal[2]]}
      BY <1>4 DEF Emit
    <2>2. [run |-> r, source |-> signal[1], event |-> signal[2]] \in Callback
      BY SignalsAssumption DEF Callback, Sources
    <2>3. QED
      BY <1>4, <2>1, <2>2 DEF Emit
  <1>5. QED
    BY <1>1, <1>2, <1>3, <1>4 DEF Worker

\* those of the callback handlers,
LEMMA HandlerTypeOK ==
  ASSUME TypeOK, NEW h \in Handlers, CallbackHandler(h)
  PROVE  TypeOK'
  <1> USE RunsAssumption DEF TypeOK, ledger, dispatchers, world, Busy, Idle, Pending
  <1>1. CASE BeginCallback(h)
    <2>1. PICK callback \in sent \cup {Reconciliation(r) : r \in plans} :
            /\ handler' = [handler EXCEPT ![h] =
                 [callback |-> callback,
                  outcome |-> Outcome(queue[ProjectOf[callback.run]], callback)]]
            /\ plans' = IF callback.source = "reconcile" THEN plans \ {callback.run} ELSE plans
      BY <1>1 DEF BeginCallback
    <2>2. callback \in Callback
      BY DEF Reconciliation, Callback, Sources, Events, TerminalSuccess
    <2>3. Outcome(queue[ProjectOf[callback.run]], callback) \in Outcomes
      BY DEF Outcome, Outcomes
    <2>4. handler' \in [Handlers -> {Idle} \cup Pending]
      BY <2>1, <2>2, <2>3
    <2>5. QED
      BY <1>1, <2>1, <2>4 DEF BeginCallback
  <1>2. CASE Recheck(h)
    BY <1>2 DEF Recheck
  <1>3. CASE ApplyCallback(h)
    <2>1. handler[h] \in Pending
      BY <1>3 DEF ApplyCallback
    <2>2. handler[h].callback \in Callback /\ handler[h].callback.run \in Runs
            /\ handler[h].callback.event \in Events
      BY <2>1 DEF Callback
    <2>3. ASSUME NEW e \in Events
          PROVE  /\ StatusAfter(e) \in Statuses
                 /\ StateAfter(e) \in LastStates
                 /\ StateAfter(e) \in RunStates
      BY DEF StatusAfter, StateAfter, Statuses, ActiveStatuses, LastStates,
             RunStates, Events, TerminalSuccess, GateFailures
    <2>4. queue' \in [Projects -> QueueRow]
      BY <1>3, <2>2, <2>3 DEF ApplyCallback, QueueRow
    <2>5. runs' \in [Runs -> RunStates]
      BY <1>3, <2>2, <2>3 DEF ApplyCallback
    <2>6. recorded' \in [Callback -> {"none", "applied", "late", "stale"}]
      BY <1>3, <2>2 DEF ApplyCallback
    <2>7. QED
      BY <1>3, <2>4, <2>5, <2>6 DEF ApplyCallback
  <1>4. CASE RecordIgnored(h)
    BY <1>4 DEF RecordIgnored, Outcomes
  <1>5. QED
    BY <1>1, <1>2, <1>3, <1>4 DEF CallbackHandler

\* and those of the alert check, the operator and a restart.
LEMMA OthersTypeOK ==
  ASSUME TypeOK, AlertCheck \/ Operator \/ Crash
  PROVE  TypeOK'
  <1> USE DEF TypeOK, ledger, dispatchers, requests, world
  <1>1. ASSUME NEW l \in Lanes, ObserveWorker(l) PROVE TypeOK'
    BY <1>1 DEF ObserveWorker
  <1>2. ASSUME NEW p \in Projects, PlanReconcile(p) PROVE TypeOK'
    BY <1>2 DEF PlanReconcile, QueueRow
  <1>3. ASSUME NEW r \in Runs, ReconcileReplayed(r) PROVE TypeOK'
    BY <1>3 DEF ReconcileReplayed
  <1>4. CASE Pause
    BY <1>4 DEF Pause
  <1>5. CASE Resume
    BY <1>5 DEF Resume
  <1>6. ASSUME NEW p \in Projects, MarkQueueItemPaused(p) PROVE TypeOK'
    BY <1>6 DEF MarkQueueItemPaused, QueueRow, Statuses
  <1>7. CASE Crash
    BY <1>7, MaxCrashesAssumption DEF Crash, DispatchSteps
  <1>8. QED
    BY <1>1, <1>2, <1>3, <1>4, <1>5, <1>6, <1>7 DEF AlertCheck, Operator

LEMMA NextTypeOK == TypeOK /\ [Next]_vars => TypeOK'
  <1>1. ASSUME TypeOK, UNCHANGED vars PROVE TypeOK'
    BY <1>1 DEF TypeOK, vars
  <1>2. QED
    BY <1>1, DispatcherTypeOK, WorkerTypeOK, HandlerTypeOK, OthersTypeOK DEF Next

\* Rows, run rows, events, and the bookkeeping of every process stay well
\* typed, with raw worker events never stored as a row's status.
THEOREM TypeCorrect == Spec => []TypeOK
  BY InitTypeOK, NextTypeOK, PTL DEF Spec
-----------------------------------------------------------------------------
(***************************************************************************)
(* What holds under every disturbance                                      *)
(***************************************************************************)
\* The only steps that write a row.
RowWriter ==
    \/ \E r \in Runs : ClaimDispatchCandidate(r) \/ ReleaseDispatchClaim(r)
                                                 \/ MarkDispatchStarted(r)
    \/ \E h \in Handlers : ApplyCallback(h)
    \/ \E p \in Projects : MarkQueueItemPaused(p)

LEMMA RowWriters == Next => RowWriter \/ UNCHANGED queue
  BY DEF Next, Dispatcher, Worker, CallbackHandler, AlertCheck, Operator, RowWriter,
         Admit, ClaimRefused, PreflightOk, PreflightFails, Prepare, PostDispatch, DispatchFails,
         WorkerAccepts, WorkerRejects, WorkerEnds, Emit, BeginCallback, Recheck, RecordIgnored,
         ObserveWorker, PlanReconcile, ReconcileReplayed, Pause, Resume, Crash, ledger

\* What the handler of a pending apply writes.
LEMMA ApplyEffect ==
  ASSUME TypeOK, NEW h \in Handlers, ApplyCallback(h)
  PROVE  /\ handler[h] \in Pending
         /\ handler[h].callback \in Callback
         /\ handler[h].callback.run \in Runs
         /\ handler[h].callback.event \in Events
         /\ handler[h].outcome = "apply"
         /\ ProjectOf[handler[h].callback.run] \in Projects
         /\ queue' = [queue EXCEPT ![ProjectOf[handler[h].callback.run]] =
                        [status |-> StatusAfter(handler[h].callback.event), run |-> @.run,
                         last |-> StateAfter(handler[h].callback.event)]]
  BY RunsAssumption DEF TypeOK, ApplyCallback, Busy, Idle, Pending, Callback

\* No callback puts a row into dispatching, or back into the queue, and only a
\* terminal success completes it.
LEMMA StatusAfterEvent ==
  ASSUME NEW e \in Events
  PROVE  /\ StatusAfter(e) \notin {"dispatching", "queued"}
         /\ StatusAfter(e) = "completed" <=> e \in TerminalSuccess
         /\ StatusAfter(e) \in ActiveStatuses => e = "session_started"
  BY DEF StatusAfter, Events, TerminalSuccess, GateFailures, ActiveStatuses

\* Pausing one row leaves its run and every other row as they are.
LEMMA PauseEffect ==
  ASSUME TypeOK, NEW p \in Projects, MarkQueueItemPaused(p)
  PROVE  /\ queue'[p].status = "paused"
         /\ queue'[p].run = queue[p].run
         /\ \A q \in Projects \ {p} : queue'[q] = queue[q]
         /\ UNCHANGED <<runs, recorded, dispatch, handler, plans, worker, sent>>
  <1>1. queue' = [queue EXCEPT ![p] = [@ EXCEPT !.status = "paused"]]
    BY DEF MarkQueueItemPaused
  <1>2. queue[p] \in QueueRow
    BY DEF TypeOK
  <1>3. /\ [queue[p] EXCEPT !.status = "paused"].status = "paused"
        /\ [queue[p] EXCEPT !.status = "paused"].run = queue[p].run
    BY <1>2 DEF QueueRow
  <1>4. UNCHANGED <<runs, recorded, dispatch, handler, plans, worker, sent>>
    BY DEF MarkQueueItemPaused, dispatchers, requests, world
  <1>5. QED
    BY <1>1, <1>3, <1>4 DEF TypeOK

LEMMA DispatchingExclusiveStep ==
  ASSUME TypeOK, DispatchingExclusive, [Next]_vars
  PROVE  DispatchingExclusive'
  <1> USE LanesAssumption, RunsAssumption
  <1> USE DEF TypeOK, QueueRow, DispatchingExclusive
  <1>1. ASSUME NEW r \in Runs, ClaimDispatchCandidate(r) PROVE DispatchingExclusive'
    BY <1>1 DEF ClaimDispatchCandidate, Claimable, Active, ActiveStatuses, RunLane
  <1>2. ASSUME NEW r \in Runs, ReleaseDispatchClaim(r) PROVE DispatchingExclusive'
    BY <1>2 DEF ReleaseDispatchClaim
  <1>3. ASSUME NEW r \in Runs, MarkDispatchStarted(r) PROVE DispatchingExclusive'
    BY <1>3 DEF MarkDispatchStarted
  <1>4. ASSUME NEW h \in Handlers, ApplyCallback(h) PROVE DispatchingExclusive'
    <2> DEFINE c == handler[h].callback
    <2>1. /\ c.event \in Events /\ ProjectOf[c.run] \in Projects
          /\ queue' = [queue EXCEPT ![ProjectOf[c.run]] =
                         [status |-> StatusAfter(c.event), run |-> @.run,
                          last |-> StateAfter(c.event)]]
      BY <1>4, ApplyEffect DEF TypeOK
    <2>2. StatusAfter(c.event) # "dispatching"
      BY <2>1, StatusAfterEvent
    <2>3. QED
      BY <2>1, <2>2
  <1>5. ASSUME NEW p \in Projects, MarkQueueItemPaused(p) PROVE DispatchingExclusive'
    BY <1>5 DEF MarkQueueItemPaused
  <1>6. CASE UNCHANGED queue
    BY <1>6
  <1>7. QED
    BY <1>1, <1>2, <1>3, <1>4, <1>5, <1>6, RowWriters DEF RowWriter, vars

\* One hand-off per lane, for every number of projects, lanes, dispatchers and
\* handlers, and under every disturbance: the lane check of
\* claim_dispatch_candidate is enough by itself.
THEOREM HandOffExclusive == Spec => []DispatchingExclusive
  <1>1. Init => DispatchingExclusive
    BY DEF Init, DispatchingExclusive
  <1>2. TypeOK /\ DispatchingExclusive /\ [Next]_vars => DispatchingExclusive'
    BY DispatchingExclusiveStep
  <1>3. QED
    BY <1>1, <1>2, TypeCorrect, PTL DEF Spec

\* An applied event stays applied.
LEMMA AppliedKept ==
  ASSUME TypeOK, [Next]_vars, NEW c \in Callback, recorded[c] = "applied"
  PROVE  recorded'[c] = "applied"
  <1> USE DEF TypeOK
  <1>1. ASSUME NEW h \in Handlers, ApplyCallback(h) PROVE recorded'[c] = "applied"
    BY <1>1 DEF ApplyCallback
  <1>2. ASSUME NEW h \in Handlers, RecordIgnored(h) PROVE recorded'[c] = "applied"
    BY <1>2 DEF RecordIgnored
  <1>3. CASE UNCHANGED recorded
    BY <1>3
  <1>4. QED
    BY <1>1, <1>2, <1>3
    DEF Next, Dispatcher, Worker, CallbackHandler, AlertCheck, Operator,
        Admit, ClaimDispatchCandidate, ClaimRefused, PreflightOk, PreflightFails, Prepare,
        PostDispatch, DispatchFails, ReleaseDispatchClaim, MarkDispatchStarted,
        WorkerAccepts, WorkerRejects, WorkerEnds, Emit, BeginCallback, Recheck,
        ObserveWorker, PlanReconcile, ReconcileReplayed, Pause, Resume,
        MarkQueueItemPaused, Crash, ledger, vars

LEMMA CompletedBackedStep ==
  ASSUME TypeOK, CompletedBacked, [Next]_vars
  PROVE  CompletedBacked'
  <1> DEFINE Backed(p) == \E c \in Callback : /\ recorded[c] = "applied"
                                              /\ ProjectOf[c.run] = p
                                              /\ c.event \in TerminalSuccess
  <1>1. SUFFICES ASSUME NEW p \in Projects, queue'[p].status = "completed"
                 PROVE  Backed(p)'
    BY DEF CompletedBacked
  <1>2. Backed(p) => Backed(p)'
    BY AppliedKept
  <1>3. queue[p].status = "completed" => Backed(p)
    BY DEF CompletedBacked
  <1>4. ASSUME NEW h \in Handlers, ApplyCallback(h),
               ProjectOf[handler[h].callback.run] = p
        PROVE  Backed(p)'
    <2> DEFINE c == handler[h].callback
    <2>1. /\ c \in Callback /\ c.event \in Events
          /\ queue' = [queue EXCEPT ![p] = [status |-> StatusAfter(c.event), run |-> @.run,
                                           last |-> StateAfter(c.event)]]
      BY <1>4, ApplyEffect
    <2>2. c.event \in TerminalSuccess
      <3>1. queue'[p].status = StatusAfter(c.event)
        BY <2>1 DEF TypeOK
      <3>2. QED
        BY <1>1, <2>1, <3>1, StatusAfterEvent
    <2>3. recorded'[c] = "applied"
      BY <1>4, <2>1 DEF ApplyCallback, TypeOK
    <2>4. QED
      BY <2>1, <2>2, <2>3, <1>4
  <1>5. ASSUME NEW h \in Handlers, ApplyCallback(h),
               ProjectOf[handler[h].callback.run] # p
        PROVE  queue'[p] = queue[p]
    <2>1. queue' = [queue EXCEPT ![ProjectOf[handler[h].callback.run]] =
                      [status |-> StatusAfter(handler[h].callback.event), run |-> @.run,
                       last |-> StateAfter(handler[h].callback.event)]]
      BY <1>5, ApplyEffect
    <2>2. QED
      BY <1>5, <2>1 DEF TypeOK
  <1>6. ASSUME NEW r \in Runs, ClaimDispatchCandidate(r) \/ ReleaseDispatchClaim(r)
                                                         \/ MarkDispatchStarted(r)
        PROVE  queue'[p].status # "completed" \/ queue'[p] = queue[p]
    BY <1>6, RunsAssumption
    DEF ClaimDispatchCandidate, ReleaseDispatchClaim, MarkDispatchStarted, TypeOK
  <1>7. ASSUME NEW q \in Projects, MarkQueueItemPaused(q)
        PROVE  queue'[p].status # "completed" \/ queue'[p] = queue[p]
    BY <1>7, PauseEffect
  <1>8. QED
    BY <1>1, <1>2, <1>3, <1>4, <1>5, <1>6, <1>7, RowWriters DEF RowWriter, vars

\* Completion is earned, for every set of reports and every disturbance: a
\* completed row has a recorded terminal success of a run of its project.
THEOREM CompletionEarned == Spec => []CompletedBacked
  <1>1. Init => CompletedBacked
    BY DEF Init, CompletedBacked
  <1>2. TypeOK /\ CompletedBacked /\ [Next]_vars => CompletedBacked'
    BY CompletedBackedStep
  <1>3. QED
    BY <1>1, <1>2, TypeCorrect, PTL DEF Spec

-----------------------------------------------------------------------------
(***************************************************************************)
(* Who holds a queue row                                                   *)
(***************************************************************************)
\* Reports end a run. (session_started would make a row active again; nothing
\* in the repository sends it, although the endpoint accepts it.)
TerminalSignals == \A s \in Signals : s[2] # "session_started"

\* Steps of a dispatcher that has not claimed its row, or never will.
Unclaimed == {"new", "admitted", "refused"}

\* A row names a run of its own project that was handed off once.
RowNamesItsRun ==
    \A p \in Projects : queue[p].run # NoRun =>
        /\ ProjectOf[queue[p].run] = p
        /\ dispatch[queue[p].run] \notin Unclaimed

\* An active row whose run is in hand-off, or was released, is in dispatching
\* and still in hand-off.
ActiveRowOfDispatcher ==
    \A r \in Runs :
        (/\ queue[ProjectOf[r]].run = r
         /\ Active(ProjectOf[r])
         /\ dispatch[r] \in HandOff \cup {"released"})
            => dispatch[r] \in HandOff /\ queue[ProjectOf[r]].status = "dispatching"

ReleaseInv == TypeOK /\ RowNamesItsRun /\ ActiveRowOfDispatcher

-----------------------------------------------------------------------------
\* What a step of a dispatcher does to the steps of all of them.
LEMMA ApplyEnds ==
  ASSUME TerminalSignals, TypeOK, NEW h \in Handlers, ApplyCallback(h)
  PROVE  LET c == handler[h].callback IN
         /\ c.run \in Runs
         /\ ProjectOf[c.run] \in Projects
         /\ StatusAfter(c.event) \notin ActiveStatuses \cup {"queued"}
         /\ queue' = [queue EXCEPT ![ProjectOf[c.run]] =
                        [status |-> StatusAfter(c.event), run |-> @.run,
                         last |-> StateAfter(c.event)]]
         /\ dispatch' = dispatch
  <1> DEFINE c == handler[h].callback
  <1>1. /\ c \in Callback /\ c.run \in Runs /\ c.event \in Events
        /\ ProjectOf[c.run] \in Projects
        /\ queue' = [queue EXCEPT ![ProjectOf[c.run]] =
                        [status |-> StatusAfter(c.event), run |-> @.run,
                         last |-> StateAfter(c.event)]]
    BY ApplyEffect
  <1>2. c.event # "session_started"
    BY <1>1 DEF TerminalSignals, Callback
  <1>3. StatusAfter(c.event) \notin ActiveStatuses \cup {"queued"}
    BY <1>1, <1>2, StatusAfterEvent
  <1>4. dispatch' = dispatch
    BY DEF ApplyCallback, dispatchers
  <1>5. QED
    BY <1>1, <1>3, <1>4

LEMMA ReleaseInvInit == Init => ReleaseInv
  BY InitTypeOK, RunsAssumption
  DEF Init, ReleaseInv, RowNamesItsRun, ActiveRowOfDispatcher, HandOff

LEMMA ReleaseInvStep ==
  ASSUME TerminalSignals, ReleaseInv, Next
  PROVE  RowNamesItsRun' /\ ActiveRowOfDispatcher'
  <1> USE RunsAssumption
  <1>0. TypeOK /\ RowNamesItsRun /\ ActiveRowOfDispatcher
    BY DEF ReleaseInv
  <1>a. /\ queue \in [Projects -> QueueRow] /\ dispatch \in [Runs -> DispatchSteps]
        /\ queue' \in [Projects -> QueueRow] /\ dispatch' \in [Runs -> DispatchSteps]
    BY <1>0, NextTypeOK DEF TypeOK
  <1> USE DEF QueueRow, RowNamesItsRun, ActiveRowOfDispatcher, Active, HandOff, Unclaimed, At, MoveTo
  <1>1. ASSUME NEW r \in Runs, ClaimDispatchCandidate(r)
        PROVE  RowNamesItsRun' /\ ActiveRowOfDispatcher'
    BY <1>0, <1>a, <1>1 DEF ClaimDispatchCandidate
  <1>2. ASSUME NEW r \in Runs, ReleaseDispatchClaim(r)
        PROVE  RowNamesItsRun' /\ ActiveRowOfDispatcher'
    BY <1>0, <1>a, <1>2 DEF ReleaseDispatchClaim, HoldsClaim, ActiveStatuses
  <1>3. ASSUME NEW r \in Runs, MarkDispatchStarted(r)
        PROVE  RowNamesItsRun' /\ ActiveRowOfDispatcher'
    BY <1>0, <1>a, <1>3 DEF MarkDispatchStarted
  <1>4. ASSUME NEW h \in Handlers, ApplyCallback(h)
        PROVE  RowNamesItsRun' /\ ActiveRowOfDispatcher'
    <2> DEFINE c == handler[h].callback
    <2>1. /\ c.run \in Runs /\ ProjectOf[c.run] \in Projects
          /\ StatusAfter(c.event) \notin ActiveStatuses \cup {"queued"}
          /\ queue' = [queue EXCEPT ![ProjectOf[c.run]] =
                         [status |-> StatusAfter(c.event), run |-> @.run,
                          last |-> StateAfter(c.event)]]
          /\ dispatch' = dispatch
      BY <1>0, <1>4, ApplyEnds
    <2>2. RowNamesItsRun'
      BY <1>0, <1>a, <2>1
    <2>3. ActiveRowOfDispatcher'
      BY <1>0, <1>a, <2>1
    <2>4. QED
      BY <2>2, <2>3
  <1>5. ASSUME NEW p \in Projects, MarkQueueItemPaused(p)
        PROVE  RowNamesItsRun' /\ ActiveRowOfDispatcher'
    <2>1. /\ dispatch' = dispatch
          /\ queue'[p].status = "paused"
          /\ \A q \in Projects : queue'[q].run = queue[q].run
          /\ \A q \in Projects : q # p => queue'[q] = queue[q]
      BY <1>0, <1>5, PauseEffect
    <2>2. RowNamesItsRun'
      BY <1>0, <2>1
    <2>3. ActiveRowOfDispatcher'
      BY <1>0, <2>1 DEF ActiveStatuses
    <2>4. QED
      BY <2>2, <2>3
  <1>6. ASSUME NEW r \in Runs, UNCHANGED queue,
               \/ Admit(r) \/ ClaimRefused(r) \/ PreflightOk(r) \/ PreflightFails(r)
               \/ Prepare(r) \/ PostDispatch(r) \/ DispatchFails(r)
        PROVE  RowNamesItsRun' /\ ActiveRowOfDispatcher'
    BY <1>0, <1>a, <1>6
    DEF Admit, ClaimRefused, PreflightOk, PreflightFails, Prepare, PostDispatch, DispatchFails
  <1>7. CASE Crash
    BY <1>0, <1>a, <1>7 DEF Crash, ledger
  <1>8. CASE UNCHANGED <<queue, dispatch>>
    BY <1>0, <1>8
  <1>9. QED
    BY <1>1, <1>2, <1>3, <1>4, <1>5, <1>6, <1>7, <1>8
    DEF Next, Dispatcher, Worker, CallbackHandler, AlertCheck, Operator,
        Admit, ClaimRefused, PreflightOk, PreflightFails, Prepare, PostDispatch, DispatchFails,
        WorkerAccepts, WorkerRejects, WorkerEnds, Emit, BeginCallback, Recheck, RecordIgnored,
        ObserveWorker, PlanReconcile, ReconcileReplayed, Pause, Resume, ledger, dispatchers

\* A dispatcher that answered its caller with an error leaves no active row
\* behind, whatever callbacks, pauses, restarts and lost answers crossed it.
THEOREM ReleaseComplete ==
  ASSUME TerminalSignals
  PROVE  Spec => []SettledReleasesRow
  <1>1. Init => ReleaseInv
    BY ReleaseInvInit
  <1>2. ReleaseInv /\ [Next]_vars => ReleaseInv'
    <2>1. ASSUME ReleaseInv, UNCHANGED vars PROVE RowNamesItsRun' /\ ActiveRowOfDispatcher'
      BY <2>1 DEF ReleaseInv, RowNamesItsRun, ActiveRowOfDispatcher, Active, vars
    <2>2. QED
      BY <2>1, NextTypeOK, ReleaseInvStep DEF ReleaseInv
  <1>3. ReleaseInv => SettledReleasesRow
    BY RunsAssumption
    DEF ReleaseInv, RowNamesItsRun, ActiveRowOfDispatcher, SettledReleasesRow,
        At, HandOff, Unclaimed, TypeOK, DispatchSteps
  <1>4. QED
    BY <1>1, <1>2, <1>3, PTL DEF Spec

-----------------------------------------------------------------------------
(***************************************************************************)
(* The lane lease                                                          *)
(***************************************************************************)
\* Nobody reports on or reconciles a run while it is handed off, and no
\* operator takes a row out of the hand-off by hand.
Orderly ==
    Disturbances \cap {"early_callback", "hasty_reconcile", "mark_paused"} = {}

Final == {"started", "released", "crashed"}

\* A queued row names no run.
QueuedRowFree == \A p \in Projects : queue[p].status = "queued" => queue[p].run = NoRun

\* The worker knows a run only once it was posted, and its end is the end of
\* the hand-off too.
WorkerFollows ==
    \A r \in Runs :
        /\ worker[r] # "none" => dispatch[r] \in {"posted", "releasing"} \cup Final
        /\ worker[r] = "ended" => dispatch[r] \in Final

\* Reports, planned reconciliations and handlers concern finished hand-offs.
ReportsAreOfFinal ==
    /\ \A c \in sent : dispatch[c.run] \in Final
    /\ \A r \in plans : dispatch[r] \in Final
    /\ \A h \in Handlers : Busy(h) => dispatch[handler[h].callback.run] \in Final

\* What a handler is about to apply is still of the row's current run.
PendingIsCurrent ==
    \A h \in Handlers : (Busy(h) /\ handler[h].outcome = "apply") =>
        LET r == handler[h].callback.run IN queue[ProjectOf[r]].run = r

LeaseInv ==
    /\ ReleaseInv
    /\ QueuedRowFree
    /\ OwnsClaim
    /\ LaneExclusive
    /\ WorkerFollows
    /\ ReportsAreOfFinal
    /\ PendingIsCurrent

LEMMA LeaseInvInit == Init => LeaseInv
  <1>1. Init => ReleaseInv
    BY ReleaseInvInit
  <1>2. Init => QueuedRowFree /\ LaneExclusive
    BY DEF Init, QueuedRowFree, LaneExclusive, Active, ActiveStatuses
  <1>3. Init => OwnsClaim /\ WorkerFollows
    BY DEF Init, OwnsClaim, HandOff, WorkerFollows
  <1>4. Init => ReportsAreOfFinal /\ PendingIsCurrent
    BY DEF Init, ReportsAreOfFinal, PendingIsCurrent, Busy
  <1>5. QED
    BY <1>1, <1>2, <1>3, <1>4 DEF LeaseInv

\* Where a dispatcher can go.
LEMMA DispatchMoves ==
  ASSUME TypeOK, Next
  PROVE  \A r \in Runs :
            \/ dispatch'[r] = dispatch[r]
            \/ dispatch[r] \in {"new", "admitted"} /\ dispatch'[r] \in Unclaimed \cup {"crashed"}
            \/ dispatch[r] = "admitted" /\ dispatch'[r] = "claimed" /\ ClaimDispatchCandidate(r)
            \/ dispatch[r] \in HandOff /\ dispatch'[r] = "crashed"
            \/ dispatch[r] \in {"claimed", "preflighted"}
                 /\ dispatch'[r] \in {"preflighted", "prepared", "releasing"}
            \/ dispatch[r] = "prepared" /\ dispatch'[r] = "posted"
            \/ dispatch[r] = "posted" /\ dispatch'[r] = "releasing"
            \/ dispatch[r] = "posted" /\ dispatch'[r] = "started" /\ MarkDispatchStarted(r)
            \/ dispatch[r] = "releasing" /\ dispatch'[r] = "released" /\ ReleaseDispatchClaim(r)
  <1>a. dispatch \in [Runs -> DispatchSteps]
    BY DEF TypeOK
  <1>1. CASE UNCHANGED dispatch
    BY <1>1
  <1>2. CASE Crash
    BY <1>a, <1>2 DEF Crash, Unclaimed
  <1>3. CASE \E r \in Runs : Dispatcher(r)
    <2>1. PICK r \in Runs : Dispatcher(r)
      BY <1>3
    <2> USE <1>a DEF At, MoveTo
    <2>2. CASE Admit(r)
      BY <2>2 DEF Admit, Unclaimed
    <2>3. CASE ClaimDispatchCandidate(r)
      <3>1. dispatch[r] = "admitted" /\ dispatch' = [dispatch EXCEPT ![r] = "claimed"]
        BY <2>3 DEF ClaimDispatchCandidate
      <3>2. QED
        BY <2>3, <3>1
    <2>4. CASE ClaimRefused(r)
      BY <2>4 DEF ClaimRefused, Unclaimed
    <2>5. CASE PreflightOk(r) \/ PreflightFails(r) \/ Prepare(r)
      BY <2>5 DEF PreflightOk, PreflightFails, Prepare
    <2>6. CASE PostDispatch(r) \/ DispatchFails(r)
      BY <2>6 DEF PostDispatch, DispatchFails
    <2>7. CASE ReleaseDispatchClaim(r)
      <3>1. dispatch[r] = "releasing" /\ dispatch' = [dispatch EXCEPT ![r] = "released"]
        BY <2>7 DEF ReleaseDispatchClaim
      <3>2. QED
        BY <2>7, <3>1
    <2>8. CASE MarkDispatchStarted(r)
      <3>1. dispatch[r] = "posted" /\ dispatch' = [dispatch EXCEPT ![r] = "started"]
        BY <2>8 DEF MarkDispatchStarted
      <3>2. QED
        BY <2>8, <3>1
    <2>9. QED
      BY <2>1, <2>2, <2>3, <2>4, <2>5, <2>6, <2>7, <2>8 DEF Dispatcher
  <1>4. QED
    BY <1>1, <1>2, <1>3
    DEF Next, Worker, CallbackHandler, AlertCheck, Operator,
        WorkerAccepts, WorkerRejects, WorkerEnds, Emit, BeginCallback, Recheck, ApplyCallback,
        RecordIgnored, ObserveWorker, PlanReconcile, ReconcileReplayed, Pause, Resume,
        MarkQueueItemPaused, dispatchers

\* A settled dispatcher stays where it is.
LEMMA FinalStays ==
  ASSUME TypeOK, Next, NEW r \in Runs, dispatch[r] \in Final
  PROVE  dispatch'[r] = dispatch[r]
  BY DispatchMoves DEF Final, HandOff

LEMMA WorkerFollowsStep ==
  ASSUME Orderly, LeaseInv, Next
  PROVE  WorkerFollows'
  <1>1. SUFFICES ASSUME NEW r \in Runs
                 PROVE  /\ worker'[r] # "none" =>
                             dispatch'[r] \in {"posted", "releasing"} \cup Final
                        /\ worker'[r] = "ended" => dispatch'[r] \in Final
    BY DEF WorkerFollows
  <1>2. /\ TypeOK
        /\ worker[r] # "none" => dispatch[r] \in {"posted", "releasing"} \cup Final
        /\ worker[r] = "ended" => dispatch[r] \in Final
    BY DEF LeaseInv, ReleaseInv, WorkerFollows
  <1>3. /\ dispatch[r] \in {"posted", "releasing"} \cup Final =>
             dispatch'[r] \in {"posted", "releasing"} \cup Final
        /\ dispatch[r] \in Final => dispatch'[r] \in Final
    BY <1>2, DispatchMoves DEF Final, HandOff
  <1>4. CASE worker'[r] = worker[r]
    BY <1>2, <1>3, <1>4
  <1>5. CASE worker'[r] # worker[r]
    <2>1. PostDispatch(r) \/ WorkerAccepts(r) \/ WorkerRejects(r) \/ WorkerEnds(r)
      <3>1. worker \in [Runs -> {"none", "requested", "running", "ended", "rejected"}]
        BY <1>2 DEF TypeOK
      <3>2. PICK s \in Runs :
              PostDispatch(s) \/ WorkerAccepts(s) \/ WorkerRejects(s) \/ WorkerEnds(s)
        BY <1>5
        DEF Next, Dispatcher, Worker, CallbackHandler, AlertCheck, Operator,
            Admit, ClaimDispatchCandidate, ClaimRefused, PreflightOk, PreflightFails, Prepare,
            DispatchFails, ReleaseDispatchClaim, MarkDispatchStarted, Emit,
            BeginCallback, Recheck, ApplyCallback, RecordIgnored, ObserveWorker,
            PlanReconcile, ReconcileReplayed, Pause, Resume, MarkQueueItemPaused, Crash, world
      <3>3. s = r
        BY <1>5, <3>1, <3>2 DEF PostDispatch, WorkerAccepts, WorkerRejects, WorkerEnds
      <3>4. QED
        BY <3>2, <3>3
    <2>2. CASE PostDispatch(r)
      BY <1>2, <2>2 DEF PostDispatch, MoveTo, TypeOK
    <2>3. CASE WorkerAccepts(r) \/ WorkerRejects(r)
      BY <1>2, <1>3, <2>3 DEF WorkerAccepts, WorkerRejects, TypeOK
    <2>4. CASE WorkerEnds(r)
      BY <1>2, <1>3, <2>4 DEF WorkerEnds, Orderly, HandOff
    <2>5. QED
      BY <2>1, <2>2, <2>3, <2>4
  <1>6. QED
    BY <1>4, <1>5

LEMMA ReportsAreOfFinalStep ==
  ASSUME Orderly, LeaseInv, Next
  PROVE  ReportsAreOfFinal'
  <1>1. /\ TypeOK /\ ReportsAreOfFinal /\ WorkerFollows /\ RowNamesItsRun
        /\ sent \subseteq Callback /\ plans \subseteq Runs
        /\ handler \in [Handlers -> {Idle} \cup Pending]
        /\ dispatch \in [Runs -> DispatchSteps]
        /\ queue \in [Projects -> QueueRow]
    BY DEF LeaseInv, ReleaseInv, TypeOK
  <1>2. \A r \in Runs : dispatch[r] \in Final => dispatch'[r] \in Final
    BY <1>1, FinalStays
  <1>3. /\ \A c \in sent : c.run \in Runs
        /\ \A h \in Handlers : Busy(h) => handler[h].callback.run \in Runs
    BY <1>1 DEF Callback, Busy, Pending
  <1>4. CASE UNCHANGED <<sent, plans, handler>>
    BY <1>1, <1>2, <1>3, <1>4 DEF ReportsAreOfFinal, Busy
  <1>5. ASSUME NEW r \in Runs, Emit(r) PROVE ReportsAreOfFinal'
    BY <1>1, <1>2, <1>3, <1>5 DEF Emit, ReportsAreOfFinal, WorkerFollows, Busy, requests
  <1>6. ASSUME NEW h \in Handlers, BeginCallback(h) PROVE ReportsAreOfFinal'
    <2>1. PICK c \in sent \cup {Reconciliation(r) : r \in plans} :
            /\ handler' = [handler EXCEPT ![h] =
                 [callback |-> c, outcome |-> Outcome(queue[ProjectOf[c.run]], c)]]
            /\ plans' = IF c.source = "reconcile" THEN plans \ {c.run} ELSE plans
      BY <1>6 DEF BeginCallback
    <2>2. c.run \in Runs /\ dispatch[c.run] \in Final
      BY <1>1, <1>3 DEF Reconciliation, ReportsAreOfFinal
    <2>3. sent' = sent /\ plans' \subseteq plans
      BY <1>6, <2>1 DEF BeginCallback, world
    <2>4. \A g \in Handlers : Busy(g)' => dispatch'[handler'[g].callback.run] \in Final
      BY <1>1, <1>2, <1>3, <2>1, <2>2 DEF ReportsAreOfFinal, Busy
    <2>5. QED
      BY <1>1, <1>2, <1>3, <2>3, <2>4 DEF ReportsAreOfFinal
  <1>7. ASSUME NEW r \in Runs, ReconcileReplayed(r) PROVE ReportsAreOfFinal'
    BY <1>1, <1>2, <1>3, <1>7 DEF ReconcileReplayed, ReportsAreOfFinal, Busy, world
  <1>8. ASSUME NEW h \in Handlers, Recheck(h) \/ ApplyCallback(h) \/ RecordIgnored(h)
        PROVE  ReportsAreOfFinal'
    <2>1. /\ sent' = sent /\ plans' = plans /\ handler' = [handler EXCEPT ![h] = Idle]
      BY <1>8 DEF Recheck, ApplyCallback, RecordIgnored, world
    <2>2. QED
      BY <1>1, <1>2, <1>3, <2>1 DEF ReportsAreOfFinal, Busy
  <1>9. ASSUME NEW p \in Projects, PlanReconcile(p) PROVE ReportsAreOfFinal'
    <2>1. /\ queue[p].run \in Runs /\ dispatch[queue[p].run] \notin HandOff \cup Unclaimed
      BY <1>1, <1>9 DEF PlanReconcile, Orderly, QueueRow, RowNamesItsRun
    <2>2. dispatch[queue[p].run] \in Final
      BY <1>1, <2>1 DEF DispatchSteps, HandOff, Unclaimed, Final
    <2>3. plans' = plans \cup {queue[p].run} /\ UNCHANGED <<sent, handler>>
      BY <1>9 DEF PlanReconcile, world
    <2>4. QED
      BY <1>1, <1>2, <1>3, <2>1, <2>2, <2>3 DEF ReportsAreOfFinal, Busy
  <1>10. CASE Crash
    BY <1>1, <1>2, <1>3, <1>10 DEF Crash, ReportsAreOfFinal, Busy
  <1>11. QED
    BY <1>4, <1>5, <1>6, <1>7, <1>8, <1>9, <1>10
    DEF Next, Dispatcher, Worker, CallbackHandler, AlertCheck, Operator,
        Admit, ClaimDispatchCandidate, ClaimRefused, PreflightOk, PreflightFails, Prepare,
        PostDispatch, DispatchFails, ReleaseDispatchClaim, MarkDispatchStarted,
        WorkerAccepts, WorkerRejects, WorkerEnds, ObserveWorker, Pause, Resume,
        MarkQueueItemPaused, requests, world

\* The effect of the row writers on who holds a row, one lemma per invariant.
LEMMA RowFacts ==
  ASSUME LeaseInv, Next
  PROVE  /\ TypeOK /\ RowNamesItsRun /\ QueuedRowFree /\ OwnsClaim /\ LaneExclusive
         /\ ReportsAreOfFinal /\ PendingIsCurrent
         /\ queue \in [Projects -> QueueRow] /\ dispatch \in [Runs -> DispatchSteps]
         /\ handler \in [Handlers -> {Idle} \cup Pending]
         /\ queue' \in [Projects -> QueueRow] /\ dispatch' \in [Runs -> DispatchSteps]
  BY NextTypeOK DEF LeaseInv, ReleaseInv, TypeOK

LEMMA OrderlyWriters ==
  ASSUME Orderly, Next
  PROVE  \/ \E r \in Runs : ClaimDispatchCandidate(r) \/ ReleaseDispatchClaim(r)
                                                      \/ MarkDispatchStarted(r)
         \/ \E h \in Handlers : ApplyCallback(h)
         \/ UNCHANGED queue
  BY RowWriters DEF RowWriter, Orderly, MarkQueueItemPaused

\* An applied report concerns a row whose run is past its hand-off.
LEMMA ApplyIsCurrent ==
  ASSUME TerminalSignals, LeaseInv, Next, NEW h \in Handlers, ApplyCallback(h)
  PROVE  LET r == handler[h].callback.run IN
         /\ r \in Runs /\ ProjectOf[r] \in Projects
         /\ queue[ProjectOf[r]].run = r
         /\ dispatch[r] \in Final /\ dispatch' = dispatch
         /\ queue[ProjectOf[r]].status # "queued"
         /\ \E status \in Statuses \ (ActiveStatuses \cup {"queued"}), last \in LastStates :
               queue' = [queue EXCEPT ![ProjectOf[r]] =
                           [status |-> status, run |-> @.run, last |-> last]]
  <1> DEFINE c == handler[h].callback
  <1>1. /\ c.run \in Runs /\ ProjectOf[c.run] \in Projects /\ c.event \in Events
        /\ Busy(h) /\ handler[h].outcome = "apply"
    BY RowFacts, ApplyEffect DEF ApplyCallback
  <1>2. queue[ProjectOf[c.run]].run = c.run /\ dispatch[c.run] \in Final
    BY <1>1, RowFacts DEF PendingIsCurrent, ReportsAreOfFinal
  <1>3. queue[ProjectOf[c.run]].status # "queued"
    BY <1>1, <1>2, RowFacts, RunsAssumption DEF QueuedRowFree
  <1>4. StatusAfter(c.event) \in Statuses /\ StateAfter(c.event) \in LastStates
    BY <1>1 DEF StatusAfter, StateAfter, Statuses, ActiveStatuses, LastStates, Events,
                TerminalSuccess, GateFailures
  <1>5. /\ StatusAfter(c.event) \notin ActiveStatuses \cup {"queued"}
        /\ queue' = [queue EXCEPT ![ProjectOf[c.run]] =
                       [status |-> StatusAfter(c.event), run |-> @.run,
                        last |-> StateAfter(c.event)]]
        /\ dispatch' = dispatch
    BY RowFacts, ApplyEnds
  <1>6. QED
    BY <1>1, <1>2, <1>3, <1>4, <1>5

LEMMA OwnsClaimStep ==
  ASSUME TerminalSignals, Orderly, LeaseInv, Next
  PROVE  OwnsClaim' /\ QueuedRowFree'
  <1>0. /\ OwnsClaim /\ QueuedRowFree
        /\ queue \in [Projects -> QueueRow] /\ dispatch \in [Runs -> DispatchSteps]
    BY RowFacts
  <1> USE RunsAssumption DEF OwnsClaim, QueuedRowFree, HoldsClaim, HandOff, At, MoveTo, QueueRow
  <1>1. ASSUME NEW r \in Runs, ClaimDispatchCandidate(r) PROVE OwnsClaim' /\ QueuedRowFree'
    BY <1>0, <1>1 DEF ClaimDispatchCandidate, Claimable
  <1>2. ASSUME NEW r \in Runs, ReleaseDispatchClaim(r) PROVE OwnsClaim' /\ QueuedRowFree'
    BY <1>0, <1>2 DEF ReleaseDispatchClaim
  <1>3. ASSUME NEW r \in Runs, MarkDispatchStarted(r) PROVE OwnsClaim' /\ QueuedRowFree'
    BY <1>0, <1>3 DEF MarkDispatchStarted
  <1>4. ASSUME NEW h \in Handlers, ApplyCallback(h) PROVE OwnsClaim' /\ QueuedRowFree'
    <2> DEFINE r == handler[h].callback.run
    <2>1. /\ r \in Runs /\ ProjectOf[r] \in Projects
          /\ queue[ProjectOf[r]].run = r /\ dispatch[r] \in Final /\ dispatch' = dispatch
      BY <1>4, ApplyIsCurrent
    <2>2. PICK status \in Statuses \ (ActiveStatuses \cup {"queued"}), last \in LastStates :
             queue' = [queue EXCEPT ![ProjectOf[r]] =
                           [status |-> status, run |-> @.run, last |-> last]]
      BY <1>4, ApplyIsCurrent
    <2>3. \A s \in Runs : dispatch[s] \in HandOff => ProjectOf[s] # ProjectOf[r]
      BY <1>0, <2>1 DEF Final
    <2>4. QED
      BY <1>0, <2>1, <2>2, <2>3
  <1>5. CASE UNCHANGED queue
    <2>1. \A r \in Runs : dispatch'[r] \in HandOff => dispatch[r] \in HandOff
                                                      \/ ClaimDispatchCandidate(r)
      BY RowFacts, DispatchMoves DEF Unclaimed
    <2>2. QED
      BY <1>0, <1>1, <1>5, <2>1
  <1>6. QED
    BY <1>1, <1>2, <1>3, <1>4, <1>5, OrderlyWriters

LEMMA LaneExclusiveStep ==
  ASSUME TerminalSignals, Orderly, LeaseInv, Next
  PROVE  LaneExclusive'
  <1>0. /\ OwnsClaim /\ LaneExclusive
        /\ queue \in [Projects -> QueueRow] /\ dispatch \in [Runs -> DispatchSteps]
    BY RowFacts
  <1> USE RunsAssumption DEF LaneExclusive, Active, QueueRow
  <1>1. ASSUME NEW r \in Runs, ClaimDispatchCandidate(r) PROVE LaneExclusive'
    BY <1>0, <1>1 DEF ClaimDispatchCandidate, Claimable, RunLane
  <1>2. ASSUME NEW r \in Runs, ReleaseDispatchClaim(r) PROVE LaneExclusive'
    BY <1>0, <1>2 DEF ReleaseDispatchClaim, ActiveStatuses
  <1>3. ASSUME NEW r \in Runs, MarkDispatchStarted(r) PROVE LaneExclusive'
    <2>1. queue[ProjectOf[r]].status = "dispatching"
      BY <1>0, <1>3 DEF MarkDispatchStarted, At, OwnsClaim, HoldsClaim, HandOff
    <2>2. \A p \in Projects : queue'[p].status \in ActiveStatuses =>
                                   queue[p].status \in ActiveStatuses
      BY <1>0, <1>3, <2>1 DEF MarkDispatchStarted, ActiveStatuses
    <2>3. QED
      BY <1>0, <2>2
  <1>4. ASSUME NEW h \in Handlers, ApplyCallback(h) PROVE LaneExclusive'
    <2> DEFINE r == handler[h].callback.run
    <2>1. PICK status \in Statuses \ (ActiveStatuses \cup {"queued"}), last \in LastStates :
             queue' = [queue EXCEPT ![ProjectOf[r]] =
                           [status |-> status, run |-> @.run, last |-> last]]
      BY <1>4, ApplyIsCurrent
    <2>2. \A p \in Projects : queue'[p].status \in ActiveStatuses =>
                                   queue[p].status \in ActiveStatuses
      BY <1>0, <2>1
    <2>3. QED
      BY <1>0, <2>2
  <1>5. CASE UNCHANGED queue
    BY <1>0, <1>5
  <1>6. QED
    BY <1>1, <1>2, <1>3, <1>4, <1>5, OrderlyWriters

LEMMA PendingIsCurrentStep ==
  ASSUME TerminalSignals, Orderly, LeaseInv, Next
  PROVE  PendingIsCurrent'
  <1>0. /\ OwnsClaim /\ QueuedRowFree /\ PendingIsCurrent /\ ReportsAreOfFinal
        /\ queue \in [Projects -> QueueRow] /\ dispatch \in [Runs -> DispatchSteps]
        /\ handler \in [Handlers -> {Idle} \cup Pending]
    BY RowFacts
  \* The run named by a row that a pending report is about cannot change.
  <1>1. ASSUME NEW r \in Runs, queue[ProjectOf[r]].run = r, dispatch[r] \in Final
        PROVE  queue'[ProjectOf[r]].run = r
    <2> DEFINE p == ProjectOf[r]
    <2>1. p \in Projects /\ queue[p].status # "queued"
      BY <1>0, <1>1, RunsAssumption DEF QueuedRowFree
    <2>2. ASSUME NEW s \in Runs, ClaimDispatchCandidate(s) PROVE queue'[p] = queue[p]
      <3>1. ProjectOf[s] # p
        BY <2>1, <2>2 DEF ClaimDispatchCandidate, Claimable
      <3>2. QED
        BY <1>0, <2>1, <2>2, <3>1 DEF ClaimDispatchCandidate
    <2>3. ASSUME NEW s \in Runs, ReleaseDispatchClaim(s) \/ MarkDispatchStarted(s)
          PROVE  queue'[p] = queue[p]
      <3>1. dispatch[s] \in HandOff
        BY <2>3 DEF ReleaseDispatchClaim, MarkDispatchStarted, At, HandOff
      <3>2. ProjectOf[s] # p
        BY <1>0, <1>1, <3>1 DEF OwnsClaim, HoldsClaim, HandOff, Final
      <3>3. QED
        BY <1>0, <2>1, <2>3, <3>2 DEF ReleaseDispatchClaim, MarkDispatchStarted
    <2>4. ASSUME NEW h \in Handlers, ApplyCallback(h) PROVE queue'[p].run = queue[p].run
      <3>1. PICK q \in Projects, status \in Statuses, last \in LastStates :
              queue' = [queue EXCEPT ![q] = [status |-> status, run |-> @.run, last |-> last]]
        BY <2>4, ApplyIsCurrent
      <3>2. QED
        BY <1>0, <2>1, <3>1
    <2>5. QED
      BY <1>1, <2>2, <2>3, <2>4, OrderlyWriters
  <1>2. ASSUME NEW h \in Handlers, Busy(h), handler[h].outcome = "apply", handler'[h] = handler[h]
        PROVE  queue'[ProjectOf[handler[h].callback.run]].run = handler[h].callback.run
    <2>1. handler[h].callback.run \in Runs
      BY <1>0, <1>2 DEF Busy, Pending, Callback
    <2>2. QED
      BY <1>0, <1>1, <1>2, <2>1 DEF PendingIsCurrent, ReportsAreOfFinal
  <1>3. SUFFICES ASSUME NEW h \in Handlers, Busy(h)', handler'[h].outcome = "apply",
                        handler'[h] # handler[h]
                 PROVE  queue'[ProjectOf[handler'[h].callback.run]].run = handler'[h].callback.run
    BY <1>2 DEF PendingIsCurrent, Busy
  <1>4. BeginCallback(h)
    <2>1. PICK g \in Handlers : BeginCallback(g) \/ handler' = [handler EXCEPT ![g] = Idle]
      BY <1>3
      DEF Next, Dispatcher, Worker, CallbackHandler, AlertCheck, Operator,
          Admit, ClaimDispatchCandidate, ClaimRefused, PreflightOk, PreflightFails, Prepare,
          PostDispatch, DispatchFails, ReleaseDispatchClaim, MarkDispatchStarted,
          WorkerAccepts, WorkerRejects, WorkerEnds, Emit, Recheck, ApplyCallback, RecordIgnored,
          ObserveWorker, PlanReconcile, ReconcileReplayed, Pause, Resume, MarkQueueItemPaused,
          Crash, requests, Busy
    <2>2. g = h
      BY <1>0, <1>3, <2>1 DEF BeginCallback
    <2>3. handler' # [handler EXCEPT ![g] = Idle]
      BY <1>0, <1>3, <2>2 DEF Busy
    <2>4. QED
      BY <2>1, <2>2, <2>3
  <1>5. PICK c \in sent \cup {Reconciliation(r) : r \in plans} :
          handler' = [handler EXCEPT ![h] =
                       [callback |-> c, outcome |-> Outcome(queue[ProjectOf[c.run]], c)]]
    BY <1>4 DEF BeginCallback
  <1>6. handler'[h] = [callback |-> c, outcome |-> Outcome(queue[ProjectOf[c.run]], c)]
    BY <1>0, <1>5
  <1>7. Outcome(queue[ProjectOf[c.run]], c) = "apply"
    BY <1>3, <1>6
  <1>8. queue[ProjectOf[c.run]].run = c.run
    BY <1>7 DEF Outcome
  <1>9. queue' = queue
    BY <1>4 DEF BeginCallback, ledger
  <1>10. QED
    BY <1>6, <1>8, <1>9

LEMMA LeaseInvStep ==
  ASSUME TerminalSignals, Orderly
  PROVE  LeaseInv /\ [Next]_vars => LeaseInv'
  <1>1. ASSUME LeaseInv, UNCHANGED vars PROVE LeaseInv'
    BY <1>1 DEF LeaseInv, ReleaseInv, TypeOK, RowNamesItsRun, ActiveRowOfDispatcher,
         QueuedRowFree, OwnsClaim, HoldsClaim, LaneExclusive, Active, WorkerFollows,
         ReportsAreOfFinal, PendingIsCurrent, Busy, vars
  <1>2. ASSUME LeaseInv, Next PROVE LeaseInv'
    <2>1. ReleaseInv'
      BY <1>2, NextTypeOK, ReleaseInvStep DEF LeaseInv, ReleaseInv
    <2>2. OwnsClaim' /\ QueuedRowFree' /\ LaneExclusive'
      BY <1>2, OwnsClaimStep, LaneExclusiveStep
    <2>3. WorkerFollows' /\ ReportsAreOfFinal' /\ PendingIsCurrent'
      BY <1>2, WorkerFollowsStep, ReportsAreOfFinalStep, PendingIsCurrentStep
    <2>4. QED
      BY <2>1, <2>2, <2>3 DEF LeaseInv
  <1>3. QED
    BY <1>1, <1>2

\* One active row per lane, with any number of lanes, projects, runs and
\* request threads, and with lost answers, late arrivals, restarts, operator
\* holds and reconciliations at any time.
THEOREM LaneLeaseExclusive ==
  ASSUME TerminalSignals, Orderly
  PROVE  Spec => []LaneExclusive
  <1>1. LeaseInv => LaneExclusive
    BY DEF LeaseInv
  <1>2. QED
    BY <1>1, LeaseInvInit, LeaseInvStep, PTL DEF Spec

\* A dispatcher in hand-off still holds the row it claimed, so that its release
\* and its start never overwrite what another process made of the row.
THEOREM ClaimOwned ==
  ASSUME TerminalSignals, Orderly
  PROVE  Spec => []OwnsClaim
  <1>1. LeaseInv => OwnsClaim
    BY DEF LeaseInv
  <1>2. QED
    BY <1>1, LeaseInvInit, LeaseInvStep, PTL DEF Spec

\* A report applied after its handler's snapshot is still of the row's current
\* run: the gap between the two database sessions is harmless here.
THEOREM ReportOfCurrentRun ==
  ASSUME TerminalSignals, Orderly
  PROVE  Spec => CallbackOfCurrentRun
  <1> DEFINE A == \A p \in Projects, h \in Handlers :
                     (ApplyCallback(h) /\ ProjectOf[handler[h].callback.run] = p)
                        => queue[p].run = handler[h].callback.run
  <1>1. LeaseInv /\ [Next]_vars => [A]_vars
    BY DEF LeaseInv, PendingIsCurrent, ApplyCallback
  <1>2. QED
    BY <1>1, LeaseInvInit, LeaseInvStep, PTL DEF Spec, CallbackOfCurrentRun

-----------------------------------------------------------------------------
(***************************************************************************)
(* The refinement of DispatchLease                                         *)
(***************************************************************************)
PhaseOfRow == [p \in Projects |-> Phase(queue[p].status)]

LEMMA PhaseFacts ==
  ASSUME NEW status \in Statuses
  PROVE  /\ Phase(status) = "waiting" <=> status = "queued"
         /\ Phase(status) = "handoff" <=> status = "dispatching"
         /\ Phase(status) \in {"handoff", "running"} <=> status \in ActiveStatuses
         /\ Phase(status) \in {"waiting", "handoff", "running", "settled"}
         /\ status \notin ActiveStatuses \cup {"queued"} => Phase(status) = "settled"
         /\ status = "awaiting_wake" => Phase(status) = "running"
  BY DEF Phase, Statuses, ActiveStatuses

LEMMA LeaseStep ==
  ASSUME TerminalSignals, Orderly, LeaseInv, [Next]_vars
  PROVE  Lease!Next \/ PhaseOfRow' = PhaseOfRow
  <1>1. CASE UNCHANGED queue
    BY <1>1 DEF PhaseOfRow
  <1> SUFFICES ASSUME Next, queue' # queue
               PROVE  Lease!Next \/ PhaseOfRow' = PhaseOfRow
    BY <1>1 DEF vars
  <1>2. /\ OwnsClaim /\ LaneExclusive
        /\ queue \in [Projects -> QueueRow] /\ dispatch \in [Runs -> DispatchSteps]
    BY RowFacts
  <1>3. \A p \in Projects : queue[p].status \in Statuses
    BY <1>2 DEF QueueRow
  <1>4. ASSUME NEW p \in Projects, NEW row \in QueueRow, queue' = [queue EXCEPT ![p] = row]
        PROVE  PhaseOfRow' = [PhaseOfRow EXCEPT ![p] = Phase(row.status)]
    BY <1>2, <1>4 DEF PhaseOfRow
  <1>5. ASSUME NEW r \in Runs, ClaimDispatchCandidate(r) PROVE Lease!Next
    <2> DEFINE p == ProjectOf[r]
               row == [status |-> "dispatching", run |-> r, last |-> "dispatching"]
    <2>1. /\ p \in Projects /\ row \in QueueRow
          /\ queue[p].status = "queued"
          /\ \A q \in Projects : LaneOf[q] = LaneOf[p] => queue[q].status \notin ActiveStatuses
          /\ queue' = [queue EXCEPT ![p] = row]
      BY <1>5, RunsAssumption
      DEF ClaimDispatchCandidate, Claimable, Active, RunLane, QueueRow, Statuses,
          ActiveStatuses, LastStates
    <2>2. PhaseOfRow' = [PhaseOfRow EXCEPT ![p] = "handoff"]
      <3>1. PhaseOfRow' = [PhaseOfRow EXCEPT ![p] = Phase(row.status)]
        BY <1>4, <2>1
      <3>2. Phase(row.status) = "handoff"
        BY DEF Phase, ActiveStatuses
      <3>3. QED
        BY <3>1, <3>2
    <2>3. Lease!Grant(p)
      <3>1. PhaseOfRow[p] = "waiting"
        BY <1>3, <2>1, PhaseFacts DEF PhaseOfRow
      <3>2. \A q \in Projects : LaneOf[q] = LaneOf[p] =>
                                   PhaseOfRow[q] \notin {"handoff", "running"}
        BY <1>3, <2>1, PhaseFacts DEF PhaseOfRow
      <3>3. QED
        BY <2>2, <3>1, <3>2 DEF Lease!Grant, Lease!Holds, PhaseOfRow
    <2>4. QED
      BY <2>1, <2>3 DEF Lease!Next
  <1>6. ASSUME NEW r \in Runs, ReleaseDispatchClaim(r) PROVE Lease!Next
    <2> DEFINE p == ProjectOf[r]
               row == [status |-> "queued", run |-> NoRun, last |-> "none"]
    <2>1. /\ p \in Projects /\ row \in QueueRow
          /\ queue[p].status = "dispatching"
          /\ queue' = [queue EXCEPT ![p] = row]
      BY <1>2, <1>6, RunsAssumption
      DEF ReleaseDispatchClaim, At, OwnsClaim, HoldsClaim, HandOff, QueueRow, Statuses, LastStates
    <2>2. PhaseOfRow' = [PhaseOfRow EXCEPT ![p] = "waiting"]
      <3>1. PhaseOfRow' = [PhaseOfRow EXCEPT ![p] = Phase(row.status)]
        BY <1>4, <2>1
      <3>2. Phase(row.status) = "waiting"
        BY DEF Phase, ActiveStatuses
      <3>3. QED
        BY <3>1, <3>2
    <2>3. Lease!Return(p)
      <3>1. PhaseOfRow[p] = "handoff"
        BY <1>3, <2>1, PhaseFacts DEF PhaseOfRow
      <3>2. QED
        BY <2>2, <3>1 DEF Lease!Return, PhaseOfRow
    <2>4. QED
      BY <2>1, <2>3 DEF Lease!Next
  <1>7. ASSUME NEW r \in Runs, MarkDispatchStarted(r) PROVE Lease!Next
    <2> DEFINE p == ProjectOf[r]
               row == [status |-> "awaiting_wake", run |-> r, last |-> "awaiting_wake"]
    <2>1. /\ p \in Projects /\ row \in QueueRow
          /\ queue[p].status = "dispatching"
          /\ queue' = [queue EXCEPT ![p] = row]
      BY <1>2, <1>7, RunsAssumption
      DEF MarkDispatchStarted, At, OwnsClaim, HoldsClaim, HandOff, QueueRow, Statuses,
          ActiveStatuses, LastStates
    <2>2. PhaseOfRow' = [PhaseOfRow EXCEPT ![p] = "running"]
      <3>1. PhaseOfRow' = [PhaseOfRow EXCEPT ![p] = Phase(row.status)]
        BY <1>4, <2>1
      <3>2. Phase(row.status) = "running"
        BY DEF Phase, ActiveStatuses
      <3>3. QED
        BY <3>1, <3>2
    <2>3. Lease!Start(p)
      <3>1. PhaseOfRow[p] = "handoff"
        BY <1>3, <2>1, PhaseFacts DEF PhaseOfRow
      <3>2. QED
        BY <2>2, <3>1 DEF Lease!Start, PhaseOfRow
    <2>4. QED
      BY <2>1, <2>3 DEF Lease!Next
  <1>8. ASSUME NEW h \in Handlers, ApplyCallback(h)
        PROVE  Lease!Next \/ PhaseOfRow' = PhaseOfRow
    <2> DEFINE r == handler[h].callback.run
               p == ProjectOf[r]
    <2>1. r \in Runs /\ p \in Projects /\ queue[p].run = r /\ queue[p].status # "queued"
      BY <1>8, ApplyIsCurrent
    <2>2. PICK status \in Statuses \ (ActiveStatuses \cup {"queued"}), last \in LastStates :
             queue' = [queue EXCEPT ![p] = [status |-> status, run |-> @.run, last |-> last]]
      BY <1>8, ApplyIsCurrent
    <2>3. PhaseOfRow' = [PhaseOfRow EXCEPT ![p] = "settled"]
      <3> DEFINE row == [status |-> status, run |-> queue[p].run, last |-> last]
      <3>1. row \in QueueRow /\ queue' = [queue EXCEPT ![p] = row]
        BY <1>2, <2>1, <2>2 DEF QueueRow
      <3>2. PhaseOfRow' = [PhaseOfRow EXCEPT ![p] = Phase(row.status)]
        BY <1>4, <2>1, <3>1
      <3>3. Phase(row.status) = "settled"
        BY <2>2, PhaseFacts
      <3>4. QED
        BY <3>2, <3>3
    <2>4. CASE queue[p].status \in ActiveStatuses
      <3>1. PhaseOfRow[p] \in {"handoff", "running"}
        BY <1>3, <2>1, <2>4, PhaseFacts DEF PhaseOfRow
      <3>2. Lease!Settle(p)
        BY <2>3, <3>1 DEF Lease!Settle, Lease!Holds, PhaseOfRow
      <3>3. QED
        BY <2>1, <3>2 DEF Lease!Next
    <2>5. CASE queue[p].status \notin ActiveStatuses
      <3>1. PhaseOfRow[p] = "settled"
        BY <1>3, <2>1, <2>5, PhaseFacts DEF PhaseOfRow
      <3>2. QED
        BY <2>1, <2>3, <3>1 DEF PhaseOfRow
    <2>6. QED
      BY <2>4, <2>5
  <1>9. QED
    BY <1>5, <1>6, <1>7, <1>8, OrderlyWriters

\* QueueLedger implements the lane lease of DispatchLease while its dispatches
\* are undisturbed.
THEOREM LedgerImplementsLease ==
  ASSUME TerminalSignals, Orderly
  PROVE  Spec => LeaseImplemented
  <1>1. Init => Lease!Init
    BY PhaseFacts DEF Init, Lease!Init, Statuses
  <1>2. LeaseInv /\ [Next]_vars => [Lease!Next]_PhaseOfRow
    BY LeaseStep
  <1>3. QED
    BY <1>1, <1>2, LeaseInvInit, LeaseInvStep, PTL
    DEF Spec, LeaseImplemented, Lease!Spec, PhaseOfRow
-----------------------------------------------------------------------------
(***************************************************************************)
(* What a row says of its run                                              *)
(***************************************************************************)

LEMMA RowMatchesRunStep ==
  ASSUME TerminalSignals, Orderly, LeaseInv, RowMatchesRun, [Next]_vars
  PROVE  RowMatchesRun'
  <1>1. CASE UNCHANGED <<queue, runs>>
    BY <1>1 DEF RowMatchesRun
  <1> SUFFICES ASSUME Next PROVE RowMatchesRun'
    BY <1>1 DEF vars
  <1>2. /\ queue \in [Projects -> QueueRow] /\ runs \in [Runs -> RunStates]
        /\ RowNamesItsRun /\ TypeOK
    BY RowFacts DEF TypeOK
  <1> USE RunsAssumption DEF RowMatchesRun, QueueRow
  <1>3. ASSUME NEW r \in Runs, ClaimDispatchCandidate(r) PROVE RowMatchesRun'
    BY <1>2, <1>3 DEF ClaimDispatchCandidate, Events, TerminalSuccess, GateFailures
  <1>4. ASSUME NEW r \in Runs, ReleaseDispatchClaim(r) PROVE RowMatchesRun'
    BY <1>2, <1>4 DEF ReleaseDispatchClaim
  <1>5. ASSUME NEW r \in Runs, MarkDispatchStarted(r) PROVE RowMatchesRun'
    <2>1. \A p \in Projects \ {ProjectOf[r]} : queue[p].run # r
      BY <1>2 DEF RowNamesItsRun
    <2>2. QED
      BY <1>2, <1>5, <2>1 DEF MarkDispatchStarted, Events, TerminalSuccess, GateFailures
  <1>6. ASSUME NEW h \in Handlers, ApplyCallback(h) PROVE RowMatchesRun'
    <2> DEFINE c == handler[h].callback
               row == [status |-> StatusAfter(c.event), run |-> queue[ProjectOf[c.run]].run,
                       last |-> StateAfter(c.event)]
    <2>1. /\ c.run \in Runs /\ ProjectOf[c.run] \in Projects /\ c.event \in Events
          /\ queue' = [queue EXCEPT ![ProjectOf[c.run]] = row]
          /\ runs' = [runs EXCEPT ![c.run] = StateAfter(c.event)]
      BY <1>2, <1>6, ApplyEffect DEF ApplyCallback
    <2>2. queue[ProjectOf[c.run]].run = c.run
      BY <1>6, ApplyIsCurrent
    <2>3. \A p \in Projects \ {ProjectOf[c.run]} : queue[p].run # c.run
      BY <1>2, <2>1 DEF RowNamesItsRun
    <2>4. StateAfter(c.event) # "awaiting_wake"
      BY <2>1 DEF StateAfter, Events, TerminalSuccess, GateFailures
    <2>5. queue'[ProjectOf[c.run]] = row /\ runs'[c.run] = row.last
      BY <1>2, <2>1
    <2>6. \A p \in Projects \ {ProjectOf[c.run]} :
             queue'[p] = queue[p] /\ (queue[p].run # NoRun => runs'[queue[p].run] = runs[queue[p].run])
      BY <1>2, <2>1, <2>3
    <2>7. QED
      BY <1>2, <2>1, <2>2, <2>4, <2>5, <2>6
  <1>7. CASE UNCHANGED queue /\ runs' = runs
    BY <1>7
  <1>8. QED
    BY <1>3, <1>4, <1>5, <1>6, <1>7
    DEF Next, Dispatcher, Worker, CallbackHandler, AlertCheck, Operator, Orderly,
        Admit, ClaimRefused, PreflightOk, PreflightFails, Prepare, PostDispatch, DispatchFails,
        WorkerAccepts, WorkerRejects, WorkerEnds, Emit, BeginCallback, Recheck, RecordIgnored,
        ObserveWorker, PlanReconcile, ReconcileReplayed, Pause, Resume, MarkQueueItemPaused,
        Crash, ledger

\* A queue row and the run row of its current run tell one story, although two
\* statements of different requests write them and reports of earlier runs of
\* the project keep arriving.
THEOREM RowAndRunAgree ==
  ASSUME TerminalSignals, Orderly
  PROVE  Spec => []RowMatchesRun
  <1>1. Init => RowMatchesRun
    BY DEF Init, RowMatchesRun
  <1>2. LeaseInv /\ RowMatchesRun /\ [Next]_vars => RowMatchesRun'
    BY RowMatchesRunStep
  <1>3. QED
    BY <1>1, <1>2, LeaseInvInit, LeaseInvStep, PTL DEF Spec

-----------------------------------------------------------------------------
(***************************************************************************)
(* Who runs on a worker                                                    *)
(***************************************************************************)
\* A POST starts a run while its dispatcher waits for it, or after a restart,
\* but not once the dispatcher has given it up; and the alert check never
\* finishes a run that a restart has left between the two.
NoStrayStart ==
    /\ "late_arrival" \notin Disturbances
    /\ "crash" \notin Disturbances \/ "auto_reconcile" \notin Disturbances

\* What a worker reports is the end of a run; anything else said of a run is a
\* reconciliation.
ReportsAreOfEnded ==
    /\ \A c \in sent : worker[c.run] = "ended"
    /\ \A h \in Handlers : Busy(h) =>
          \/ worker[handler[h].callback.run] = "ended"
          \/ handler[h].callback.source = "reconcile" /\ "auto_reconcile" \in Disturbances
    /\ plans # {} => "auto_reconcile" \in Disturbances

Uncrashed == "crash" \notin Disturbances => \A r \in Runs : dispatch[r] # "crashed"

\* A run whose dispatcher died with its POST on the way keeps its row, and so
\* its lane, until it is reported on.
StrandedHolds ==
    \A r \in Runs : (dispatch[r] = "crashed" /\ worker[r] = "requested") => HoldsClaim(r)

\* Run r is on its worker, or on its way there past the preflight.
Engaged(r) ==
    \/ worker[r] = "running"
    \/ dispatch[r] \in {"preflighted", "prepared"}
    \/ worker[r] = "requested" /\ dispatch[r] \in {"posted", "releasing", "crashed"}

EngagedExclusive ==
    \A r, s \in Runs : (RunLane(r) = RunLane(s) /\ Engaged(r) /\ Engaged(s)) => r = s

StartInv ==
    LeaseInv /\ ReportsAreOfEnded /\ Uncrashed /\ StrandedHolds /\ EngagedExclusive

LEMMA StartInvInit == Init => StartInv
  <1>1. Init => LeaseInv
    BY LeaseInvInit
  <1>2. Init => ReportsAreOfEnded
    BY DEF Init, ReportsAreOfEnded, Busy
  <1>3. Init => Uncrashed /\ StrandedHolds /\ EngagedExclusive
    BY DEF Init, Uncrashed, StrandedHolds, EngagedExclusive, Engaged
  <1>4. QED
    BY <1>1, <1>2, <1>3 DEF StartInv

\* Where the worker's side of a run can go.
LEMMA WorkerMoves ==
  ASSUME TypeOK, Next, NEW r \in Runs
  PROVE  \/ worker'[r] = worker[r]
         \/ dispatch[r] = "prepared" /\ worker'[r] = "requested" /\ dispatch'[r] = "posted"
         \/ WorkerAccepts(r) /\ worker[r] = "requested" /\ worker'[r] = "running"
         \/ worker[r] = "requested" /\ worker'[r] = "rejected"
         \/ worker[r] = "running" /\ worker'[r] = "ended"
  <1>1. /\ worker \in [Runs -> {"none", "requested", "running", "ended", "rejected"}]
        /\ dispatch \in [Runs -> DispatchSteps]
    BY DEF TypeOK
  <1>2. ASSUME NEW s \in Runs,
               PostDispatch(s) \/ WorkerAccepts(s) \/ WorkerRejects(s) \/ WorkerEnds(s)
        PROVE  s = r \/ worker'[r] = worker[r]
    BY <1>1, <1>2 DEF PostDispatch, WorkerAccepts, WorkerRejects, WorkerEnds
  <1>3. CASE PostDispatch(r)
    BY <1>1, <1>3 DEF PostDispatch, At, MoveTo
  <1>4. CASE WorkerAccepts(r)
    <2>1. worker[r] = "requested" /\ worker'[r] = "running"
      BY <1>1, <1>4 DEF WorkerAccepts
    <2>2. QED
      BY <1>4, <2>1
  <1>5. CASE WorkerRejects(r)
    BY <1>1, <1>5 DEF WorkerRejects
  <1>6. CASE WorkerEnds(r)
    BY <1>1, <1>6 DEF WorkerEnds
  <1>7. CASE worker' = worker
    BY <1>7
  <1>8. QED
    BY <1>2, <1>3, <1>4, <1>5, <1>6, <1>7
    DEF Next, Dispatcher, Worker, CallbackHandler, AlertCheck, Operator,
        Admit, ClaimDispatchCandidate, ClaimRefused, PreflightOk, PreflightFails, Prepare,
        DispatchFails, ReleaseDispatchClaim, MarkDispatchStarted, Emit,
        BeginCallback, Recheck, ApplyCallback, RecordIgnored, ObserveWorker,
        PlanReconcile, ReconcileReplayed, Pause, Resume, MarkQueueItemPaused, Crash, world

\* What has ended has ended.
LEMMA EndedStays ==
  ASSUME LeaseInv, Next, NEW r \in Runs, worker[r] = "ended"
  PROVE  worker'[r] = "ended"
  <1>1. TypeOK /\ dispatch[r] \in Final
    BY DEF LeaseInv, ReleaseInv, WorkerFollows
  <1>2. QED
    BY <1>1, WorkerMoves DEF Final

\* The steps that touch a report, a plan or a handler.
LEMMA ReportWriters ==
  ASSUME Next
  PROVE  \/ \E r \in Runs : Emit(r) \/ ReconcileReplayed(r)
         \/ \E h \in Handlers : BeginCallback(h) \/ Recheck(h) \/ ApplyCallback(h)
                                                 \/ RecordIgnored(h)
         \/ \E p \in Projects : PlanReconcile(p)
         \/ Crash
         \/ UNCHANGED <<sent, plans, handler>>
  BY DEF Next, Dispatcher, Worker, CallbackHandler, AlertCheck, Operator,
         Admit, ClaimDispatchCandidate, ClaimRefused, PreflightOk, PreflightFails, Prepare,
         PostDispatch, DispatchFails, ReleaseDispatchClaim, MarkDispatchStarted,
         WorkerAccepts, WorkerRejects, WorkerEnds, ObserveWorker, Pause, Resume,
         MarkQueueItemPaused, requests, world

LEMMA ReportsAreOfEndedStep ==
  ASSUME LeaseInv, ReportsAreOfEnded, Next
  PROVE  ReportsAreOfEnded'
  <1>1. /\ TypeOK /\ ReportsAreOfEnded
        /\ sent \subseteq Callback /\ plans \subseteq Runs
        /\ handler \in [Handlers -> {Idle} \cup Pending]
    BY RowFacts DEF TypeOK
  <1>2. \A r \in Runs : worker[r] = "ended" => worker'[r] = "ended"
    BY EndedStays
  <1>3. /\ \A c \in sent : c.run \in Runs
        /\ \A h \in Handlers : Busy(h) => handler[h].callback.run \in Runs
    BY <1>1 DEF Callback, Busy, Pending
  <1>4. CASE UNCHANGED <<sent, plans, handler>>
    BY <1>1, <1>2, <1>3, <1>4 DEF ReportsAreOfEnded, Busy
  <1>5. ASSUME NEW r \in Runs, Emit(r) PROVE ReportsAreOfEnded'
    BY <1>1, <1>2, <1>3, <1>5 DEF Emit, ReportsAreOfEnded, Busy, requests
  <1>6. ASSUME NEW h \in Handlers, BeginCallback(h) PROVE ReportsAreOfEnded'
    <2>1. PICK c \in sent \cup {Reconciliation(r) : r \in plans} :
            /\ handler' = [handler EXCEPT ![h] =
                 [callback |-> c, outcome |-> Outcome(queue[ProjectOf[c.run]], c)]]
            /\ plans' = IF c.source = "reconcile" THEN plans \ {c.run} ELSE plans
      BY <1>6 DEF BeginCallback
    <2>2. /\ c.run \in Runs
          /\ \/ worker[c.run] = "ended"
             \/ c.source = "reconcile" /\ "auto_reconcile" \in Disturbances
      BY <1>1, <1>3 DEF Reconciliation, ReportsAreOfEnded
    <2>3. sent' = sent /\ plans' \subseteq plans
      BY <1>6, <2>1 DEF BeginCallback, world
    <2>4. \A g \in Handlers : Busy(g)' =>
             \/ worker'[handler'[g].callback.run] = "ended"
             \/ handler'[g].callback.source = "reconcile" /\ "auto_reconcile" \in Disturbances
      BY <1>1, <1>2, <1>3, <2>1, <2>2 DEF ReportsAreOfEnded, Busy
    <2>5. QED
      BY <1>1, <1>2, <1>3, <2>3, <2>4 DEF ReportsAreOfEnded
  <1>7. ASSUME NEW r \in Runs, ReconcileReplayed(r) PROVE ReportsAreOfEnded'
    BY <1>1, <1>2, <1>3, <1>7 DEF ReconcileReplayed, ReportsAreOfEnded, Busy, world
  <1>8. ASSUME NEW h \in Handlers, Recheck(h) \/ ApplyCallback(h) \/ RecordIgnored(h)
        PROVE  ReportsAreOfEnded'
    <2>1. /\ sent' = sent /\ plans' = plans /\ handler' = [handler EXCEPT ![h] = Idle]
      BY <1>8 DEF Recheck, ApplyCallback, RecordIgnored, world
    <2>2. QED
      BY <1>1, <1>2, <1>3, <2>1 DEF ReportsAreOfEnded, Busy
  <1>9. ASSUME NEW p \in Projects, PlanReconcile(p) PROVE ReportsAreOfEnded'
    BY <1>1, <1>2, <1>3, <1>9 DEF PlanReconcile, ReportsAreOfEnded, Busy, world
  <1>10. CASE Crash
    BY <1>1, <1>2, <1>3, <1>10 DEF Crash, ReportsAreOfEnded, Busy
  <1>11. QED
    BY <1>4, <1>5, <1>6, <1>7, <1>8, <1>9, <1>10, ReportWriters

LEMMA UncrashedStep ==
  ASSUME TypeOK, Uncrashed, Next
  PROVE  Uncrashed'
  <1>1. SUFFICES ASSUME "crash" \notin Disturbances, NEW r \in Runs, dispatch'[r] = "crashed"
                 PROVE  FALSE
    BY DEF Uncrashed
  <1>2. dispatch[r] # "crashed" /\ ~Crash
    BY <1>1 DEF Uncrashed, Crash
  <1>3. dispatch \in [Runs -> DispatchSteps]
    BY DEF TypeOK
  <1>4. ASSUME NEW s \in Runs, Dispatcher(s) PROVE FALSE
    BY <1>1, <1>2, <1>3, <1>4
    DEF Dispatcher, At, MoveTo, Admit, ClaimDispatchCandidate, ClaimRefused, PreflightOk,
        PreflightFails, Prepare, PostDispatch, DispatchFails, ReleaseDispatchClaim,
        MarkDispatchStarted
  <1>5. CASE dispatch' = dispatch
    BY <1>1, <1>2, <1>5
  <1>6. QED
    BY <1>2, <1>4, <1>5
    DEF Next, Worker, CallbackHandler, AlertCheck, Operator,
        WorkerAccepts, WorkerRejects, WorkerEnds, Emit, BeginCallback, Recheck, ApplyCallback,
        RecordIgnored, ObserveWorker, PlanReconcile, ReconcileReplayed, Pause, Resume,
        MarkQueueItemPaused, dispatchers

LEMMA StrandedHoldsStep ==
  ASSUME TerminalSignals, Orderly, NoStrayStart, StartInv, Next
  PROVE  StrandedHolds'
  <1>0. /\ LeaseInv /\ TypeOK /\ OwnsClaim /\ WorkerFollows /\ PendingIsCurrent
        /\ ReportsAreOfEnded /\ Uncrashed /\ StrandedHolds
        /\ queue \in [Projects -> QueueRow] /\ dispatch \in [Runs -> DispatchSteps]
    BY RowFacts DEF StartInv, LeaseInv
  <1>1. SUFFICES ASSUME NEW s \in Runs, dispatch'[s] = "crashed", worker'[s] = "requested"
                 PROVE  HoldsClaim(s)'
    BY DEF StrandedHolds
  <1>2. worker[s] = "requested"
    BY <1>0, <1>1, WorkerMoves
  <1>3. dispatch[s] \in HandOff \cup {"crashed"}
    BY <1>0, <1>1, <1>2, DispatchMoves DEF WorkerFollows, Final, Unclaimed, HandOff
  <1>4. HoldsClaim(s)
    BY <1>0, <1>2, <1>3 DEF OwnsClaim, StrandedHolds
  <1>5. ProjectOf[s] \in Projects
    BY RunsAssumption
  <1>6. ASSUME NEW r \in Runs, ClaimDispatchCandidate(r) PROVE queue'[ProjectOf[s]] = queue[ProjectOf[s]]
    BY <1>0, <1>4, <1>5, <1>6 DEF ClaimDispatchCandidate, Claimable, HoldsClaim
  <1>7. ASSUME NEW r \in Runs, ReleaseDispatchClaim(r) \/ MarkDispatchStarted(r)
        PROVE  queue'[ProjectOf[s]] = queue[ProjectOf[s]]
    <2>1. dispatch[r] \in HandOff /\ dispatch'[r] \in {"released", "started"}
      BY <1>0, <1>7 DEF ReleaseDispatchClaim, MarkDispatchStarted, At, MoveTo, HandOff
    <2>2. r # s
      BY <1>1, <2>1
    <2>3. ProjectOf[r] # ProjectOf[s]
      BY <1>0, <1>4, <2>1, <2>2 DEF OwnsClaim, HoldsClaim
    <2>4. QED
      BY <1>0, <1>5, <1>7, <2>3 DEF ReleaseDispatchClaim, MarkDispatchStarted
  <1>8. ASSUME NEW h \in Handlers, ApplyCallback(h)
        PROVE  queue'[ProjectOf[s]] = queue[ProjectOf[s]]
    <2> DEFINE c == handler[h].callback
    <2>1. /\ c.run \in Runs /\ queue[ProjectOf[c.run]].run = c.run /\ dispatch' = dispatch
          /\ \E row : queue' = [queue EXCEPT ![ProjectOf[c.run]] = row]
      <3>1. /\ c.run \in Runs /\ queue[ProjectOf[c.run]].run = c.run /\ dispatch' = dispatch
        BY <1>0, <1>8, ApplyIsCurrent
      <3>2. queue' = [queue EXCEPT ![ProjectOf[c.run]] =
                       [status |-> StatusAfter(c.event), run |-> queue[ProjectOf[c.run]].run,
                        last |-> StateAfter(c.event)]]
        BY <1>0, <1>8, ApplyEffect
      <3>3. QED
        BY <3>1, <3>2
    <2>2. c.run # s
      <3>1. SUFFICES ASSUME c.run = s PROVE FALSE
        OBVIOUS
      <3>2. "auto_reconcile" \in Disturbances
        BY <1>0, <1>2, <1>8, <3>1 DEF ReportsAreOfEnded, ApplyCallback
      <3>3. QED
        BY <1>0, <1>1, <2>1, <3>2 DEF NoStrayStart, Uncrashed
    <2>3. ProjectOf[c.run] # ProjectOf[s]
      BY <1>4, <2>1, <2>2 DEF HoldsClaim
    <2>4. QED
      BY <1>0, <1>5, <2>1, <2>3
  <1>9. queue'[ProjectOf[s]] = queue[ProjectOf[s]]
    BY <1>6, <1>7, <1>8, OrderlyWriters
  <1>10. QED
    BY <1>4, <1>9 DEF HoldsClaim

\* A run gets engaged by its preflight and by nothing else.
LEMMA EngagedByPreflight ==
  ASSUME "late_arrival" \notin Disturbances, LeaseInv, Next, NEW r \in Runs, Engaged(r)'
  PROVE  Engaged(r) \/ PreflightOk(r)
  <1>0. /\ TypeOK /\ WorkerFollows /\ dispatch \in [Runs -> DispatchSteps]
    BY RowFacts DEF LeaseInv
  <1>1. CASE worker'[r] = "running"
    <2>1. worker[r] = "running" \/ WorkerAccepts(r)
      BY <1>0, <1>1, WorkerMoves
    <2>2. QED
      BY <2>1 DEF Engaged, WorkerAccepts
  <1>2. CASE dispatch'[r] \in {"preflighted", "prepared"}
    <2>1. CASE dispatch[r] \in {"preflighted", "prepared"}
      BY <2>1 DEF Engaged
    <2>2. CASE dispatch[r] \notin {"preflighted", "prepared"}
      <3>1. ~Crash
        BY <1>0, <1>2, <2>2 DEF Crash
      <3>2. PICK s \in Runs : Dispatcher(s)
        BY <1>2, <2>2, <3>1
        DEF Next, Worker, CallbackHandler, AlertCheck, Operator,
            WorkerAccepts, WorkerRejects, WorkerEnds, Emit, BeginCallback, Recheck,
            ApplyCallback, RecordIgnored, ObserveWorker, PlanReconcile, ReconcileReplayed,
            Pause, Resume, MarkQueueItemPaused, dispatchers
      <3>3. PreflightOk(s) /\ s = r
        BY <1>0, <1>2, <2>2, <3>2
        DEF Dispatcher, At, MoveTo, Admit, ClaimDispatchCandidate, ClaimRefused, PreflightOk,
            PreflightFails, Prepare, PostDispatch, DispatchFails, ReleaseDispatchClaim,
            MarkDispatchStarted
      <3>4. QED
        BY <3>3
    <2>3. QED
      BY <2>1, <2>2
  <1>3. CASE worker'[r] = "requested" /\ dispatch'[r] \in {"posted", "releasing", "crashed"}
    <2>1. worker[r] = "requested" \/ dispatch[r] = "prepared"
      BY <1>0, <1>3, WorkerMoves
    <2>2. CASE worker[r] = "requested"
      <3>1. dispatch[r] \in {"posted", "releasing", "crashed"}
        BY <1>0, <1>3, <2>2, DispatchMoves DEF WorkerFollows, Final, HandOff
      <3>2. QED
        BY <2>2, <3>1 DEF Engaged
    <2>3. QED
      BY <2>1, <2>2 DEF Engaged
  <1>4. QED
    BY <1>1, <1>2, <1>3 DEF Engaged

\* A preflight that passes finds nobody engaged on the lane.
LEMMA PreflightAlone ==
  ASSUME StartInv, NEW r \in Runs, PreflightOk(r), NEW s \in Runs \ {r},
         RunLane(r) = RunLane(s), Engaged(s)
  PROVE  FALSE
  <1>1. /\ TypeOK /\ OwnsClaim /\ LaneExclusive /\ StrandedHolds
    BY DEF StartInv, LeaseInv, ReleaseInv
  <1>2. HoldsClaim(r) /\ ~LiveOnWorker(RunLane(r))
    BY <1>1 DEF PreflightOk, At, OwnsClaim, HandOff
  <1>3. worker[s] # "running"
    BY <1>2 DEF LiveOnWorker
  <1>4. HoldsClaim(s)
    BY <1>1, <1>3 DEF Engaged, OwnsClaim, HandOff, StrandedHolds
  <1>5. ProjectOf[r] = ProjectOf[s]
    BY <1>1, <1>2, <1>4, RunsAssumption
    DEF HoldsClaim, LaneExclusive, Active, ActiveStatuses, RunLane
  <1>6. QED
    BY <1>2, <1>4, <1>5 DEF HoldsClaim

LEMMA EngagedExclusiveStep ==
  ASSUME NoStrayStart, StartInv, Next
  PROVE  EngagedExclusive'
  <1>1. SUFFICES ASSUME NEW r \in Runs, NEW s \in Runs, RunLane(r) = RunLane(s), r # s,
                        Engaged(r)', Engaged(s)'
                 PROVE  FALSE
    BY DEF EngagedExclusive, RunLane
  <1>2. /\ Engaged(r) \/ PreflightOk(r)
        /\ Engaged(s) \/ PreflightOk(s)
    BY <1>1, EngagedByPreflight DEF StartInv, NoStrayStart
  <1>3. ~(Engaged(r) /\ Engaged(s))
    BY <1>1 DEF StartInv, EngagedExclusive
  <1>4. ~(PreflightOk(r) /\ Engaged(s)) /\ ~(PreflightOk(s) /\ Engaged(r))
    BY <1>1, PreflightAlone
  <1>5. ~(PreflightOk(r) /\ PreflightOk(s))
    BY <1>1 DEF PreflightOk, At, MoveTo, StartInv, LeaseInv, ReleaseInv, TypeOK
  <1>6. QED
    BY <1>2, <1>3, <1>4, <1>5

LEMMA StartInvStep ==
  ASSUME TerminalSignals, Orderly, NoStrayStart
  PROVE  StartInv /\ [Next]_vars => StartInv'
  <1>1. ASSUME StartInv, [Next]_vars PROVE LeaseInv'
    BY <1>1, LeaseInvStep DEF StartInv
  <1>2. ASSUME StartInv, UNCHANGED vars
        PROVE  ReportsAreOfEnded' /\ Uncrashed' /\ StrandedHolds' /\ EngagedExclusive'
    BY <1>2 DEF StartInv, ReportsAreOfEnded, Uncrashed, StrandedHolds, HoldsClaim,
         EngagedExclusive, Engaged, RunLane, Busy, vars
  <1>3. ASSUME StartInv, Next
        PROVE  ReportsAreOfEnded' /\ Uncrashed' /\ StrandedHolds' /\ EngagedExclusive'
    <2>1. ReportsAreOfEnded'
      BY <1>3, ReportsAreOfEndedStep DEF StartInv
    <2>2. Uncrashed'
      BY <1>3, UncrashedStep DEF StartInv, LeaseInv, ReleaseInv
    <2>3. StrandedHolds'
      BY <1>3, StrandedHoldsStep
    <2>4. EngagedExclusive'
      BY <1>3, EngagedExclusiveStep
    <2>5. QED
      BY <2>1, <2>2, <2>3, <2>4
  <1>4. QED
    BY <1>1, <1>2, <1>3 DEF StartInv

\* Two dispatches never put two live runs on one worker: the preflight and the
\* lane check of the claim together are enough, through lost answers and
\* operator holds, and through restarts as long as nothing but the worker's
\* own report settles a run that a restart stranded.
THEOREM OneRunPerWorker ==
  ASSUME TerminalSignals, Orderly, NoStrayStart
  PROVE  Spec => []WorkerExclusive
  <1>1. StartInv => WorkerExclusive
    BY DEF StartInv, EngagedExclusive, Engaged, WorkerExclusive
  <1>2. QED
    BY <1>1, StartInvInit, StartInvStep, PTL DEF Spec

-----------------------------------------------------------------------------
(***************************************************************************)
(* Whom the alert check may finish                                         *)
(***************************************************************************)
\* The alert check plans a replay on what it has just seen of the worker, and
\* no POST that was given up on starts a run behind its back.
FreshObservation == Disturbances \cap {"late_arrival", "cached_observation"} = {}

Spared(r) == worker[r] # "running" \/ dispatch[r] = "crashed"

\* What is planned, or about to be applied, in a worker's stead.
ReconcilesSpare ==
    /\ \A r \in plans : Spared(r)
    /\ \A h \in Handlers : (Busy(h) /\ handler[h].callback.source = "reconcile") =>
          Spared(handler[h].callback.run)
    /\ \A c \in sent : c.source # "reconcile"

\* Once its hand-off is over, a run that its worker does not run stays so,
\* unless it is one a restart has stranded.
LEMMA SparedStays ==
  ASSUME FreshObservation, LeaseInv, Next, NEW r \in Runs, dispatch[r] \in Final, Spared(r)
  PROVE  Spared(r)'
  <1>1. TypeOK /\ dispatch'[r] = dispatch[r]
    BY RowFacts, FinalStays
  <1>2. CASE dispatch[r] = "crashed"
    BY <1>1, <1>2 DEF Spared
  <1>3. CASE dispatch[r] # "crashed"
    <2>1. ~WorkerAccepts(r)
      BY <1>3 DEF WorkerAccepts, FreshObservation, Final
    <2>2. QED
      BY <1>1, <1>3, <2>1, WorkerMoves DEF Spared, Final
  <1>4. QED
    BY <1>2, <1>3

LEMMA ReconcilesSpareStep ==
  ASSUME Orderly, FreshObservation, LeaseInv, ReconcilesSpare, Next
  PROVE  ReconcilesSpare'
  <1> DEFINE StillSpared(r) == worker'[r] # "running" \/ dispatch'[r] = "crashed"
  <1>1. /\ TypeOK /\ ReconcilesSpare /\ RowNamesItsRun /\ ReportsAreOfFinal
        /\ queue \in [Projects -> QueueRow]
        /\ sent \subseteq Callback /\ plans \subseteq Runs
        /\ handler \in [Handlers -> {Idle} \cup Pending]
    BY RowFacts DEF TypeOK
  <1>2. /\ \A r \in plans : StillSpared(r)
        /\ \A h \in Handlers : (Busy(h) /\ handler[h].callback.source = "reconcile") =>
              /\ handler[h].callback.run \in Runs
              /\ StillSpared(handler[h].callback.run)
    <2>1. \A h \in Handlers : Busy(h) => handler[h].callback.run \in Runs
      BY <1>1 DEF Callback, Busy, Pending
    <2>2. \A r \in Runs : dispatch[r] \in Final /\ Spared(r) => StillSpared(r)
      BY SparedStays DEF Spared
    <2>3. QED
      BY <1>1, <2>1, <2>2 DEF ReconcilesSpare, ReportsAreOfFinal
  <1> USE DEF Spared
  <1>3. CASE UNCHANGED <<sent, plans, handler>>
    BY <1>1, <1>2, <1>3 DEF ReconcilesSpare, Busy
  <1>4. ASSUME NEW r \in Runs, Emit(r) PROVE ReconcilesSpare'
    <2>1. PICK signal \in Signals :
            sent' = sent \cup {[run |-> r, source |-> signal[1], event |-> signal[2]]}
      BY <1>4 DEF Emit
    <2>2. signal[1] # "reconcile"
      BY SignalsAssumption
    <2>3. UNCHANGED <<plans, handler>>
      BY <1>4 DEF Emit, requests
    <2>4. QED
      BY <1>1, <1>2, <2>1, <2>2, <2>3 DEF ReconcilesSpare, Busy
  <1>5. ASSUME NEW h \in Handlers, BeginCallback(h) PROVE ReconcilesSpare'
    <2>1. PICK c \in sent \cup {Reconciliation(r) : r \in plans} :
            /\ handler' = [handler EXCEPT ![h] =
                 [callback |-> c, outcome |-> Outcome(queue[ProjectOf[c.run]], c)]]
            /\ plans' = IF c.source = "reconcile" THEN plans \ {c.run} ELSE plans
      BY <1>5 DEF BeginCallback
    <2>2. c.source = "reconcile" => c.run \in plans
      BY <1>1 DEF Reconciliation, ReconcilesSpare
    <2>3. sent' = sent /\ plans' \subseteq plans
      BY <1>5, <2>1 DEF BeginCallback, world
    <2>4. \A g \in Handlers : (Busy(g)' /\ handler'[g].callback.source = "reconcile") =>
             StillSpared(handler'[g].callback.run)
      BY <1>1, <1>2, <2>1, <2>2 DEF Busy
    <2>5. QED
      BY <1>1, <1>2, <2>3, <2>4 DEF ReconcilesSpare
  <1>6. ASSUME NEW r \in Runs, ReconcileReplayed(r) PROVE ReconcilesSpare'
    BY <1>1, <1>2, <1>6 DEF ReconcileReplayed, ReconcilesSpare, Busy, world
  <1>7. ASSUME NEW h \in Handlers, Recheck(h) \/ ApplyCallback(h) \/ RecordIgnored(h)
        PROVE  ReconcilesSpare'
    <2>1. /\ sent' = sent /\ plans' = plans /\ handler' = [handler EXCEPT ![h] = Idle]
      BY <1>7 DEF Recheck, ApplyCallback, RecordIgnored, world
    <2>2. QED
      BY <1>1, <1>2, <2>1 DEF ReconcilesSpare, Busy
  <1>8. ASSUME NEW p \in Projects, PlanReconcile(p) PROVE ReconcilesSpare'
    <2> DEFINE r == queue[p].run
    <2>1. /\ r \in Runs /\ RunLane(r) = LaneOf[p]
          /\ ~LiveOnWorker(LaneOf[p])
      BY <1>1, <1>8 DEF PlanReconcile, FreshObservation, QueueRow, RowNamesItsRun, RunLane
    <2>2. worker[r] # "running"
      BY <2>1 DEF LiveOnWorker
    <2>3. plans' = plans \cup {r} /\ UNCHANGED <<sent, handler, worker>>
      BY <1>8 DEF PlanReconcile, world
    <2>4. QED
      BY <1>1, <1>2, <2>2, <2>3 DEF ReconcilesSpare, Busy
  <1>9. CASE Crash
    BY <1>1, <1>2, <1>9 DEF Crash, ReconcilesSpare, Busy
  <1>10. QED
    BY <1>3, <1>4, <1>5, <1>6, <1>7, <1>8, <1>9, ReportWriters

\* The alert check never finishes a run that its worker is running, however
\* long its plan waits for a handler and whatever the dispatchers do meanwhile;
\* a run that a restart stranded is the exception the property names.
THEOREM AlertCheckSparesLive ==
  ASSUME TerminalSignals, Orderly, FreshObservation
  PROVE  Spec => ReconcileSparesLive
  <1> DEFINE Inv == LeaseInv /\ ReconcilesSpare
             A == \A h \in Handlers :
                     (ApplyCallback(h) /\ handler[h].callback.source = "reconcile")
                        => \/ worker[handler[h].callback.run] # "running"
                           \/ dispatch[handler[h].callback.run] = "crashed"
  <1>1. Init => Inv
    BY LeaseInvInit DEF Init, ReconcilesSpare, Busy
  <1>2. Inv /\ [Next]_vars => Inv'
    <2>1. ASSUME Inv, UNCHANGED vars PROVE ReconcilesSpare'
      BY <2>1 DEF ReconcilesSpare, Spared, Busy, vars
    <2>2. QED
      BY <2>1, LeaseInvStep, ReconcilesSpareStep
  <1>3. Inv /\ [Next]_vars => [A]_vars
    BY DEF ReconcilesSpare, Spared, ApplyCallback
  <1>4. QED
    BY <1>1, <1>2, <1>3, PTL DEF Spec, ReconcileSparesLive

-----------------------------------------------------------------------------
(***************************************************************************)
(* What takes a success back                                               *)
(***************************************************************************)
\* Reports are recorded one at a time, or there are only reports of success.
SerialReports ==
    \/ \A g, h \in Handlers : g = h
    \/ \A s \in Signals : s[2] \in TerminalSuccess

\* A failure about to be applied concerns a run whose success is not recorded.
NoFailureOverSuccess ==
    \A h \in Handlers :
        LET c == handler[h].callback IN
        (Busy(h) /\ handler[h].outcome = "apply" /\ c.event \notin TerminalSuccess)
            => ~CompletedSuccess(queue[ProjectOf[c.run]], c.run)

\* A row completed by its run changes by a report on that run alone.
LEMMA CompletedRowChanges ==
  ASSUME TerminalSignals, Orderly, LeaseInv, Next,
         NEW p \in Projects, NEW r \in Runs, CompletedSuccess(queue[p], r)
  PROVE  \/ queue'[p] = queue[p]
         \/ \E h \in Handlers :
               /\ ApplyCallback(h) /\ handler[h].callback.run = r /\ ProjectOf[r] = p
               /\ queue'[p] = [status |-> StatusAfter(handler[h].callback.event), run |-> r,
                               last |-> StateAfter(handler[h].callback.event)]
  <1>1. /\ OwnsClaim /\ TypeOK
        /\ queue \in [Projects -> QueueRow] /\ dispatch \in [Runs -> DispatchSteps]
        /\ queue[p].status = "completed" /\ queue[p].run = r
    BY RowFacts DEF CompletedSuccess
  <1> USE RunsAssumption
  <1>2. ASSUME NEW s \in Runs, ClaimDispatchCandidate(s) PROVE queue'[p] = queue[p]
    BY <1>1, <1>2 DEF ClaimDispatchCandidate, Claimable
  <1>3. ASSUME NEW s \in Runs, ReleaseDispatchClaim(s) \/ MarkDispatchStarted(s)
        PROVE  queue'[p] = queue[p]
    <2>1. ProjectOf[s] # p
      BY <1>1, <1>3 DEF ReleaseDispatchClaim, MarkDispatchStarted, At, HandOff, OwnsClaim, HoldsClaim
    <2>2. QED
      BY <1>1, <1>3, <2>1 DEF ReleaseDispatchClaim, MarkDispatchStarted
  <1>4. ASSUME NEW h \in Handlers, ApplyCallback(h)
        PROVE  \/ queue'[p] = queue[p]
               \/ /\ handler[h].callback.run = r /\ ProjectOf[r] = p
                  /\ queue'[p] = [status |-> StatusAfter(handler[h].callback.event), run |-> r,
                                  last |-> StateAfter(handler[h].callback.event)]
    <2> DEFINE c == handler[h].callback
    <2>1. /\ queue' = [queue EXCEPT ![ProjectOf[c.run]] =
                         [status |-> StatusAfter(c.event), run |-> queue[ProjectOf[c.run]].run,
                          last |-> StateAfter(c.event)]]
      BY <1>1, <1>4, ApplyEffect
    <2>2. queue[ProjectOf[c.run]].run = c.run /\ ProjectOf[c.run] \in Projects
      BY <1>4, ApplyIsCurrent
    <2>3. QED
      BY <1>1, <2>1, <2>2
  <1>5. QED
    BY <1>2, <1>3, <1>4, OrderlyWriters

LEMMA SuccessStays ==
  ASSUME TerminalSignals, Orderly, LeaseInv, NoFailureOverSuccess, Next,
         NEW p \in Projects, NEW r \in Runs, CompletedSuccess(queue[p], r)
  PROVE  CompletedSuccess(queue'[p], r)
  <1>1. CASE queue'[p] = queue[p]
    BY <1>1
  <1>2. ASSUME NEW h \in Handlers,
               ApplyCallback(h), handler[h].callback.run = r, ProjectOf[r] = p,
               queue'[p] = [status |-> StatusAfter(handler[h].callback.event), run |-> r,
                            last |-> StateAfter(handler[h].callback.event)]
        PROVE  CompletedSuccess(queue'[p], r)
    <2>1. handler[h].callback.event \in TerminalSuccess
      BY <1>2 DEF NoFailureOverSuccess, ApplyCallback
    <2>2. QED
      BY <1>2, <2>1
      DEF CompletedSuccess, StatusAfter, StateAfter, TerminalSuccess, GateFailures
  <1>3. QED
    BY <1>1, <1>2, CompletedRowChanges

\* A handler gets its pending report from BeginCallback.
LEMMA PendingFromBegin ==
  ASSUME TypeOK, Next, NEW h \in Handlers, Busy(h)', handler'[h] # handler[h]
  PROVE  BeginCallback(h)
  <1>1. handler \in [Handlers -> {Idle} \cup Pending]
    BY DEF TypeOK
  <1>2. PICK g \in Handlers : BeginCallback(g) \/ handler' = [handler EXCEPT ![g] = Idle]
    BY ReportWriters
    DEF Emit, ReconcileReplayed, Recheck, ApplyCallback, RecordIgnored, PlanReconcile, Crash,
        requests, Busy
  <1>3. g = h
    BY <1>1, <1>2 DEF BeginCallback
  <1>4. handler' # [handler EXCEPT ![g] = Idle]
    BY <1>1, <1>3 DEF Busy
  <1>5. QED
    BY <1>2, <1>3, <1>4

LEMMA NoFailureOverSuccessStep ==
  ASSUME TerminalSignals, Orderly, SerialReports, LeaseInv, NoFailureOverSuccess, Next
  PROVE  NoFailureOverSuccess'
  <1>1. /\ TypeOK /\ TypeOK'
        /\ queue \in [Projects -> QueueRow]
        /\ handler \in [Handlers -> {Idle} \cup Pending]
        /\ handler' \in [Handlers -> {Idle} \cup Pending]
    BY RowFacts, NextTypeOK DEF TypeOK
  <1>2. SUFFICES ASSUME NEW h \in Handlers, Busy(h)', handler'[h].outcome = "apply",
                        handler'[h].callback.event \notin TerminalSuccess
                 PROVE  ~CompletedSuccess(queue'[ProjectOf[handler'[h].callback.run]],
                                          handler'[h].callback.run)
    BY DEF NoFailureOverSuccess
  <1> DEFINE c == handler'[h].callback
             p == ProjectOf[c.run]
  <1>3. c \in Callback /\ c.run \in Runs /\ p \in Projects
    BY <1>1, <1>2, RunsAssumption DEF Busy, Pending, Callback
  <1>4. CASE \A s \in Signals : s[2] \in TerminalSuccess
    <2>1. c.event \in TerminalSuccess
      BY <1>3, <1>4 DEF Callback, TerminalSuccess
    <2>2. QED
      BY <1>2, <2>1
  <1>5. CASE handler'[h] # handler[h]
    <2>1. BeginCallback(h)
      BY <1>1, <1>2, <1>5, PendingFromBegin
    <2>2. PICK callback \in sent \cup {Reconciliation(r) : r \in plans} :
            handler' = [handler EXCEPT ![h] =
                         [callback |-> callback,
                          outcome |-> Outcome(queue[ProjectOf[callback.run]], callback)]]
      BY <2>1 DEF BeginCallback
    <2>3. c = callback /\ Outcome(queue[p], c) = "apply"
      BY <1>1, <1>2, <2>2
    <2>4. ~CompletedSuccess(queue[p], c.run)
      BY <1>2, <2>3 DEF Outcome
    <2>5. QED
      BY <2>1, <2>4 DEF BeginCallback, ledger
  <1>6. CASE handler'[h] = handler[h] /\ \A g, k \in Handlers : g = k
    <2>1. ~CompletedSuccess(queue[p], c.run)
      BY <1>2, <1>6 DEF NoFailureOverSuccess, Busy
    <2>2. ASSUME NEW g \in Handlers, ApplyCallback(g) PROVE FALSE
      <3>1. g = h /\ Busy(g)
        BY <1>6, <2>2 DEF ApplyCallback
      <3>2. handler' = [handler EXCEPT ![h] = Idle]
        BY <2>2, <3>1 DEF ApplyCallback
      <3>3. handler'[h] = Idle
        BY <1>1, <3>2
      <3>4. QED
        BY <1>2, <3>3 DEF Busy
    <2>3. queue'[p].status # "completed" \/ queue'[p] = queue[p]
      <3>1. ASSUME NEW r \in Runs,
                   \/ ClaimDispatchCandidate(r) \/ ReleaseDispatchClaim(r)
                   \/ MarkDispatchStarted(r)
            PROVE  queue'[p].status # "completed" \/ queue'[p] = queue[p]
        BY <1>1, <1>3, <3>1, RunsAssumption
        DEF ClaimDispatchCandidate, ReleaseDispatchClaim, MarkDispatchStarted
      <3>2. QED
        BY <2>2, <3>1, OrderlyWriters
    <2>4. QED
      BY <2>1, <2>3 DEF CompletedSuccess
  <1>7. QED
    BY <1>4, <1>5, <1>6 DEF SerialReports

\* A recorded success is final as long as reports are recorded one at a time:
\* between the sessions of one handler only another handler can complete the
\* row, so the race of two handlers is the only way to lose a success.
THEOREM SuccessFinalWhenSerial ==
  ASSUME TerminalSignals, Orderly, SerialReports
  PROVE  Spec => TerminalSuccessFinal
  <1> DEFINE Inv == LeaseInv /\ NoFailureOverSuccess
             A == \A p \in Projects, r \in Runs :
                     CompletedSuccess(queue[p], r) => CompletedSuccess(queue'[p], r)
  <1>1. Init => Inv
    BY LeaseInvInit DEF Init, NoFailureOverSuccess, Busy
  <1>2. Inv /\ [Next]_vars => Inv'
    <2>1. ASSUME Inv, UNCHANGED vars PROVE NoFailureOverSuccess'
      BY <2>1 DEF NoFailureOverSuccess, CompletedSuccess, Busy, vars
    <2>2. QED
      BY <2>1, LeaseInvStep, NoFailureOverSuccessStep
  <1>3. Inv /\ [Next]_vars => [A]_vars
    BY SuccessStays
  <1>4. QED
    BY <1>1, <1>2, <1>3, PTL DEF Spec, TerminalSuccessFinal
=============================================================================
