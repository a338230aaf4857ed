----------------------------- MODULE WorkerGate -----------------------------
(***************************************************************************)
(* The wake gate of a worker, for one run: when the gate calls the run     *)
(* over, what it reports, and what becomes of the run's record.            *)
(*                                                                         *)
(* Four writers share the JSON record of the run, each reading it, doing   *)
(* something slow, and writing back what it read:                          *)
(*   - the /dispatch handler, which creates the record;                    *)
(*   - the reconcile LOOP, a coroutine that replays the callback outbox in *)
(*     a thread, lists the records, and moves a run without processes on   *)
(*     to the idle gate;                                                   *)
(*   - the EVALUATOR of the run, a coroutine that samples the machine      *)
(*     until it has been quiet long enough, then reports;                  *)
(*   - the RUNNER, a process group of its own that executes the run and,   *)
(*     at its end, leaves a callback in the outbox and marks the record.   *)
(* Coroutines interleave at awaits only; between two awaits is one step.   *)
(* Session events (apply_event) have no sender, so the states they lead to *)
(* are left out.                                                           *)
(***************************************************************************)
EXTENDS Naturals

CONSTANTS
    Window,       \* quiet samples the workload profile asks for
    MaxStamp,     \* bound: idle_seen_at values minted
    MaxInterrupts,\* bound: restarts of the gate service and replaced evaluators
    Regimes       \* instance: the sets of AllHazards a behaviour may be exposed to

(***************************************************************************)
(*  outage         the control plane refuses or does not answer; the       *)
(*                 callback of the runner may be set aside for that        *)
(*  lost_response  it records a callback but its answer is lost            *)
(*  slow_reap      reaping stale processes of this or another run takes    *)
(*                 the loop longer than the end of a run                   *)
(*  visitor        a process appears in the project directory after the    *)
(*                 run ended (an operator's shell, a detached benchmark)   *)
(*  expiry         max_wait_after_idle_sec elapses                         *)
(*  early_end      a run ends before the /dispatch handler has saved it    *)
(*  stalled        an evaluator is older than a day and is replaced        *)
(*  restart        the service is stopped and started again                *)
(***************************************************************************)
AllHazards ==
    {"outage", "lost_response", "slow_reap", "visitor", "expiry", "early_end", "stalled",
     "restart"}

ASSUME WindowAssumption == Window \in Nat \ {0}
ASSUME BoundsAssumption == MaxStamp \in Nat \ {0} /\ MaxInterrupts \in Nat
ASSUME RegimesAssumption == Regimes \subseteq SUBSET AllHazards

Evaluable ==
    {"pending_idle_gate", "waiting_for_process_exit", "waiting_for_quiet_window"}
\* GateState as far as it is reached; "gate_error" is what the outbox writes
\* for a failed run and is not a GateState.
GateState == Evaluable \cup {"running", "wake_ready", "error"}

\* Idempotency keys run:event:stamp; the gate's stamp is idle_seen_at, 0 for
\* none, and the runner's is none of the gate's.
RunnerStamp == MaxStamp + 1
NoKey == [event |-> "none", stamp |-> RunnerStamp]
Key == [event : {"wake_ready", "gate_error", "gate_timeout"}, stamp : 0 .. RunnerStamp]

RunRecord == [gate : GateState \cup {"gate_error"}, idle : 0 .. MaxStamp,
              key : Key \cup {NoKey}, quiet : 0 .. Window]
NoRecord == [gate |-> "none"]
Quarantined == [gate |-> "quarantined"]

VARIABLES
    hazards,    \* the hazards of this behaviour (never changes)
    dispatch,   \* the /dispatch handler: idle, spawned, recorded, lost
    record,     \* the record file
    runner,     \* how far the runner is
    outcome,    \* wake_ready or gate_error, what the runner has to report
    outbox,     \* its callback: none, held, delivered, dead (set aside)
    note,       \* the copy a writer of the outbox has read of the record
    visitor,    \* one project process that is not the runner's: expected, here, gone
    loop,       \* how far the reconcile tick is
    listed,     \* the record it has listed
    evaluator,  \* how far the evaluator of the run is
    held,       \* the record it has loaded
    accepted,   \* callbacks at the control plane: the payload of each key
    stamps,     \* idle_seen_at values minted so far
    expired,    \* the latest of them that is older than the maximum wait
    calm,       \* samples without activity since the last one with (history)
    interrupts  \* restarts of the service and replaced evaluators so far

gateTask == <<loop, listed, evaluator, held>>
vars == <<dispatch, record, runner, outcome, outbox, note, visitor, loop, listed,
          evaluator, held, accepted, stamps, expired, calm, interrupts, hazards>>

RunnerSteps ==
    {"none", "working", "ended", "written", "noting", "noted", "delivered",
     "marking", "exited"}

\* An evaluator that waits for a POST; the control plane has yet to record it,
\* or has recorded it. Same order: retry, timeout, announcement.
Sending == {"retrying", "timing_out", "announcing"}
Sent == {"retried", "timed_out", "announced"}

TypeOK ==
    /\ hazards \subseteq AllHazards
    /\ dispatch \in {"idle", "spawned", "recorded", "lost"}
    /\ record \in RunRecord \cup {NoRecord, Quarantined}
    /\ runner \in RunnerSteps
    /\ outcome \in {"wake_ready", "gate_error"}
    /\ outbox \in {"none", "held", "delivered", "dead"}
    /\ note \in [{"runner", "loop"} -> RunRecord \cup {NoRecord}]
    /\ visitor \in {"expected", "here", "gone"}
    /\ loop \in {"start", "mark", "marking", "list", "reconcile"}
    /\ listed \in RunRecord \cup {NoRecord}
    /\ evaluator \in {"none", "asleep", "loaded"} \cup Sending \cup Sent
    /\ held \in RunRecord \cup {NoRecord}
    /\ accepted \in [Key -> {"none", "original", "retry"}]
    /\ stamps \in 0 .. MaxStamp
    /\ expired \in 0 .. stamps
    /\ calm \in 0 .. Window
    /\ interrupts \in 0 .. MaxInterrupts

Init ==
    /\ hazards \in Regimes
    /\ dispatch = "idle"
    /\ record = NoRecord
    /\ runner = "none"
    /\ outcome = "wake_ready"
    /\ outbox = "none"
    /\ note = [w \in {"runner", "loop"} |-> NoRecord]
    /\ visitor = "expected"
    /\ loop = "start" /\ listed = NoRecord
    /\ evaluator = "none" /\ held = NoRecord
    /\ accepted = [k \in Key |-> "none"]
    /\ stamps = 0 /\ expired = 0 /\ calm = 0
    /\ interrupts = 0
-----------------------------------------------------------------------------
\* ProcessTracker.snapshot: the process group and the project directory.
Activity == visitor = "here" \/ runner \notin {"none", "exited"}

\* A record whose gate_state the model rejects is moved to corrupt/ when read.
Readable(rec) == rec.gate \in GateState
Loaded(rec) == IF Readable(rec) THEN rec ELSE NoRecord
AfterReading(rec) == IF rec.gate = "gate_error" THEN Quarantined ELSE rec

\* Unless reaping is slow, nobody writes the record while the loop reaps.
LoopIsQuick == "slow_reap" \in hazards \/ loop # "reconcile"

\* A POST that is recorded, and one that gets no answer or a refusal (the key
\* exists with another payload). The sender's own three attempts are one POST.
PostOk(key, payload) ==
    /\ accepted[key] \in {"none", payload}
    /\ accepted' = [accepted EXCEPT ![key] = payload]
PostRefused(key, payload) == "outage" \in hazards \/ accepted[key] \notin {"none", payload}
PostFails(key, payload) ==
    \/ PostRefused(key, payload) /\ UNCHANGED accepted
    \/ "lost_response" \in hazards /\ PostOk(key, payload)
-----------------------------------------------------------------------------
(***************************************************************************)
(* Dispatch and the run                                                    *)
(***************************************************************************)
Spawn ==
    /\ dispatch = "idle"
    /\ dispatch' = "spawned"
    /\ runner' = "working"
    /\ UNCHANGED <<record, outcome, outbox, note, visitor, gateTask, accepted,
                   stamps, expired, calm, interrupts, hazards>>

PersistRunRecord ==
    /\ dispatch = "spawned"
    /\ dispatch' = "recorded"
    /\ record' = [gate |-> "running", idle |-> 0, key |-> NoKey, quiet |-> 0]
    /\ UNCHANGED <<runner, outcome, outbox, note, visitor, gateTask, accepted,
                   stamps, expired, calm, interrupts, hazards>>

\* The agent ends with or without an error, or the runner goes down with it.
RunnerEnds ==
    /\ runner = "working"
    /\ dispatch = "recorded" \/ "early_end" \in hazards
    /\ \/ runner' = "ended" /\ outcome' \in {"wake_ready", "gate_error"}
       \/ runner' = "exited" /\ UNCHANGED outcome
    /\ UNCHANGED <<dispatch, record, outbox, note, visitor, gateTask, accepted,
                   stamps, expired, calm, interrupts, hazards>>

VisitorArrives ==
    /\ "visitor" \in hazards
    /\ visitor = "expected"
    /\ visitor' = "here"
    /\ UNCHANGED <<dispatch, record, runner, outcome, outbox, note, gateTask, accepted,
                   stamps, expired, calm, interrupts, hazards>>

\* It ends by itself or is reaped.
VisitorLeaves ==
    /\ visitor = "here"
    /\ visitor' = "gone"
    /\ UNCHANGED <<dispatch, record, runner, outcome, outbox, note, gateTask, accepted,
                   stamps, expired, calm, interrupts, hazards>>
-----------------------------------------------------------------------------
(***************************************************************************)
(* The runner's callback: the outbox file, then the record, then the POST  *)
(***************************************************************************)
RunnerKey == [event |-> outcome, stamp |-> RunnerStamp]

\* Faulty variant: the key of the callback without the state it reports.
MarkedKeyOnly(rec) == [rec EXCEPT !.key = RunnerKey]

\* _update_local_worker_state: what is written over the copy that was read.
Marked(rec) == [rec EXCEPT !.gate = outcome, !.key = RunnerKey]

RunnerWrites ==
    /\ runner = "ended"
    /\ runner' = "written"
    /\ outbox' = "held"
    /\ UNCHANGED <<dispatch, record, outcome, note, visitor, gateTask, accepted,
                   stamps, expired, calm, interrupts, hazards>>

\* A record that is gone, or not there yet, is not written.
ReadRecord(w) ==
    note' = [note EXCEPT ![w] = IF record \in {NoRecord, Quarantined} THEN NoRecord ELSE record]
WriteRecord(w) ==
    record' = IF note[w] = NoRecord THEN record ELSE Marked(note[w])

RunnerReads ==
    /\ runner \in {"written", "delivered"}
    /\ ReadRecord("runner")
    /\ runner' = IF runner = "written" THEN "noting" ELSE "marking"
    /\ UNCHANGED <<dispatch, record, outcome, outbox, visitor, gateTask, accepted,
                   stamps, expired, calm, interrupts, hazards>>

RunnerMarks ==
    /\ runner \in {"noting", "marking"}
    /\ LoopIsQuick
    /\ WriteRecord("runner")
    /\ note' = [note EXCEPT !["runner"] = NoRecord]
    /\ runner' = IF runner = "noting" THEN "noted" ELSE "exited"
    /\ UNCHANGED <<dispatch, outcome, outbox, visitor, gateTask, accepted,
                   stamps, expired, calm, interrupts, hazards>>

\* After a failed POST the callback waits for the next, or is set aside: the
\* refusal was a permanent one, or it was the last of MAX_ATTEMPTS (which
\* CallbackOutbox counts). A callback set aside marks no record.
KeepOrSetAside == outbox' \in {"held", "dead"}

RunnerDelivers ==
    /\ runner = "noted" /\ outbox = "held"
    /\ \/ PostOk(RunnerKey, "original") /\ outbox' = "delivered" /\ runner' = "delivered"
       \/ PostFails(RunnerKey, "original") /\ KeepOrSetAside /\ runner' = "exited"
    /\ UNCHANGED <<dispatch, record, outcome, note, visitor, gateTask,
                   stamps, expired, calm, interrupts, hazards>>

RunnerFindsItClaimed ==
    /\ runner = "noted" /\ outbox # "held"
    /\ runner' = "exited"
    /\ UNCHANGED <<dispatch, record, outcome, outbox, note, visitor, gateTask, accepted,
                   stamps, expired, calm, interrupts, hazards>>
-----------------------------------------------------------------------------
(***************************************************************************)
(* The reconcile loop                                                      *)
(***************************************************************************)
ReplayDelivers ==
    /\ loop = "start" /\ outbox = "held"
    /\ PostOk(RunnerKey, "original")
    /\ outbox' = "delivered"
    /\ loop' = "mark"
    /\ UNCHANGED <<dispatch, record, runner, outcome, note, visitor, listed, evaluator,
                   held, stamps, expired, calm, interrupts, hazards>>

ReplayFails ==
    /\ loop = "start" /\ outbox = "held"
    /\ PostFails(RunnerKey, "original")
    /\ KeepOrSetAside
    /\ loop' = "list"
    /\ UNCHANGED <<dispatch, record, runner, outcome, note, visitor, listed, evaluator,
                   held, stamps, expired, calm, interrupts, hazards>>

ReplayIdles ==
    /\ loop = "start" /\ outbox # "held"
    /\ loop' = "list"
    /\ UNCHANGED <<dispatch, record, runner, outcome, outbox, note, visitor, listed,
                   evaluator, held, accepted, stamps, expired, calm, interrupts, hazards>>

ReplayReads ==
    /\ loop = "mark"
    /\ ReadRecord("loop")
    /\ loop' = "marking"
    /\ UNCHANGED <<dispatch, record, runner, outcome, outbox, visitor, listed, evaluator,
                   held, accepted, stamps, expired, calm, interrupts, hazards>>

ReplayMarks ==
    /\ loop = "marking"
    /\ WriteRecord("loop")
    /\ note' = [note EXCEPT !["loop"] = NoRecord]
    /\ loop' = "list"
    /\ UNCHANGED <<dispatch, runner, outcome, outbox, visitor, listed, evaluator,
                   held, accepted, stamps, expired, calm, interrupts, hazards>>

ListRuns ==
    /\ loop = "list"
    /\ record' = AfterReading(record)
    /\ listed' = Loaded(record)
    /\ loop' = "reconcile"
    /\ UNCHANGED <<dispatch, runner, outcome, outbox, note, visitor, evaluator, held,
                   accepted, stamps, expired, calm, interrupts, hazards>>

GateKey(event, rec) == [event |-> event, stamp |-> rec.idle]
Sleep == evaluator' = "asleep" /\ held' = NoRecord
Finish == evaluator' = "none" /\ held' = NoRecord

\* Faulty variants: ready records need no evaluator; only ready ones do.
EvaluatedUnlessReady(rec) == rec.gate \in Evaluable
EvaluatedWhenReady(rec) == rec.gate = "wake_ready"

\* The records the loop keeps an evaluator for: past running, short of error.
Evaluated(rec) == rec.gate \in Evaluable \cup {"wake_ready"}

\* A replaced evaluator is cancelled where it waits; the POST it waits for is a
\* thread's and goes on, which is the POST recorded just before.
EnsureEvaluator(rec) ==
    IF Evaluated(rec) /\ evaluator = "none"
      THEN Sleep /\ UNCHANGED interrupts
      ELSE \/ UNCHANGED <<evaluator, held, interrupts>>
           \/ /\ Evaluated(rec) /\ "stalled" \in hazards /\ interrupts < MaxInterrupts
              /\ interrupts' = interrupts + 1
              /\ Sleep

\* What was listed as running and has no process now is saved as pending.
Reconcile ==
    /\ loop = "reconcile"
    /\ IF listed.gate = "running" /\ ~Activity
         THEN /\ stamps < MaxStamp
              /\ stamps' = stamps + 1
              /\ record' = [listed EXCEPT !.gate = "pending_idle_gate", !.quiet = 0,
                                          !.idle = stamps + 1]
              /\ EnsureEvaluator(record')
         ELSE /\ EnsureEvaluator(listed)
              /\ UNCHANGED <<record, stamps>>
    /\ loop' = "start"
    /\ listed' = NoRecord
    /\ UNCHANGED <<dispatch, runner, outcome, outbox, note, visitor, accepted, expired,
                   calm, hazards>>
-----------------------------------------------------------------------------
(***************************************************************************)
(* The evaluator                                                           *)
(***************************************************************************)
LoadRun ==
    /\ evaluator = "asleep"
    /\ record' = AfterReading(record)
    /\ held' = Loaded(record)
    /\ evaluator' = IF Readable(record) THEN "loaded" ELSE "none"
    /\ UNCHANGED <<dispatch, runner, outcome, outbox, note, visitor, loop, listed,
                   accepted, stamps, expired, calm, interrupts, hazards>>

\* Faulty variant: the gate believes keys of its own only.
OwnCallbackDelivered(rec) ==
    rec.key.event = "wake_ready" /\ rec.key.stamp # RunnerStamp

\* _callback_delivered, for a record in wake_ready.
CallbackDelivered(rec) == rec.key.event = "wake_ready"
NeedsRetry(rec) == rec.gate = "wake_ready" /\ ~CallbackDelivered(rec)
TimedOut(rec) == rec.gate \in Evaluable /\ rec.idle # 0 /\ rec.idle <= expired

Save(rec) == record' = rec

RetryReady ==
    /\ evaluator = "loaded" /\ NeedsRetry(held)
    /\ evaluator' = "retrying"
    /\ UNCHANGED <<dispatch, record, runner, outcome, outbox, note, visitor, loop,
                   listed, held, accepted, stamps, expired, calm, interrupts, hazards>>

\* What an evaluator that waits has posted. A retry carries the key of the
\* original, another reason and other telemetry.
PostedKey == IF evaluator = "timing_out" THEN held.key ELSE GateKey("wake_ready", held)
PostedPayload == IF evaluator = "retrying" THEN "retry" ELSE "original"

\* The control plane records the POST; that its answer arrives, and that the
\* evaluator is still there to save it, is another step.
PostRecorded ==
    /\ evaluator \in Sending
    /\ PostOk(PostedKey, PostedPayload)
    /\ evaluator' = [retrying |-> "retried", timing_out |-> "timed_out",
                     announcing |-> "announced"][evaluator]
    /\ UNCHANGED <<dispatch, record, runner, outcome, outbox, note, visitor, loop,
                   listed, held, stamps, expired, calm, interrupts, hazards>>

NoAnswer(sending, sent) ==
    \/ evaluator = sending /\ PostRefused(PostedKey, PostedPayload)
    \/ evaluator = sent /\ "lost_response" \in hazards

RetryOk ==
    /\ evaluator = "retried"
    /\ Save([held EXCEPT !.key = GateKey("wake_ready", held)])
    /\ Finish
    /\ UNCHANGED <<dispatch, runner, outcome, outbox, note, visitor, loop, listed,
                   accepted, stamps, expired, calm, interrupts, hazards>>

\* What was loaded is saved again by the evaluation that follows.
RetryFails ==
    /\ NoAnswer("retrying", "retried")
    /\ Save(held)
    /\ Sleep
    /\ UNCHANGED <<dispatch, runner, outcome, outbox, note, visitor, loop, listed,
                   accepted, stamps, expired, calm, interrupts, hazards>>

\* The error and the key of its callback are saved before the callback is sent.
TimeOut ==
    /\ evaluator = "loaded" /\ TimedOut(held)
    /\ IF held.key = GateKey("gate_timeout", held)
         THEN Finish /\ UNCHANGED record
         ELSE /\ held' = [held EXCEPT !.gate = "error", !.key = GateKey("gate_timeout", held)]
              /\ Save(held')
              /\ evaluator' = "timing_out"
    /\ UNCHANGED <<dispatch, runner, outcome, outbox, note, visitor, loop, listed,
                   accepted, stamps, expired, calm, interrupts, hazards>>

TimeOutSent ==
    /\ evaluator = "timed_out" \/ NoAnswer("timing_out", "timed_out")
    /\ Save(held)
    /\ Finish
    /\ UNCHANGED <<dispatch, runner, outcome, outbox, note, visitor, loop, listed,
                   accepted, stamps, expired, calm, interrupts, hazards>>

Evaluating == evaluator = "loaded" /\ ~NeedsRetry(held) /\ ~TimedOut(held)

\* A record in wake_ready, running or error is saved as it was loaded.
EvaluateNothing ==
    /\ Evaluating /\ held.gate \notin Evaluable
    /\ Save(held)
    /\ Sleep
    /\ UNCHANGED <<dispatch, runner, outcome, outbox, note, visitor, loop, listed,
                   accepted, stamps, expired, calm, interrupts, hazards>>

\* Faulty variant: activity interrupts the window without emptying it.
WindowKept(rec) == rec.quiet

\* What activity leaves of the quiet window.
WindowAfterActivity(rec) == 0

EvaluateActive ==
    /\ Evaluating /\ held.gate \in Evaluable
    /\ Activity
    /\ Save([held EXCEPT !.gate = "waiting_for_process_exit",
                         !.quiet = WindowAfterActivity(held)])
    /\ Sleep
    /\ calm' = 0
    /\ UNCHANGED <<dispatch, runner, outcome, outbox, note, visitor, loop, listed,
                   accepted, stamps, expired, interrupts, hazards>>

Sampled(rec) == [rec EXCEPT !.quiet = IF @ < Window THEN @ + 1 ELSE Window]
WindowFull(rec) == rec.quiet >= Window
MoreCalm == calm' = IF calm < Window THEN calm + 1 ELSE Window

\* _is_duplicate_gate_callback compares the stamp of the key alone.
Duplicate(rec) == rec.key # NoKey /\ rec.key.stamp = rec.idle

\* The window is too short, the samples in it are not quiet, or it has filled
\* for an idle stamp that was reported before; the last leaves the state alone.
EvaluateWaiting ==
    /\ Evaluating /\ held.gate \in Evaluable
    /\ ~Activity
    /\ \E gate \in {"waiting_for_quiet_window"} \cup
            (IF WindowFull(Sampled(held)) /\ Duplicate(held) THEN {held.gate} ELSE {}) :
          Save([Sampled(held) EXCEPT !.gate = gate])
    /\ Sleep
    /\ MoreCalm
    /\ UNCHANGED <<dispatch, runner, outcome, outbox, note, visitor, loop, listed,
                   accepted, stamps, expired, interrupts, hazards>>

EvaluateReady ==
    /\ Evaluating /\ held.gate \in Evaluable
    /\ ~Activity /\ WindowFull(Sampled(held)) /\ ~Duplicate(held)
    /\ held' = [Sampled(held) EXCEPT !.gate = "wake_ready"]
    /\ Save(held')
    /\ evaluator' = "announcing"
    /\ MoreCalm
    /\ UNCHANGED <<dispatch, runner, outcome, outbox, note, visitor, loop, listed,
                   accepted, stamps, expired, interrupts, hazards>>

AnnounceOk ==
    /\ evaluator = "announced"
    /\ Save([held EXCEPT !.key = GateKey("wake_ready", held)])
    /\ Finish
    /\ UNCHANGED <<dispatch, runner, outcome, outbox, note, visitor, loop, listed,
                   accepted, stamps, expired, calm, interrupts, hazards>>

AnnounceFails ==
    /\ NoAnswer("announcing", "announced")
    /\ Sleep
    /\ UNCHANGED <<dispatch, record, runner, outcome, outbox, note, visitor, loop,
                   listed, accepted, stamps, expired, calm, interrupts, hazards>>
-----------------------------------------------------------------------------
(***************************************************************************)
(* Time and restarts                                                       *)
(***************************************************************************)
Expire ==
    /\ "expiry" \in hazards
    /\ expired < stamps
    /\ expired' = stamps
    /\ UNCHANGED <<dispatch, record, runner, outcome, outbox, note, visitor, gateTask,
                   accepted, stamps, calm, interrupts, hazards>>

\* The service is stopped with every process of its control group (KillMode
\* mixed): the handler, the coroutines, the runner and its children. What was
\* being posted from the outbox may have been recorded, and is still held.
Restart ==
    /\ "restart" \in hazards /\ interrupts < MaxInterrupts
    /\ interrupts' = interrupts + 1
    /\ dispatch' = IF dispatch = "spawned" THEN "lost" ELSE dispatch
    /\ runner' = IF runner = "none" THEN "none" ELSE "exited"
    /\ visitor' = IF visitor = "here" THEN "gone" ELSE visitor
    /\ note' = [w \in {"runner", "loop"} |-> NoRecord]
    /\ loop' = "start" /\ listed' = NoRecord
    /\ Finish
    /\ \/ UNCHANGED accepted
       \/ /\ outbox = "held" /\ (runner = "noted" \/ loop = "start")
          /\ PostOk(RunnerKey, "original")
    /\ UNCHANGED <<record, outcome, outbox, stamps, expired, calm, hazards>>
-----------------------------------------------------------------------------
Run == Spawn \/ PersistRunRecord \/ RunnerEnds \/ VisitorArrives \/ VisitorLeaves

Runner == RunnerWrites \/ RunnerReads \/ RunnerMarks \/ RunnerDelivers \/ RunnerFindsItClaimed

Loop ==
    \/ ReplayDelivers \/ ReplayFails \/ ReplayIdles \/ ReplayReads \/ ReplayMarks
    \/ ListRuns \/ Reconcile

Evaluator ==
    \/ LoadRun \/ PostRecorded \/ RetryReady \/ RetryOk \/ RetryFails \/ TimeOut \/ TimeOutSent
    \/ EvaluateNothing \/ EvaluateActive \/ EvaluateWaiting \/ EvaluateReady
    \/ AnnounceOk \/ AnnounceFails

Next == Run \/ Runner \/ Loop \/ Evaluator \/ Expire \/ Restart

Spec == Init /\ [][Next]_vars
-----------------------------------------------------------------------------
(***************************************************************************)
(* Safety                                                                  *)
(***************************************************************************)

\* The gate calls a run over only after Window samples in a row without any
\* process of the run or of its project directory (WakeGate.evaluate).
FullQuietWindow ==
    [][(evaluator # "announcing" /\ evaluator' = "announcing") => calm' >= Window]_vars

\* The record is there before the run ends, no run outlives its gate, and nobody
\* writes the record while the loop reaps.
Undisturbed == hazards \cap {"early_end", "slow_reap", "restart"} = {}

\* A run whose runner left a callback in the outbox is not reported a second
\* time, under another key, by the gate.
OneVoice ==
    (Undisturbed /\ outbox # "none") =>
        \A k \in Key : accepted[k] # "none" => k.stamp = RunnerStamp

\* A run whose runner reports a failure is never reported as ready.
NoSuccessForFailedRun ==
    (Undisturbed /\ outbox # "none" /\ outcome = "gate_error") =>
        \A k \in Key : accepted[k] # "none" => k.event # "wake_ready"
-----------------------------------------------------------------------------
(***************************************************************************)
(* Liveness                                                                *)
(***************************************************************************)
\* Coroutines are resumed and the runner's processes run on; what the gate
\* posts again and again is recorded and answered some time; a callback of the
\* outbox is delivered or set aside after MAX_ATTEMPTS at the latest
\* (EventuallySettled of CallbackOutbox); a machine that is sampled again and
\* again is found quiet. A visitor leaves or is reaped; a run need not end.
ReplaySettles == ReplayDelivers \/ (ReplayFails /\ outbox' = "dead")

Fairness ==
    /\ WF_vars(PersistRunRecord) /\ WF_vars(VisitorLeaves)
    /\ WF_vars(RunnerWrites) /\ WF_vars(RunnerReads) /\ WF_vars(RunnerMarks)
    /\ WF_vars(RunnerDelivers \/ RunnerFindsItClaimed)
    /\ WF_vars(Loop) /\ SF_vars(ReplaySettles)
    /\ WF_vars(Evaluator) /\ SF_vars(PostRecorded) /\ SF_vars(RetryOk)
    /\ SF_vars(EvaluateReady)
    /\ WF_vars(Expire)

FairSpec == Spec /\ Fairness

\* A run the gate has recorded and that is over is reported by somebody, or its
\* callback is set aside for the operator, or it ends in error when the wait is
\* over. (That the error is reported is not promised: TimeOutSent does not send
\* it again.)
RunReported ==
    (dispatch = "recorded" /\ runner = "exited") ~>
        \/ record.gate = "error"
        \/ outbox = "dead"
        \/ \E k \in Key : accepted[k] # "none"

\* The answer to a POST of the gate reaches the evaluator that made it.
AnswersArrive == hazards \cap {"lost_response", "stalled", "restart"} = {}

\* A ready record without a delivered key does not stay one, through any outage,
\* unless the control plane has recorded its callback and the answer has missed
\* the evaluator: the retry sends another payload under the same key, which is
\* refused for ever (_process_retry_callback).
ReadyConfirmed ==
    NeedsRetry(record) ~>
        \/ ~NeedsRetry(record)
        \/ ~AnswersArrive /\ accepted[GateKey("wake_ready", record)] # "none"
=============================================================================
