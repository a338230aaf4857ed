---------------------------- MODULE QueueWatch ----------------------------
(***************************************************************************)
(* The queue alert check: every five minutes a oneshot process reads the   *)
(* status, has the control plane look for a stuck queue, reconcile what it *)
(* can and page the operator about the rest, pages about the readiness of  *)
(* the automation, and then pumps the queue.  An operator may ask for the  *)
(* same check at any time.                                                 *)
(*                                                                         *)
(* A lane is its active queue row and the run its worker knows.  Claiming, *)
(* posting and callbacks are QueueLedger's subject and are single steps    *)
(* here; what is in detail is what a check reads when, and what it makes   *)
(* of it.  Refreshed observations count as fresh: a row of another lane    *)
(* than the default one is then unconfirmed at worst, never stale.         *)
(***************************************************************************)
EXTENDS FiniteSets, Naturals

CONSTANTS
    Lanes, DefaultLane,
    Timer, Operator,    \* who asks for checks
    Setups              \* scenarios: work at hand and hazards

\*  force         the operator asks for checks with force_notify
\*  vanish        a run is lost by its worker and never reported
\*  detach        a row is taken off its live run
\*  late_report   a run is forgotten by its worker before its report arrives
\*  overlong      a run takes longer than queue_alert_hang_after_sec
\*  hasty         grace periods pass within one check, and the decision file
\*                of an earlier run passes for evidence of the present one
\*  no_evidence   evidence of a run cannot be synced
\*  not_ready     the readiness endpoint reports a blocker or fails
\*  push_fails    a page is not delivered
\*  db_fails      the alert event cannot be appended
AllHazards ==
    {"force", "vanish", "detach", "late_report", "overlong",
     "hasty", "no_evidence", "not_ready", "push_fails", "db_fails"}

\* What the role configured for a lane says of its worker.  "gpu": it names
\* GB10 or gpu_worker, as that of the default lane alone may; a default lane
\* that is no named target has a role of the third kind.
Roles == {"gpu", "cpu", "other"}

Setup ==
    [jobs : Nat, drafts : Nat, followups : Nat, holds : Nat, asks : Nat,
     role : [Lanes -> Roles], hazards : SUBSET AllHazards]

ASSUME LaneAssumption == DefaultLane \in Lanes /\ IsFiniteSet(Lanes)
ASSUME CheckerAssumption == Timer # Operator
ASSUME SetupAssumption ==
    /\ Setups \subseteq Setup
    /\ \A s \in Setups, l \in Lanes : s.role[l] = "gpu" => l = DefaultLane

Checks == {Timer, Operator}

VARIABLES
    row,     \* active row of a lane: none, young or past the hang threshold
    run,     \* what the worker of a lane knows of its last run
    owed,    \* lanes whose run ended and has not reported
    recent,  \* lanes with a dispatch event within the race grace
    queued,  \* lanes with queued candidates; those of a lane count as one
    work,    \* what is still to come: jobs, papers to draft, follow-ups, holds by
             \* the operator, checks the operator asks for
    flag,    \* control flags: "open", "paused" or "maintenance"
    bucket,  \* parity of the current cooldown bucket
    events,  \* keys of the alert events of this bucket and of running checks
    noted,   \* blockers of the readiness page within its cooldown
    check,   \* what each check has read and where it is
    setup,   \* the scenario; never changes
    told     \* history: keys delivered to the operator

lanes == <<row, run, owed, recent>>
supply == <<queued, work>>
pages == <<bucket, events, noted, told>>
vars == <<lanes, supply, flag, pages, check, setup>>

Ages == {"none", "young", "old"}
Views == {"none", "live", "settling"}
Plans == {"none", "held", "unsafe", "wait", "dispatch", "followup"}
Phases ==
    {"idle", "started", "read", "observed", "evaluate", "judged", "push", "told",
     "readiness", "pump", "launched"}
Flags == {"open", "paused", "maintenance"}

Stuck == [what |-> "stuck", lane |-> DefaultLane]
Hang == [what |-> "hang", lane |-> DefaultLane]
Conflict == [what |-> "conflict", lane |-> DefaultLane]
Orphan(l) == [what |-> "orphan", lane |-> l]
Findings == {Stuck, Hang, Conflict} \cup {Orphan(l) : l \in Lanes}
Keys == [findings : SUBSET Findings, bucket : {0, 1}]

Nothing == [l \in Lanes |-> "none"]
Idle ==
    [at |-> "idle", plan |-> "none", rows |-> Nothing, view |-> Nothing, gone |-> {},
     flag |-> "open", replayed |-> FALSE, key |-> [findings |-> {}, bucket |-> 0],
     alerting |-> FALSE]

CheckState ==
    [at : Phases, plan : Plans, rows : [Lanes -> Ages], view : [Lanes -> Views],
     gone : SUBSET Lanes, flag : Flags, replayed : BOOLEAN, key : Keys,
     alerting : BOOLEAN]

Hazard(h) == h \in setup.hazards
At(c, phase) == check[c].at = phase
MoveTo(c, phase) == check' = [check EXCEPT ![c].at = phase]

\* A check that has read rows and not yet judged them.
Looking(c) == check[c].at \in {"read", "observed", "evaluate"}

TypeOK ==
    /\ row \in [Lanes -> Ages]
    /\ run \in [Lanes -> {"none", "posted", "running", "settling"}]
    /\ owed \in SUBSET Lanes
    /\ recent \in SUBSET Lanes
    /\ queued \in SUBSET Lanes
    /\ work \in [jobs : Nat, drafts : Nat, followups : Nat, holds : Nat, asks : Nat]
    /\ flag \in Flags
    /\ bucket \in {0, 1}
    /\ events \in SUBSET Keys
    /\ told \in SUBSET Keys
    /\ noted \in SUBSET {"held", "not_ready"}
    /\ check \in [Checks -> CheckState]
    /\ setup \in Setups

Init ==
    /\ setup \in Setups
    /\ row = Nothing /\ run = Nothing /\ owed = {} /\ recent = {} /\ queued = {}
    /\ work = [jobs |-> setup.jobs, drafts |-> setup.drafts,
               followups |-> setup.followups, holds |-> setup.holds,
               asks |-> setup.asks]
    /\ flag = "open"
    /\ bucket = 0 /\ events = {} /\ told = {} /\ noted = {}
    /\ check = [c \in Checks |-> Idle]

-----------------------------------------------------------------------------
(* What a status says *)

Active(l) == row[l] # "none"
View(l) ==
    CASE run[l] = "running" -> "live"
      [] run[l] = "settling" -> "settling"
      [] OTHER -> "none"

\* The lane of the next candidate: queued work and no active row.
Open == {l \in queued : ~Active(l)}

\* A lane whose worker is busy although the control plane has no row for it.
Occupied == {l \in Lanes : ~Active(l) /\ run[l] \in {"running", "settling"}}

\* Faulty variant: a status without a candidate is taken for unsafe.
StrictPlan ==
    IF flag # "open" THEN "held"
    ELSE IF Occupied # {} \/ Open = {} THEN "unsafe" ELSE "dispatch"

\* dispatch_safe, next_candidate and active_items of the status a tick begins
\* with, as far as the pump looks at them.
PumpPlan ==
    LET anyActive == \E l \in Lanes : Active(l)
        full == anyActive /\ Open = {} /\ (queued # {} \/ \A l \in Lanes : Active(l))
    IN  IF flag # "open" THEN "held"
        ELSE IF Occupied # {} \/ full THEN "unsafe"
        ELSE IF Open # {} THEN "dispatch"
        ELSE IF anyActive THEN "wait" ELSE "followup"

(* Dispatch: the whole of a live dispatch that succeeds.  The preflight    *)
(* refuses a worker that is still busy.                                    *)
Dispatchable(l) == flag = "open" /\ l \in Open /\ run[l] = "none"
Dispatched(l) ==
    /\ row' = [row EXCEPT ![l] = "young"]
    /\ run' = [run EXCEPT ![l] = "posted"]
    /\ recent' = recent \cup {l}
    /\ owed' = owed \ {l}

\* What a check has read of lane l is no longer about the lane's run.
Outdated(l, f) ==
    [c \in Checks |-> IF Looking(c) THEN [f[c] EXCEPT !.gone = @ \cup {l}] ELSE f[c]]

-----------------------------------------------------------------------------
(* The alert check *)

\* The process starts and reads the status.  While the control plane is held
\* it does not ask for an alert check.
StartTick ==
    /\ At(Timer, "idle")
    /\ check' = [check EXCEPT ![Timer] =
          [Idle EXCEPT !.plan = PumpPlan,
                       !.at = IF PumpPlan = "held" THEN "readiness" ELSE "started"]]
    /\ UNCHANGED <<lanes, supply, flag, pages, setup>>

\* The status of the check: rows and flags first ...
ReadRows(c) ==
    /\ \/ c = Timer /\ At(c, "started") /\ UNCHANGED work
       \/ /\ c = Operator /\ At(c, "idle") /\ work.asks > 0
          /\ work' = [work EXCEPT !.asks = @ - 1]
    /\ check' = [check EXCEPT ![c].at = "read", ![c].rows = row, ![c].flag = flag]
    /\ UNCHANGED <<lanes, queued, flag, pages, setup>>

\* ... then the workers.
Observe(c) ==
    /\ At(c, "read")
    /\ check' = [check EXCEPT ![c].at = "observed",
                              ![c].view = [l \in Lanes |-> View(l)]]
    /\ UNCHANGED <<lanes, supply, flag, pages, setup>>

\* The alert part is over.
Finished(c, alerting) ==
    IF c = Timer
    THEN [Idle EXCEPT !.at = "readiness", !.plan = check[c].plan, !.alerting = alerting]
    ELSE Idle

\* A default lane whose worker has no run licenses reconciling every active
\* row without a run in the observation.
Unconfirmed(c) ==
    LET seen == check[c]
    IN  IF seen.rows[DefaultLane] # "none" /\ seen.view[DefaultLane] = "none"
        THEN {l \in Lanes : seen.rows[l] # "none" /\ seen.view[l] = "none"}
        ELSE {}

\* Evidence is found for a run that is over.
Proven(c) ==
    {l \in Unconfirmed(c) :
        IF l \in check[c].gone \/ run[l] \in {"none", "settling"}
        THEN ~Hazard("no_evidence")
        ELSE Hazard("hasty")}

\* wake_ready is replayed for the proven rows, a report for an earlier run of
\* the lane changes nothing; then the rows are read again, the workers are not.
\* Once no row is active, no alert is evaluated.
AutoReconcile(c) ==
    /\ At(c, "observed")
    /\ row' = [l \in Lanes |->
          IF l \in Proven(c) \ check[c].gone THEN "none" ELSE row[l]]
    /\ check' = [check EXCEPT ![c] =
          IF Proven(c) = {} THEN [@ EXCEPT !.at = "evaluate"]
          ELSE IF row' = Nothing THEN Finished(c, FALSE)
          ELSE [@ EXCEPT !.at = "evaluate", !.rows = row', !.flag = flag, !.gone = {},
                         !.replayed = TRUE]]
    /\ UNCHANGED <<run, owed, recent, supply, flag, pages, setup>>

\* Lanes without a row whose run is over: each blocks dispatch as settling.
Settling(c) ==
    {l \in Lanes : check[c].rows[l] = "none" /\ check[c].view[l] = "settling"}

\* Conflicts are reported whatever the flags say, slow rows only while the
\* control plane is open.  All slow rows give one and the same finding.  A lane
\* with a live run and no row gives one unless the run is known to have
\* succeeded; such a run is taken to have failed here.  The default lane gives
\* a second one, which a settling run is spared only while no lane has a row.
RawFindings(c) ==
    LET seen == check[c]
        slow == {l \in Lanes : seen.rows[l] = "old" /\ seen.view[l] # "live"}
        spared == DefaultLane \in Settling(c) /\ seen.rows = Nothing
    IN  {f \in Findings :
            \/ f = Stuck /\ seen.rows[DefaultLane] # "none"
                         /\ seen.view[DefaultLane] = "none"
            \/ f = Hang /\ seen.flag = "open" /\ slow # {}
            \/ f = Conflict /\ seen.rows[DefaultLane] = "none"
                            /\ seen.view[DefaultLane] # "none" /\ ~spared
            \/ f.what = "orphan" /\ seen.rows[f.lane] = "none"
                                 /\ seen.view[f.lane] = "live"}

\* A settling lane holds back what its role matches: a finding that names GB10
\* or a CPU worker is matched by such a lane, one that names neither by any.
HeldBack(c, f) ==
    LET role == IF f = Conflict THEN "gpu" ELSE setup.role[f.lane]
    IN  /\ f.what \in {"conflict", "orphan"}
        /\ \E l \in Settling(c) : role \in {setup.role[l], "other"}

\* A dispatch within the grace of any active row excuses a missing run, one of
\* the lane excuses a missing row; the default lane's conflict names no lane.
Excused(c, f) ==
    \/ f = Stuck /\ \E l \in recent : check[c].rows[l] # "none"
    \/ f.what = "orphan" /\ f.lane \in recent
    \/ HeldBack(c, f)

\* Faulty variant: the dispatch events are not looked at.
KeptUnexcused(c) == RawFindings(c)

KeptFindings(c) == {f \in RawFindings(c) : ~Excused(c, f)}

Evaluate(c) ==
    /\ At(c, "evaluate")
    /\ check' = [check EXCEPT ![c] =
          IF KeptFindings(c) = {} THEN Finished(c, FALSE)
          ELSE [Idle EXCEPT !.at = "judged", !.plan = check[c].plan, !.flag = check[c].flag,
                            !.replayed = check[c].replayed,
                            !.key = [findings |-> KeptFindings(c), bucket |-> bucket]]]
    /\ UNCHANGED <<lanes, supply, flag, pages, setup>>

-----------------------------------------------------------------------------
(* Paging *)

Forced(c) == c = Operator /\ Hazard("force")

\* Faulty variant: a page is sent whether or not its event was new.
AppendAnyway(c) ==
    /\ At(c, "judged")
    /\ events' = events \cup {check[c].key}
    /\ MoveTo(c, "push")
    /\ UNCHANGED <<lanes, supply, flag, bucket, noted, told, setup>>

\* Maintenance suppresses the page and leaves its cooldown alone.  Otherwise
\* the event is appended under a key of findings and bucket before anything is
\* sent; a key that is there already suppresses the page.
AppendAlert(c) ==
    /\ At(c, "judged")
    /\ \/ /\ check[c].flag = "maintenance"
          /\ check' = [check EXCEPT ![c] = Finished(c, TRUE)]
          /\ UNCHANGED events
       \/ /\ check[c].flag # "maintenance"
          /\ check[c].key \notin events
          /\ events' = events \cup {check[c].key}
          /\ MoveTo(c, "push")
       \/ /\ check[c].flag # "maintenance"
          /\ check[c].key \in events
          /\ check' = [check EXCEPT ![c] =
                IF Forced(c) THEN [@ EXCEPT !.at = "push"] ELSE Finished(c, TRUE)]
          /\ UNCHANGED events
       \/ /\ check[c].flag # "maintenance"
          /\ Hazard("db_fails")
          /\ MoveTo(c, "push")
          /\ UNCHANGED events
    /\ UNCHANGED <<lanes, supply, flag, bucket, noted, told, setup>>

PushOk(c) ==
    /\ At(c, "push")
    /\ told' = told \cup {check[c].key}
    /\ MoveTo(c, "told")
    /\ UNCHANGED <<lanes, supply, flag, bucket, events, noted, setup>>

PushFails(c) ==
    /\ At(c, "push")
    /\ Hazard("push_fails")
    /\ check' = [check EXCEPT ![c] = Finished(c, TRUE)]
    /\ UNCHANGED <<lanes, supply, flag, pages, setup>>

Answer(c) ==
    /\ At(c, "told")
    /\ check' = [check EXCEPT ![c] = Finished(c, TRUE)]
    /\ UNCHANGED <<lanes, supply, flag, pages, setup>>

Blockers ==
    {b \in {"held", "not_ready"} :
        \/ b = "held" /\ flag # "open"
        \/ b = "not_ready" /\ Hazard("not_ready")}

\* The readiness page keeps its own cooldown, in a file that holds the
\* blockers last paged about, and is tried again until it is delivered.
ReadinessOk ==
    /\ At(Timer, "readiness")
    /\ Blockers = {} \/ Blockers = noted
    /\ MoveTo(Timer, "pump")
    /\ UNCHANGED <<lanes, supply, flag, pages, setup>>

ReadinessPaged ==
    /\ At(Timer, "readiness")
    /\ Blockers # {} /\ Blockers # noted
    /\ noted' = Blockers
    /\ MoveTo(Timer, "pump")
    /\ UNCHANGED <<lanes, supply, flag, bucket, events, told, setup>>

ReadinessPushFails ==
    /\ At(Timer, "readiness")
    /\ Blockers # {} /\ Blockers # noted
    /\ Hazard("push_fails")
    /\ MoveTo(Timer, "pump")
    /\ UNCHANGED <<lanes, supply, flag, pages, setup>>

-----------------------------------------------------------------------------
(* The pump *)

EndTick == check' = [check EXCEPT ![Timer] = Idle]

\* Control held, findings, or a status that is not safe to dispatch on.
PumpRests ==
    /\ At(Timer, "pump")
    /\ check[Timer].plan \in {"held", "unsafe"} \/ check[Timer].alerting
    /\ EndTick
    /\ UNCHANGED <<lanes, supply, flag, pages, setup>>

Pumps ==
    /\ At(Timer, "pump")
    /\ check[Timer].plan \notin {"held", "unsafe"} /\ ~check[Timer].alerting

\* A paper is drafted first; the tick then dispatches nothing.
PumpDrafts ==
    /\ Pumps
    /\ work.drafts > 0
    /\ work' = [work EXCEPT !.drafts = @ - 1]
    /\ EndTick
    /\ UNCHANGED <<lanes, queued, flag, pages, setup>>

\* dispatch-next looks for a candidate of its own, later than the status.
DispatchNext ==
    \/ \E l \in Lanes :
          /\ Dispatchable(l)
          /\ Dispatched(l)
          /\ queued' = queued \ {l}
          /\ check' = [Outdated(l, check) EXCEPT ![Timer] = Idle]
    \/ /\ ~\E l \in Lanes : Dispatchable(l)
       /\ EndTick
       /\ UNCHANGED <<lanes, queued>>

PumpDispatches ==
    /\ Pumps
    /\ work.drafts = 0
    /\ check[Timer].plan = "dispatch"
    /\ DispatchNext
    /\ UNCHANGED <<work, flag, pages, setup>>

\* No candidate: nothing while a row is active, a follow-up otherwise.
PumpWaits ==
    /\ Pumps
    /\ work.drafts = 0
    /\ \/ check[Timer].plan = "wait"
       \/ check[Timer].plan = "followup" /\ work.followups = 0
    /\ EndTick
    /\ UNCHANGED <<lanes, supply, flag, pages, setup>>

PumpLaunches ==
    /\ Pumps
    /\ work.drafts = 0
    /\ check[Timer].plan = "followup"
    /\ work.followups > 0
    /\ work' = [work EXCEPT !.followups = @ - 1]
    /\ \E l \in Lanes : queued' = queued \cup {l}
    /\ MoveTo(Timer, "launched")
    /\ UNCHANGED <<lanes, flag, pages, setup>>

LaunchedDispatches ==
    /\ At(Timer, "launched")
    /\ DispatchNext
    /\ UNCHANGED <<work, flag, pages, setup>>

Pump ==
    PumpRests \/ PumpDrafts \/ PumpDispatches \/ PumpWaits \/ PumpLaunches
    \/ LaunchedDispatches

-----------------------------------------------------------------------------
(* Rows, runs, operator and time *)

Enqueue(l) ==
    /\ work.jobs > 0
    /\ l \notin queued
    /\ queued' = queued \cup {l}
    /\ work' = [work EXCEPT !.jobs = @ - 1]
    /\ UNCHANGED <<lanes, flag, pages, check, setup>>

\* Another caller of dispatch-next: the research autopilot or the operator.
OtherDispatch(l) ==
    /\ Dispatchable(l)
    /\ Dispatched(l)
    /\ queued' = queued \ {l}
    /\ check' = Outdated(l, check)
    /\ UNCHANGED <<work, flag, pages, setup>>

WorkerStarts(l) ==
    /\ run[l] = "posted"
    /\ run' = [run EXCEPT ![l] = "running"]
    /\ UNCHANGED <<row, owed, recent, supply, flag, pages, check, setup>>

WorkerEnds(l) ==
    /\ run[l] = "running"
    /\ run' = [run EXCEPT ![l] = "settling"]
    /\ owed' = owed \cup {l}
    /\ UNCHANGED <<row, recent, supply, flag, pages, check, setup>>

\* The callback of the run that ended; its row may have been taken off it.
ReportRun(l) ==
    /\ l \in owed
    /\ owed' = owed \ {l}
    /\ row' = [row EXCEPT ![l] = "none"]
    /\ UNCHANGED <<run, recent, supply, flag, pages, check, setup>>

\* Reading a status is short against the quiet window and the race grace.
Unhurried == Hazard("hasty") \/ \A c \in Checks : ~Looking(c)

\* The quiet window ends.  The runner reports long before that.
Quiet(l) ==
    /\ run[l] = "settling"
    /\ l \notin owed \/ Hazard("late_report")
    /\ Unhurried
    /\ run' = [run EXCEPT ![l] = "none"]
    /\ UNCHANGED <<row, owed, recent, supply, flag, pages, check, setup>>

\* The race grace ends.  The worker has answered long before that.
Expire(l) ==
    /\ l \in recent
    /\ run[l] # "posted" \/ Hazard("hasty")
    /\ Unhurried
    /\ recent' = recent \ {l}
    /\ UNCHANGED <<row, run, owed, supply, flag, pages, check, setup>>

\* A row passes the hang threshold.  A run that ends reports before that.
Grow(l) ==
    /\ row[l] = "young"
    /\ l \notin recent
    /\ run[l] = "none" \/ Hazard("overlong")
    /\ row' = [row EXCEPT ![l] = "old"]
    /\ UNCHANGED <<run, owed, recent, supply, flag, pages, check, setup>>

Vanish(l) ==
    /\ Hazard("vanish")
    /\ run[l] = "running"
    /\ run' = [run EXCEPT ![l] = "none"]
    /\ UNCHANGED <<row, owed, recent, supply, flag, pages, check, setup>>

Detach(l) ==
    /\ Hazard("detach")
    /\ run[l] = "running"
    /\ Active(l)
    /\ row' = [row EXCEPT ![l] = "none"]
    /\ UNCHANGED <<run, owed, recent, supply, flag, pages, check, setup>>

Hold ==
    /\ work.holds > 0
    /\ flag = "open"
    /\ flag' \in {"paused", "maintenance"}
    /\ work' = [work EXCEPT !.holds = @ - 1]
    /\ UNCHANGED <<lanes, queued, pages, check, setup>>

Resume ==
    /\ flag # "open"
    /\ flag' = "open"
    /\ UNCHANGED <<lanes, supply, pages, check, setup>>

\* Keys that a running check has yet to act upon.
InHand == {check[c].key : c \in {d \in Checks : check[d].at \in {"judged", "push", "told"}}}

\* Faulty variant: an alert event suppresses its findings for good.
EventsForGood ==
    /\ events \cup InHand # {}
    /\ \A k \in InHand : k.bucket = bucket
    /\ bucket' = 1 - bucket
    /\ events' = {[k EXCEPT !.bucket = b] : k \in events, b \in {0, 1}}
    /\ UNCHANGED <<lanes, supply, flag, noted, told, check, setup>>

\* queue_alert_cooldown_sec since the epoch, divided out.  A check ends before
\* the bucket after the one it began in does.  A rollover that no key can tell
\* is left out.
NewBucket ==
    /\ events \cup InHand # {}
    /\ \A k \in InHand : k.bucket = bucket
    /\ bucket' = 1 - bucket
    /\ events' = {k \in events : k.bucket = bucket /\ InHand # {}}
    /\ told' = {k \in told : k.bucket = bucket /\ InHand # {}}
    /\ UNCHANGED <<lanes, supply, flag, noted, check, setup>>

CoolDown ==
    /\ noted # {}
    /\ noted' = {}
    /\ UNCHANGED <<lanes, supply, flag, bucket, events, told, check, setup>>

-----------------------------------------------------------------------------
(* Specification *)

Worker(l) == WorkerStarts(l) \/ WorkerEnds(l) \/ ReportRun(l) \/ Quiet(l)

Environment ==
    \/ \E l \in Lanes :
          \/ Enqueue(l) \/ OtherDispatch(l) \/ Worker(l)
          \/ Expire(l) \/ Grow(l) \/ Vanish(l) \/ Detach(l)
    \/ Hold \/ Resume \/ NewBucket \/ CoolDown

Readiness == ReadinessOk \/ ReadinessPaged \/ ReadinessPushFails

Check(c) ==
    ReadRows(c) \/ Observe(c) \/ AutoReconcile(c) \/ Evaluate(c) \/ AppendAlert(c)
    \/ PushOk(c) \/ PushFails(c) \/ Answer(c)

Next == StartTick \/ Readiness \/ Pump \/ (\E c \in Checks : Check(c)) \/ Environment

Spec == Init /\ [][Next]_vars

\* The timer fires and its process runs to its end, as do requests; grace
\* periods, buckets and cooldowns pass; workers start what they were posted,
\* and reports arrive; the operator ends a hold.  A page that is tried again
\* and again is delivered once.  A run ends of itself only where nothing goes
\* wrong.
TimerStep == StartTick \/ Readiness \/ Pump \/ Check(Timer)

Fairness ==
    /\ WF_vars(TimerStep) /\ WF_vars(~At(Operator, "idle") /\ Check(Operator))
    /\ SF_vars(PushOk(Timer)) /\ SF_vars(ReadinessPaged)
    /\ WF_vars(NewBucket) /\ WF_vars(CoolDown) /\ WF_vars(Resume)
    /\ WF_vars(\E l \in Lanes : WorkerStarts(l) \/ ReportRun(l) \/ Grow(l))
    /\ SF_vars(\E l \in Lanes : Quiet(l) \/ Expire(l))
    /\ WF_vars(setup.hazards = {} /\ \E l \in Lanes : WorkerEnds(l))

FairSpec == Spec /\ Fairness

-----------------------------------------------------------------------------
(* Properties *)

\* While runs end in time and report, a check has nothing to page about, whatever
\* is dispatched, ends and reports while it looks (alerts.py's suppression of
\* races and of settling lanes), but for three mistakes:
\*   - the default lane's conflict names no lane, so that a dispatch between the
\*     reading of the rows and of the workers does not excuse it;
\*   - a settling default lane whose role names no GPU worker is taken for a
\*     conflict while another lane has a row;
\*   - with a third lane still active, a check that reconciled a row holds rows
\*     newer than its observation, and may take a run that ended and reported
\*     in between for an orphan.
Healthy ==
    setup.hazards \cap
        {"vanish", "detach", "late_report", "overlong", "hasty", "no_evidence"} = {}
OvertakenByDispatch(c, f) ==
    f = Conflict /\ check[c].view[DefaultLane] = "live" /\ DefaultLane \in check[c].gone
UnnamedSettles(c, f) ==
    /\ f = Conflict
    /\ DefaultLane \in Settling(c) /\ setup.role[DefaultLane] # "gpu"
    /\ \E l \in Lanes : check[c].rows[l] # "none"
OldObservation(c, f) ==
    f.what = "orphan" /\ check[c].replayed /\ Cardinality(Lanes) > 2
NoFalseAlarm ==
    Healthy => \A c \in Checks : At(c, "evaluate") =>
        \A f \in KeptFindings(c) :
            OvertakenByDispatch(c, f) \/ UnnamedSettles(c, f) \/ OldObservation(c, f)

\* Within a cooldown bucket the operator is paged once about the same findings,
\* by timer and operator together, unless the page was forced or its event
\* could not be stored (_deliver_queue_alert).
PagedOnce ==
    \A c \in Checks :
        /\ At(c, "push")
        /\ ~Hazard("db_fails") /\ ~Hazard("force")
        => /\ check[c].key \notin told
           /\ \A d \in Checks \ {c} : At(d, "push") => check[d].key # check[c].key

\* A problem that stays is paged about again and again, in spite of refused
\* pages, suppression, cooldowns and holds that end: a default lane without a
\* run and without evidence, a slow row, a run without a row, and whatever
\* blocks the readiness of the automation. (The conflict of the default lane says
\* again what its orphan says, and is no problem of its own.)
Problem(f) ==
    \/ f = Stuck /\ Active(DefaultLane) /\ run[DefaultLane] = "none"
    \/ f = Hang /\ \E l \in Lanes : row[l] = "old" /\ run[l] = "none"
    \/ f.what = "orphan" /\ ~Active(f.lane) /\ run[f.lane] = "running"
PagedAbout(f) == \E c \in Checks : At(c, "told") /\ f \in check[c].key.findings
ProblemsPaged ==
    /\ \A f \in Findings \ {Conflict} : <>[]Problem(f) => []<>PagedAbout(f)
    /\ <>[]("not_ready" \in Blockers) => []<>("not_ready" \in noted)

\* Where nothing goes wrong the pump works off the queue, the papers to draft
\* and the follow-ups, without the help of any other dispatcher
\* (_execute_queue_pump).
PumpProgress ==
    setup.hazards = {} =>
        <>[](queued = {} /\ work.drafts = 0 /\ work.followups = 0)
=============================================================================
