--------------------------- MODULE QueueWatchProofs ---------------------------
(***************************************************************************)
(* Proofs about QueueWatch, for any number of lanes, under every hazard.   *)
(*                                                                         *)
(* A healthy system is not paged about, but for the mistakes NoFalseAlarm  *)
(* names, because wherever the rows and the workers that a check has read  *)
(* disagree there was a dispatch, recent enough to excuse it (RowsFit,     *)
(* ViewFits), or a settling lane; that a page is sent once rests on its    *)
(* event being appended before (PageInv).                                  *)
(***************************************************************************)
EXTENDS QueueWatch, FiniteSetTheorems, TLAPS

-----------------------------------------------------------------------------
(* Types *)

LEMMA IdleTyped == Idle \in CheckState
BY DEF Idle, CheckState, Phases, Plans, Views, Ages, Flags, Keys, Nothing

\* What the updates of a check leave it.
LEMMA CheckFacts ==
    ASSUME NEW s \in CheckState, NEW phase \in Phases
    PROVE  /\ [s EXCEPT !.at = phase] \in CheckState
           /\ \A l \in Lanes : [s EXCEPT !.gone = @ \cup {l}] \in CheckState
           /\ \A rows \in [Lanes -> Ages], f \in Flags :
                 [s EXCEPT !.at = phase, !.rows = rows, !.flag = f] \in CheckState
           /\ \A view \in [Lanes -> Views] :
                 [s EXCEPT !.at = phase, !.view = view] \in CheckState
           /\ \A rows \in [Lanes -> Ages], f \in Flags, gone \in SUBSET Lanes :
                 [s EXCEPT !.at = phase, !.rows = rows, !.flag = f, !.gone = gone,
                           !.replayed = TRUE] \in CheckState
           /\ \A plan \in Plans : [Idle EXCEPT !.plan = plan, !.at = phase] \in CheckState
           /\ \A b \in BOOLEAN :
                 [Idle EXCEPT !.at = phase, !.plan = s.plan, !.alerting = b] \in CheckState
           /\ \A key \in Keys :
                 [Idle EXCEPT !.at = phase, !.plan = s.plan, !.flag = s.flag,
                              !.replayed = s.replayed, !.key = key] \in CheckState
BY IdleTyped DEF CheckState

LEMMA PlanTyped == PumpPlan \in Plans
BY DEF PumpPlan, Plans

LEMMA FinishedTyped ==
    ASSUME TypeOK, NEW c \in Checks, NEW b \in BOOLEAN
    PROVE  Finished(c, b) \in CheckState
<1>1. check[c] \in CheckState
    BY DEF TypeOK
<1> QED BY <1>1, IdleTyped, CheckFacts DEF Finished, Phases

LEMMA MoveTyped ==
    ASSUME TypeOK, NEW c \in Checks, NEW phase \in Phases, MoveTo(c, phase)
    PROVE  check' \in [Checks -> CheckState]
<1>1. check[c] \in CheckState
    BY DEF TypeOK
<1> QED BY <1>1, CheckFacts DEF MoveTo, TypeOK

LEMMA OutdatedTyped ==
    ASSUME TypeOK, NEW l \in Lanes
    PROVE  Outdated(l, check) \in [Checks -> CheckState]
BY CheckFacts DEF Outdated, TypeOK, Phases

LEMMA InitTyped == Init => TypeOK
<1> SUFFICES ASSUME Init PROVE TypeOK
    OBVIOUS
<1>1. setup \in Setup
    BY SetupAssumption DEF Init
<1>2. work \in [jobs : Nat, drafts : Nat, followups : Nat, holds : Nat, asks : Nat]
    BY <1>1 DEF Init, Setup
<1> QED BY <1>2, IdleTyped DEF Init, TypeOK, Nothing, Ages, Flags

WorkTypes == [jobs : Nat, drafts : Nat, followups : Nat, holds : Nat, asks : Nat]

LEMMA WorkFacts ==
    ASSUME NEW w \in WorkTypes
    PROVE  /\ w.jobs > 0 => [w EXCEPT !.jobs = @ - 1] \in WorkTypes
           /\ w.drafts > 0 => [w EXCEPT !.drafts = @ - 1] \in WorkTypes
           /\ w.followups > 0 => [w EXCEPT !.followups = @ - 1] \in WorkTypes
           /\ w.holds > 0 => [w EXCEPT !.holds = @ - 1] \in WorkTypes
           /\ w.asks > 0 => [w EXCEPT !.asks = @ - 1] \in WorkTypes
BY DEF WorkTypes

LEMMA LookTyped ==
    ASSUME TypeOK, NEW c \in Checks,
           \/ ReadRows(c) \/ Observe(c) \/ AutoReconcile(c) \/ Evaluate(c)
    PROVE  TypeOK'
<1> USE DEF lanes, supply, pages
<1>1. check[c] \in CheckState
    BY DEF TypeOK
<1>2. CASE ReadRows(c)
    <2>1. [check[c] EXCEPT !.at = "read", !.rows = row, !.flag = flag] \in CheckState
        BY <1>1, CheckFacts DEF TypeOK, Phases
    <2>2. check' = [check EXCEPT ![c] =
                       [check[c] EXCEPT !.at = "read", !.rows = row, !.flag = flag]]
        BY <1>2 DEF ReadRows, TypeOK, CheckState
    <2>3. work' \in WorkTypes
        BY <1>2, WorkFacts DEF ReadRows, TypeOK, WorkTypes
    <2> QED BY <1>2, <2>1, <2>2, <2>3 DEF ReadRows, TypeOK, WorkTypes
<1>3. CASE Observe(c)
    <2>1. [l \in Lanes |-> View(l)] \in [Lanes -> Views]
        BY DEF View, Views
    <2>2. [check[c] EXCEPT !.at = "observed", !.view = [l \in Lanes |-> View(l)]]
              \in CheckState
        BY <1>1, <2>1, CheckFacts DEF Phases
    <2>3. check' = [check EXCEPT ![c] =
              [check[c] EXCEPT !.at = "observed", !.view = [l \in Lanes |-> View(l)]]]
        BY <1>3 DEF Observe, TypeOK, CheckState
    <2>4. check' \in [Checks -> CheckState]
        BY <2>2, <2>3 DEF TypeOK
    <2> QED BY <1>3, <2>4 DEF Observe, TypeOK
<1>4. CASE AutoReconcile(c)
    <2>1. row' \in [Lanes -> Ages]
        BY <1>4 DEF AutoReconcile, TypeOK, Ages
    <2>2. Finished(c, FALSE) \in CheckState
        BY FinishedTyped
    <2>3. /\ [check[c] EXCEPT !.at = "evaluate"] \in CheckState
          /\ [check[c] EXCEPT !.at = "evaluate", !.rows = row', !.flag = flag, !.gone = {},
                              !.replayed = TRUE] \in CheckState
        BY <1>1, <2>1, CheckFacts DEF TypeOK, Phases
    <2>4. check' \in [Checks -> CheckState]
        BY <1>4, <2>2, <2>3 DEF AutoReconcile, TypeOK
    <2> QED BY <1>4, <2>1, <2>4 DEF AutoReconcile, TypeOK
<1>5. CASE Evaluate(c)
    <2>1. [findings |-> KeptFindings(c), bucket |-> bucket] \in Keys
        BY DEF KeptFindings, RawFindings, Keys, TypeOK
    <2>2. Finished(c, FALSE) \in CheckState
        BY FinishedTyped
    <2>3. [Idle EXCEPT !.at = "judged", !.plan = check[c].plan, !.flag = check[c].flag,
                       !.replayed = check[c].replayed,
                       !.key = [findings |-> KeptFindings(c), bucket |-> bucket]]
              \in CheckState
        BY <1>1, <2>1, CheckFacts DEF Phases
    <2>4. check' \in [Checks -> CheckState]
        BY <1>5, <2>2, <2>3 DEF Evaluate, TypeOK
    <2> QED BY <1>5, <2>4 DEF Evaluate, TypeOK
<1> QED BY <1>2, <1>3, <1>4, <1>5

LEMMA PageTyped ==
    ASSUME TypeOK, NEW c \in Checks,
           AppendAlert(c) \/ PushOk(c) \/ PushFails(c) \/ Answer(c)
    PROVE  TypeOK'
<1> USE DEF lanes, supply, pages
<1>1. check[c] \in CheckState
    BY DEF TypeOK
<1>2. check[c].key \in Keys
    BY <1>1 DEF CheckState
<1>3. Finished(c, TRUE) \in CheckState
    BY FinishedTyped
<1>4. CASE AppendAlert(c)
    <2>1. [check[c] EXCEPT !.at = "push"] \in CheckState
        BY <1>1, CheckFacts DEF Phases
    <2>2. check' \in [Checks -> CheckState]
        BY <1>4, <1>3, <2>1 DEF AppendAlert, MoveTo, TypeOK
    <2> QED BY <1>2, <1>4, <2>2 DEF AppendAlert, TypeOK
<1>5. CASE PushOk(c)
    <2>1. check' \in [Checks -> CheckState]
        BY <1>5, MoveTyped DEF PushOk, Phases
    <2> QED BY <1>2, <1>5, <2>1 DEF PushOk, TypeOK
<1>6. CASE PushFails(c) \/ Answer(c)
    <2>1. check' \in [Checks -> CheckState]
        BY <1>3, <1>6 DEF PushFails, Answer, TypeOK
    <2> QED BY <1>6, <2>1 DEF PushFails, Answer, TypeOK
<1> QED BY <1>4, <1>5, <1>6

LEMMA TickTyped ==
    ASSUME TypeOK, StartTick \/ Readiness
    PROVE  TypeOK'
<1> USE DEF lanes, supply, pages, Checks
<1>1. CASE StartTick
    <2>1. check' \in [Checks -> CheckState]
        BY <1>1, PlanTyped, CheckFacts, IdleTyped DEF StartTick, TypeOK, Phases
    <2> QED BY <1>1, <2>1 DEF StartTick, TypeOK
<1>2. CASE Readiness
    <2>1. check' \in [Checks -> CheckState]
        BY <1>2, MoveTyped
        DEF Readiness, ReadinessOk, ReadinessPaged, ReadinessPushFails, Phases
    <2>2. noted' \in SUBSET {"held", "not_ready"}
        BY <1>2
        DEF Readiness, ReadinessOk, ReadinessPaged, ReadinessPushFails, TypeOK, Blockers
    <2> QED
        BY <1>2, <2>1, <2>2
        DEF Readiness, ReadinessOk, ReadinessPaged, ReadinessPushFails, TypeOK
<1> QED BY <1>1, <1>2

LEMMA DispatchedTyped ==
    ASSUME TypeOK, NEW l \in Lanes, Dispatched(l)
    PROVE  /\ row' \in [Lanes -> Ages]
           /\ run' \in [Lanes -> {"none", "posted", "running", "settling"}]
           /\ owed' \in SUBSET Lanes /\ recent' \in SUBSET Lanes
BY DEF Dispatched, TypeOK, Ages

LEMMA DispatchNextTyped ==
    ASSUME TypeOK, DispatchNext
    PROVE  /\ row' \in [Lanes -> Ages]
           /\ run' \in [Lanes -> {"none", "posted", "running", "settling"}]
           /\ owed' \in SUBSET Lanes /\ recent' \in SUBSET Lanes
           /\ queued' \in SUBSET Lanes
           /\ check' \in [Checks -> CheckState]
<1>1. CASE \E l \in Lanes : Dispatchable(l)
    <2>1. PICK l \in Lanes :
              /\ Dispatched(l) /\ queued' = queued \ {l}
              /\ check' = [Outdated(l, check) EXCEPT ![Timer] = Idle]
        BY <1>1 DEF DispatchNext
    <2>2. check' \in [Checks -> CheckState]
        BY <2>1, OutdatedTyped, IdleTyped
    <2> QED BY <2>1, <2>2, DispatchedTyped DEF TypeOK
<1>2. CASE ~\E l \in Lanes : Dispatchable(l)
    BY <1>2, IdleTyped DEF DispatchNext, EndTick, TypeOK, lanes
<1> QED BY <1>1, <1>2

LEMMA PumpTyped ==
    ASSUME TypeOK, Pump
    PROVE  TypeOK'
<1> USE DEF lanes, supply, pages, Checks
<1>1. CASE PumpRests \/ PumpDrafts \/ PumpWaits
    <2>1. check' \in [Checks -> CheckState]
        BY <1>1, IdleTyped DEF PumpRests, PumpDrafts, PumpWaits, EndTick, TypeOK
    <2>2. work' \in WorkTypes
        BY <1>1, WorkFacts DEF PumpRests, PumpDrafts, PumpWaits, TypeOK, WorkTypes
    <2> QED
        BY <1>1, <2>1, <2>2 DEF PumpRests, PumpDrafts, PumpWaits, Pumps, TypeOK, WorkTypes
<1>2. CASE PumpDispatches \/ LaunchedDispatches
    BY <1>2, DispatchNextTyped DEF PumpDispatches, LaunchedDispatches, Pumps, TypeOK
<1>3. CASE PumpLaunches
    <2>1. check' \in [Checks -> CheckState]
        BY <1>3, MoveTyped DEF PumpLaunches, Phases
    <2>2. work' \in WorkTypes
        BY <1>3, WorkFacts DEF PumpLaunches, TypeOK, WorkTypes
    <2> QED BY <1>3, <2>1, <2>2 DEF PumpLaunches, Pumps, TypeOK, WorkTypes
<1> QED BY <1>1, <1>2, <1>3 DEF Pump

LEMMA LaneTyped ==
    ASSUME TypeOK, NEW l \in Lanes,
           \/ Enqueue(l) \/ OtherDispatch(l) \/ Worker(l)
           \/ Expire(l) \/ Grow(l) \/ Vanish(l) \/ Detach(l)
    PROVE  TypeOK'
<1> USE DEF lanes, supply, pages
<1>1. CASE Enqueue(l)
    <2>1. work' \in WorkTypes
        BY <1>1, WorkFacts DEF Enqueue, TypeOK, WorkTypes
    <2> QED BY <1>1, <2>1 DEF Enqueue, TypeOK, WorkTypes
<1>2. CASE OtherDispatch(l)
    BY <1>2, DispatchedTyped, OutdatedTyped DEF OtherDispatch, TypeOK
<1>3. CASE Worker(l) \/ Expire(l) \/ Vanish(l)
    BY <1>3
    DEF Worker, WorkerStarts, WorkerEnds, ReportRun, Quiet, Expire, Vanish, TypeOK, Ages
<1>4. CASE Grow(l) \/ Detach(l)
    BY <1>4 DEF Grow, Detach, TypeOK, Ages
<1> QED BY <1>1, <1>2, <1>3, <1>4

LEMMA ClockTyped ==
    ASSUME TypeOK, Hold \/ Resume \/ NewBucket \/ CoolDown
    PROVE  TypeOK'
<1> USE DEF lanes, supply, pages
<1>1. CASE Hold
    <2>1. work' \in WorkTypes
        BY <1>1, WorkFacts DEF Hold, TypeOK, WorkTypes
    <2> QED BY <1>1, <2>1 DEF Hold, TypeOK, WorkTypes, Flags
<1>2. CASE Resume \/ CoolDown
    BY <1>2 DEF Resume, CoolDown, TypeOK, Flags
<1>3. CASE NewBucket
    BY <1>3 DEF NewBucket, TypeOK
<1> QED BY <1>1, <1>2, <1>3

LEMMA NextTyped ==
    ASSUME TypeOK, [Next]_vars
    PROVE  TypeOK'
<1>1. CASE UNCHANGED vars
    BY <1>1 DEF TypeOK, vars, lanes, supply, pages
<1>2. CASE StartTick \/ Readiness
    BY <1>2, TickTyped
<1>3. CASE Pump
    BY <1>3, PumpTyped
<1>4. CASE \E c \in Checks : Check(c)
    BY <1>4, LookTyped, PageTyped DEF Check
<1>5. CASE Environment
    BY <1>5, LaneTyped, ClockTyped DEF Environment
<1> QED BY <1>1, <1>2, <1>3, <1>4, <1>5 DEF Next

\* Every reachable state of the alert check is well typed.
THEOREM TypeCorrect == Spec => []TypeOK
BY InitTyped, NextTyped, PTL DEF Spec

-----------------------------------------------------------------------------
(* Invariants *)

Pushing(c) == At(c, "push")

\* A page that is about to be sent has its event, and nobody has sent it.
PageInv ==
    ~Hazard("db_fails") /\ ~Hazard("force") =>
        /\ told \subseteq events
        /\ \A c \in Checks :
              Pushing(c) => check[c].key \in events /\ check[c].key \notin told
        /\ \A c, d \in Checks :
              c # d /\ Pushing(c) /\ Pushing(d) => check[d].key # check[c].key

\* A run that was posted and has not reported holds its row, and a row has such
\* a run; a worker answers within the race grace of its dispatch.
RunsHoldRows ==
    \A l \in Lanes :
        /\ run[l] \in {"posted", "running"} => row[l] # "none"
        /\ run[l] = "posted" => l \in recent
        /\ l \in owed => run[l] = "settling"
        /\ row[l] # "none" =>
              run[l] \in {"posted", "running"} \/ l \in owed
        /\ row[l] # "old"

\* Nothing of an earlier check is left in the next one.
StartsAfresh(c) ==
    /\ check[c].at \in {"idle", "started"} => check[c].gone = {}
    /\ check[c].at \in {"idle", "started", "read", "observed"} => ~check[c].replayed

\* Until they are read again the rows of a check differ from those of now only
\* by what has ended, and by what was dispatched since and is recent.
RowsFit(c) ==
    check[c].at \in {"read", "observed"} =>
        \A l \in Lanes :
            /\ check[c].rows[l] # "none" => run[l] # "none" /\ l \notin check[c].gone
            /\ l \in check[c].gone => l \in recent
            /\ check[c].rows[l] = "none" /\ (row[l] # "none" \/ run[l] \in {"posted", "running"})
                  => l \in check[c].gone

\* Where rows and workers disagree there was a dispatch, or rows were read again.
ViewFits(c) ==
    check[c].at \in {"observed", "evaluate"} =>
        \A l \in Lanes :
            /\ check[c].rows[l] # "none" /\ check[c].view[l] = "none" => l \in recent
            /\ check[c].rows[l] = "none" /\ check[c].view[l] = "live" =>
                  /\ l \in recent \/ (check[c].replayed /\ Cardinality(Lanes) > 2)
                  /\ l = DefaultLane => l \in check[c].gone

NoOldRows(c) == Looking(c) => \A l \in Lanes : check[c].rows[l] # "old"

Sound(c) == StartsAfresh(c) /\ RowsFit(c) /\ ViewFits(c) /\ NoOldRows(c)

WatchInv == Healthy => RunsHoldRows /\ \A c \in Checks : Sound(c)

-----------------------------------------------------------------------------
(* What is paged once *)

NothingNewToPush ==
    \A c \in Checks :
        check'[c].at = "push" => check[c].at = "push" /\ check'[c].key = check[c].key

LEMMA PageFrame ==
    ASSUME PageInv, NothingNewToPush, UNCHANGED <<events, told, setup>>
    PROVE  PageInv'
BY DEF PageInv, Pushing, At, NothingNewToPush, Hazard

\* What a check turns into when its alert part is over or nothing is found.
LEMMA NotPushing ==
    /\ Idle.at = "idle"
    /\ \A c \in Checks, b \in BOOLEAN : Finished(c, b).at # "push"
BY DEF Idle, Finished

LEMMA OutdatedFacts ==
    ASSUME TypeOK, NEW l \in Lanes, NEW c \in Checks
    PROVE  LET then == Outdated(l, check)[c]
           IN  /\ then.at = check[c].at
               /\ then.key = check[c].key
               /\ then.rows = check[c].rows
               /\ then.view = check[c].view
               /\ then.replayed = check[c].replayed
               /\ then.gone = IF Looking(c) THEN check[c].gone \cup {l} ELSE check[c].gone
<1>1. check[c] \in CheckState
    BY DEF TypeOK
<1> QED BY <1>1 DEF Outdated, CheckState

LEMMA DispatchNextChecks ==
    ASSUME TypeOK, DispatchNext
    PROVE  /\ check'[Timer] = Idle
           /\ \/ \E l \in Lanes :
                    /\ Dispatchable(l) /\ Dispatched(l)
                    /\ \A c \in Checks \ {Timer} : check'[c] = Outdated(l, check)[c]
              \/ /\ UNCHANGED lanes
                 /\ \A c \in Checks \ {Timer} : check'[c] = check[c]
<1>1. CASE \E l \in Lanes : Dispatchable(l)
    <2>1. PICK l \in Lanes :
              /\ Dispatchable(l) /\ Dispatched(l)
              /\ check' = [Outdated(l, check) EXCEPT ![Timer] = Idle]
        BY <1>1 DEF DispatchNext
    <2>2. Outdated(l, check) \in [Checks -> CheckState]
        BY OutdatedTyped
    <2> QED BY <2>1, <2>2 DEF Checks
<1>2. CASE ~\E l \in Lanes : Dispatchable(l)
    BY <1>2 DEF DispatchNext, EndTick, TypeOK, Checks
<1> QED BY <1>1, <1>2

LEMMA TimerPushesNothing ==
    ASSUME TypeOK, StartTick \/ Readiness \/ Pump
    PROVE  NothingNewToPush
<1> USE DEF NothingNewToPush, Checks, TypeOK, CheckState
<1>1. CASE StartTick
    BY <1>1, IdleTyped DEF StartTick
<1>2. CASE Readiness
    BY <1>2 DEF Readiness, ReadinessOk, ReadinessPaged, ReadinessPushFails, MoveTo
<1>3. CASE PumpRests \/ PumpDrafts \/ PumpWaits
    BY <1>3, NotPushing DEF PumpRests, PumpDrafts, PumpWaits, EndTick
<1>4. CASE PumpLaunches
    BY <1>4 DEF PumpLaunches, MoveTo
<1>5. CASE DispatchNext
    <2>1. check'[Timer].at # "push"
        BY <1>5, DispatchNextChecks, NotPushing
    <2>2. ASSUME NEW c \in Checks \ {Timer}
          PROVE  check'[c].at = check[c].at /\ check'[c].key = check[c].key
        <3>1. \A l \in Lanes : /\ Outdated(l, check)[c].at = check[c].at
                               /\ Outdated(l, check)[c].key = check[c].key
            BY OutdatedFacts
        <3>2. \/ \E l \in Lanes : check'[c] = Outdated(l, check)[c]
              \/ check'[c] = check[c]
            BY <1>5, DispatchNextChecks
        <3> QED BY <3>1, <3>2
    <2> QED BY <2>1, <2>2
<1> QED BY <1>1, <1>2, <1>3, <1>4, <1>5 DEF Pump, PumpDispatches, LaunchedDispatches

LEMMA LookPushesNothing ==
    ASSUME TypeOK, NEW c \in Checks,
           \/ ReadRows(c) \/ Observe(c) \/ AutoReconcile(c) \/ Evaluate(c)
           \/ PushFails(c) \/ Answer(c)
    PROVE  NothingNewToPush
<1>1. check[c] \in CheckState /\ Idle \in CheckState
    BY IdleTyped DEF TypeOK
<1>2. \A d \in Checks \ {c} : check'[d] = check[d]
    BY DEF ReadRows, Observe, AutoReconcile, Evaluate, PushFails, Answer, TypeOK
<1>3. check'[c].at # "push"
    <2>1. CASE ReadRows(c) \/ Observe(c)
        BY <1>1, <2>1 DEF ReadRows, Observe, TypeOK, CheckState
    <2>2. CASE AutoReconcile(c)
        BY <1>1, <2>2, NotPushing DEF AutoReconcile, TypeOK, CheckState
    <2>3. CASE Evaluate(c)
        BY <1>1, <2>3, NotPushing DEF Evaluate, TypeOK, CheckState
    <2>4. CASE PushFails(c) \/ Answer(c)
        BY <1>1, <2>4, NotPushing DEF PushFails, Answer, TypeOK, CheckState
    <2> QED BY <2>1, <2>2, <2>3, <2>4
<1> QED BY <1>2, <1>3 DEF NothingNewToPush

LEMMA PagedInit == Init => PageInv
BY DEF Init, PageInv, Pushing, At, Idle

LEMMA AppendKeepsPages ==
    ASSUME TypeOK, PageInv, NEW c \in Checks, AppendAlert(c)
    PROVE  PageInv'
<1> SUFFICES ASSUME ~Hazard("db_fails"), ~Hazard("force")
             PROVE  PageInv'
    BY DEF PageInv, AppendAlert, Hazard
<1> USE DEF AppendAlert, MoveTo, At
<1>1. check[c] \in CheckState /\ told' = told /\ setup' = setup
    BY DEF TypeOK
<1>2. \A d \in Checks \ {c} : check'[d] = check[d]
    BY DEF TypeOK
<1>3. CASE check'[c].at = "push" /\ check'[c].key = check[c].key
           /\ check[c].key \notin events /\ events' = events \cup {check[c].key}
    BY <1>1, <1>2, <1>3 DEF PageInv, Pushing, Hazard
<1>4. CASE check'[c].at # "push" /\ events' = events
    <2>1. NothingNewToPush
        BY <1>2, <1>4 DEF NothingNewToPush
    <2> QED BY <1>1, <1>4, <2>1, PageFrame
<1>5. CASE /\ check[c].flag = "maintenance" \/ check[c].key \in events
           /\ check' = [check EXCEPT ![c] = Finished(c, TRUE)]
           /\ events' = events
    BY <1>4, <1>5, NotPushing DEF TypeOK
<1>6. CASE /\ check[c].key \notin events
           /\ events' = events \cup {check[c].key}
           /\ check' = [check EXCEPT ![c].at = "push"]
    BY <1>1, <1>3, <1>6 DEF TypeOK, CheckState
<1> QED BY <1>5, <1>6 DEF Forced, Hazard

LEMMA PushKeepsPages ==
    ASSUME TypeOK, PageInv, NEW c \in Checks, PushOk(c)
    PROVE  PageInv'
<1>1. check[c] \in CheckState
    BY DEF TypeOK
<1>2. /\ \A d \in Checks \ {c} : check'[d] = check[d]
      /\ check'[c].at = "told"
    BY <1>1 DEF PushOk, MoveTo, TypeOK, CheckState
<1> QED BY <1>2 DEF PushOk, PageInv, Pushing, At, Hazard

LEMMA BucketKeepsPages ==
    ASSUME TypeOK, PageInv, NewBucket
    PROVE  PageInv'
<1>1. \A c \in Checks : Pushing(c) => check[c].key \in InHand
    BY DEF Pushing, At, InHand
<1> QED BY <1>1 DEF NewBucket, PageInv, Pushing, At, Hazard

LEMMA NextPages ==
    ASSUME TypeOK, PageInv, [Next]_vars
    PROVE  PageInv'
<1> USE DEF lanes, supply, pages
<1>1. CASE UNCHANGED vars
    BY <1>1 DEF PageInv, Pushing, At, Hazard, vars
<1>2. CASE StartTick \/ Readiness \/ Pump
    <2>1. UNCHANGED <<events, told, setup>>
        BY <1>2
        DEF StartTick, Readiness, ReadinessOk, ReadinessPaged, ReadinessPushFails, Pump,
            PumpRests, PumpDrafts, PumpDispatches, PumpWaits, PumpLaunches,
            LaunchedDispatches
    <2> QED BY <1>2, <2>1, TimerPushesNothing, PageFrame
<1>3. ASSUME NEW c \in Checks,
             \/ ReadRows(c) \/ Observe(c) \/ AutoReconcile(c) \/ Evaluate(c)
             \/ PushFails(c) \/ Answer(c)
      PROVE  PageInv'
    <2>1. UNCHANGED <<events, told, setup>>
        BY <1>3 DEF ReadRows, Observe, AutoReconcile, Evaluate, PushFails, Answer
    <2> QED BY <1>3, <2>1, LookPushesNothing, PageFrame
<1>4. ASSUME NEW c \in Checks, AppendAlert(c) \/ PushOk(c)
      PROVE  PageInv'
    BY <1>4, AppendKeepsPages, PushKeepsPages
<1>5. ASSUME NEW l \in Lanes,
             \/ Enqueue(l) \/ OtherDispatch(l) \/ Worker(l)
             \/ Expire(l) \/ Grow(l) \/ Vanish(l) \/ Detach(l)
      PROVE  PageInv'
    <2>1. UNCHANGED <<events, told, setup>>
        BY <1>5
        DEF Enqueue, OtherDispatch, Worker, WorkerStarts, WorkerEnds, ReportRun, Quiet,
            Expire, Grow, Vanish, Detach
    <2>2. CASE OtherDispatch(l)
        <3>1. NothingNewToPush
            BY <2>2, OutdatedFacts DEF OtherDispatch, NothingNewToPush
        <3> QED BY <2>1, <3>1, PageFrame
    <2>3. CASE ~OtherDispatch(l)
        <3>1. check' = check
            BY <1>5, <2>3
            DEF Enqueue, Worker, WorkerStarts, WorkerEnds, ReportRun, Quiet,
                Expire, Grow, Vanish, Detach
        <3> QED BY <2>1, <3>1, PageFrame DEF NothingNewToPush
    <2> QED BY <2>2, <2>3
<1>6. CASE Hold \/ Resume \/ CoolDown
    BY <1>6, PageFrame DEF Hold, Resume, CoolDown, NothingNewToPush
<1>7. CASE NewBucket
    BY <1>7, BucketKeepsPages
<1> QED BY <1>1, <1>2, <1>3, <1>4, <1>5, <1>6, <1>7 DEF Next, Check, Environment

\* Timer and operator together send a page once for each key of a bucket.
THEOREM OnePagePerBucket == Spec => []PagedOnce
<1>1. PageInv => PagedOnce
    BY DEF PageInv, PagedOnce, Pushing
<1> QED BY <1>1, InitTyped, NextTyped, PagedInit, NextPages, PTL DEF Spec

-----------------------------------------------------------------------------
(* What is not paged about *)

Reading == {"read", "observed", "evaluate"}

LEMMA HealthyFacts ==
    ASSUME Healthy
    PROVE  /\ ~Hazard("vanish") /\ ~Hazard("detach") /\ ~Hazard("late_report")
           /\ ~Hazard("overlong") /\ ~Hazard("hasty") /\ ~Hazard("no_evidence")
BY DEF Healthy, Hazard

\* A dispatch gives a lane its row and its run at once.
LEMMA DispatchedHolds ==
    ASSUME TypeOK, RunsHoldRows, NEW l \in Lanes, Dispatched(l)
    PROVE  RunsHoldRows'
BY DEF TypeOK, RunsHoldRows, Dispatched

LEMMA WorkerHolds ==
    ASSUME TypeOK, Healthy, RunsHoldRows, NEW l \in Lanes,
           Worker(l) \/ Expire(l) \/ Grow(l) \/ Vanish(l) \/ Detach(l)
    PROVE  RunsHoldRows'
<1> USE HealthyFacts DEF TypeOK, RunsHoldRows
<1>1. CASE WorkerStarts(l)
    BY <1>1 DEF WorkerStarts
<1>2. CASE WorkerEnds(l)
    BY <1>2 DEF WorkerEnds
<1>3. CASE ReportRun(l)
    BY <1>3 DEF ReportRun
<1>4. CASE Quiet(l)
    BY <1>4 DEF Quiet
<1>5. CASE Expire(l)
    BY <1>5 DEF Expire
<1>6. CASE Grow(l)
    BY <1>6 DEF Grow
<1> QED BY <1>1, <1>2, <1>3, <1>4, <1>5, <1>6 DEF Worker, Vanish, Detach

\* The evidence of a healthy run is not there before the run is over.
LEMMA ReconcileHolds ==
    ASSUME TypeOK, Healthy, RunsHoldRows, NEW c \in Checks, AutoReconcile(c)
    PROVE  /\ RunsHoldRows'
           /\ \A l \in Lanes : row'[l] = IF l \in Proven(c) \ check[c].gone
                                         THEN "none" ELSE row[l]
<1>1. \A l \in Proven(c) \ check[c].gone : run[l] \in {"none", "settling"}
    BY HealthyFacts DEF Proven
<1>2. \A l \in Lanes :
          row'[l] = IF l \in Proven(c) \ check[c].gone THEN "none" ELSE row[l]
    BY DEF AutoReconcile
<1> QED BY <1>1, <1>2 DEF AutoReconcile, RunsHoldRows, TypeOK

LEMMA SoundKept ==
    ASSUME NEW c, Sound(c), check'[c] = check[c],
           \/ check[c].at \notin Reading
           \/ /\ recent' = recent
              /\ \A l \in Lanes :
                    /\ run[l] # "none" => run'[l] # "none"
                    /\ row'[l] # "none" => row[l] # "none"
                    /\ run'[l] \in {"posted", "running"} => run[l] \in {"posted", "running"}
    PROVE  Sound(c)'
BY DEF Sound, StartsAfresh, RowsFit, ViewFits, NoOldRows, Looking, Reading

LEMMA SoundAtRest ==
    ASSUME NEW c, check'[c].at \notin Reading,
           check'[c].gone = {} \/ check'[c].at \notin {"idle", "started"},
           ~check'[c].replayed \/ check'[c].at \notin {"idle", "started"}
    PROVE  Sound(c)'
BY DEF Sound, StartsAfresh, RowsFit, ViewFits, NoOldRows, Looking, Reading

LEMMA RestFacts ==
    ASSUME TypeOK, NEW c \in Checks
    PROVE  /\ Idle.at = "idle" /\ Idle.gone = {} /\ ~Idle.replayed
           /\ \A b \in BOOLEAN :
                 /\ Finished(c, b).at \in {"idle", "readiness"}
                 /\ Finished(c, b).gone = {} /\ ~Finished(c, b).replayed
BY DEF Idle, Finished

LEMMA MovedSound ==
    ASSUME TypeOK, NEW c \in Checks, NEW phase \in {"push", "told", "pump", "launched"},
           Sound(c), MoveTo(c, phase)
    PROVE  \A d \in Checks : check'[d] = check[d] \/ Sound(d)'
<1>1. check[c] \in CheckState
    BY DEF TypeOK
<1>2. /\ check'[c].at = phase
      /\ \A d \in Checks \ {c} : check'[d] = check[d]
    BY <1>1 DEF MoveTo, TypeOK, CheckState
<1>3. Sound(c)'
    BY <1>2, SoundAtRest DEF Reading
<1> QED BY <1>2, <1>3

\* A dispatch is on the list of the checks that have read other rows.
LEMMA DispatchSound ==
    ASSUME TypeOK, RunsHoldRows, NEW l \in Lanes, Dispatchable(l), Dispatched(l),
           NEW c \in Checks, Sound(c), check'[c] = Outdated(l, check)[c]
    PROVE  Sound(c)'
<1>1. /\ check'[c].at = check[c].at
      /\ check'[c].rows = check[c].rows
      /\ check'[c].view = check[c].view
      /\ check'[c].replayed = check[c].replayed
      /\ check'[c].gone = IF Looking(c) THEN check[c].gone \cup {l} ELSE check[c].gone
    BY OutdatedFacts
<1>2. row[l] = "none" /\ run[l] = "none"
    BY DEF Dispatchable, Open, Active
<1>3. /\ \A m \in Lanes \ {l} : row'[m] = row[m] /\ run'[m] = run[m]
      /\ row'[l] = "young" /\ run'[l] = "posted"
      /\ recent' = recent \cup {l}
    BY DEF Dispatched, TypeOK
<1>4. StartsAfresh(c)'
    BY <1>1 DEF Sound, StartsAfresh, Looking
<1>5. RowsFit(c)'
    BY <1>1, <1>2, <1>3 DEF Sound, RowsFit, Looking
<1>6. ViewFits(c)'
    BY <1>1, <1>3 DEF Sound, ViewFits
<1>7. NoOldRows(c)'
    BY <1>1 DEF Sound, NoOldRows, Looking
<1> QED BY <1>4, <1>5, <1>6, <1>7 DEF Sound

LEMMA ReadSound ==
    ASSUME TypeOK, RunsHoldRows, NEW c \in Checks, Sound(c), ReadRows(c)
    PROVE  Sound(c)'
<1>1. check[c] \in CheckState
    BY DEF TypeOK
<1>2. check[c].at \in {"idle", "started"}
    BY DEF ReadRows, At
<1>3. /\ check'[c].at = "read" /\ check'[c].rows = row
      /\ check'[c].gone = check[c].gone /\ check'[c].replayed = check[c].replayed
      /\ UNCHANGED lanes
    BY <1>1 DEF ReadRows, TypeOK, CheckState
<1>4. check[c].gone = {} /\ ~check[c].replayed
    BY <1>2 DEF Sound, StartsAfresh
<1> QED
    BY <1>3, <1>4
    DEF Sound, StartsAfresh, RowsFit, ViewFits, NoOldRows, Looking, RunsHoldRows, lanes

LEMMA ObserveSound ==
    ASSUME TypeOK, RunsHoldRows, NEW c \in Checks, Sound(c), Observe(c)
    PROVE  Sound(c)'
<1>1. check[c] \in CheckState /\ check[c].at = "read"
    BY DEF TypeOK, Observe, At
<1>2. /\ check'[c].at = "observed" /\ check'[c].rows = check[c].rows
      /\ \A l \in Lanes : check'[c].view[l] = View(l)
      /\ check'[c].gone = check[c].gone /\ check'[c].replayed = check[c].replayed
      /\ UNCHANGED lanes
    BY <1>1 DEF Observe, TypeOK, CheckState
<1>3. RowsFit(c) /\ ~check[c].replayed
    BY <1>1 DEF Sound, StartsAfresh
<1>4. ViewFits(c)'
    <2> SUFFICES ASSUME NEW l \in Lanes
                 PROVE  /\ check[c].rows[l] # "none" /\ View(l) = "none" => l \in recent
                        /\ check[c].rows[l] = "none" /\ View(l) = "live" =>
                              l \in recent /\ l \in check[c].gone
        BY <1>2 DEF ViewFits, lanes
    <2>1. View(l) = "none" => run[l] \in {"none", "posted"}
        BY DEF View, TypeOK
    <2>2. View(l) = "live" => run[l] = "running"
        BY DEF View
    <2> QED BY <1>1, <1>3, <2>1, <2>2 DEF RowsFit, RunsHoldRows
<1>5. StartsAfresh(c)' /\ RowsFit(c)'
    BY <1>1, <1>2, <1>3 DEF StartsAfresh, RowsFit, lanes
<1>6. NoOldRows(c)'
    BY <1>1, <1>2 DEF Sound, NoOldRows, Looking
<1> QED BY <1>4, <1>5, <1>6 DEF Sound

LEMMA ThreeLanes ==
    ASSUME NEW a \in Lanes, NEW b \in Lanes, NEW d \in Lanes, a # b, b # d, a # d
    PROVE  Cardinality(Lanes) > 2
<1>1. IsFiniteSet(Lanes)
    BY LaneAssumption
<1>2. IsFiniteSet({}) /\ Cardinality({}) = 0
    BY FS_EmptySet
<1>3. IsFiniteSet({a}) /\ Cardinality({a}) = 1
    BY FS_Singleton
<1>4. IsFiniteSet({a} \cup {b}) /\ Cardinality({a} \cup {b}) = 2
    BY <1>3, FS_AddElement
<1>5. /\ IsFiniteSet(({a} \cup {b}) \cup {d})
      /\ Cardinality(({a} \cup {b}) \cup {d}) = 3
    BY <1>4, FS_AddElement
<1>6. ({a} \cup {b}) \cup {d} \subseteq Lanes
    OBVIOUS
<1>7. Cardinality(({a} \cup {b}) \cup {d}) \leq Cardinality(Lanes)
    BY <1>1, <1>6, FS_Subset
<1>8. Cardinality(Lanes) \in Nat
    BY <1>1, FS_CardinalityType
<1> QED BY <1>5, <1>7, <1>8

\* A reconciled row, one that is left and one whose run is taken for an orphan.
LEMMA ReconcileSound ==
    ASSUME TypeOK, Healthy, RunsHoldRows, NEW c \in Checks, Sound(c), AutoReconcile(c)
    PROVE  Sound(c)'
<1>1. check[c] \in CheckState /\ check[c].at = "observed"
    BY DEF TypeOK, AutoReconcile, At
<1>2. RunsHoldRows'
    BY ReconcileHolds
<1>3. \A l \in Lanes :
          row'[l] = IF l \in Proven(c) \ check[c].gone THEN "none" ELSE row[l]
    BY ReconcileHolds
<1>4. RowsFit(c) /\ ViewFits(c) /\ NoOldRows(c) /\ ~check[c].replayed
    BY <1>1 DEF Sound, StartsAfresh
<1>5. run' = run /\ recent' = recent
    BY DEF AutoReconcile
<1>6. CASE Proven(c) = {}
    <2>1. check'[c] = [check[c] EXCEPT !.at = "evaluate"]
        BY <1>6 DEF AutoReconcile, TypeOK
    <2>2. /\ check'[c].at = "evaluate" /\ check'[c].rows = check[c].rows
          /\ check'[c].view = check[c].view /\ check'[c].replayed = check[c].replayed
          /\ check'[c].gone = check[c].gone
        BY <1>1, <2>1 DEF CheckState
    <2> QED
        BY <1>1, <1>4, <1>5, <2>2
        DEF Sound, StartsAfresh, RowsFit, ViewFits, NoOldRows, Looking
<1>7. CASE Proven(c) # {} /\ row' = Nothing
    <2>1. check'[c] = Finished(c, FALSE)
        BY <1>7 DEF AutoReconcile, TypeOK
    <2> QED BY <2>1, RestFacts, SoundAtRest DEF Reading
<1>8. CASE Proven(c) # {} /\ row' # Nothing
    <2>1. check'[c] = [check[c] EXCEPT !.at = "evaluate", !.rows = row', !.flag = flag,
                                       !.gone = {}, !.replayed = TRUE]
        BY <1>8 DEF AutoReconcile, TypeOK
    <2>2. /\ check'[c].at = "evaluate" /\ check'[c].rows = row'
          /\ check'[c].view = check[c].view /\ check'[c].replayed
        BY <1>1, <2>1 DEF CheckState
    <2>3. PICK m \in Lanes : m \in Proven(c)
        BY <1>8 DEF Proven, Unconfirmed
    <2>4. /\ check[c].rows[m] # "none" /\ check[c].view[m] = "none"
          /\ check[c].view[DefaultLane] = "none"
        BY <2>3 DEF Proven, Unconfirmed
    <2>5. m \notin check[c].gone
        BY <1>1, <1>4, <2>4 DEF RowsFit
    <2>6. row'[m] = "none"
        BY <1>3, <2>3, <2>5
    <2>7. PICK a \in Lanes : row'[a] # "none"
        <3>1. row' = [l \in Lanes |-> row'[l]]
            BY DEF AutoReconcile
        <3> QED BY <1>8, <3>1 DEF Nothing
    <2>8. ASSUME NEW l \in Lanes, row'[l] = "none", check[c].view[l] = "live"
          PROVE  Cardinality(Lanes) > 2
        BY <2>4, <2>6, <2>7, <2>8, ThreeLanes
    <2>9. ASSUME NEW l \in Lanes, row'[l] # "none", check[c].view[l] = "none"
          PROVE  l \in recent
        <3>1. row[l] # "none"
            BY <1>3, <2>9
        <3> QED BY <1>1, <1>4, <2>9, <3>1 DEF RowsFit, ViewFits
    <2>10. ViewFits(c)'
        BY <1>5, <2>2, <2>4, <2>8, <2>9 DEF ViewFits
    <2>11. NoOldRows(c)'
        BY <1>2, <2>2 DEF RunsHoldRows, NoOldRows
    <2> QED BY <2>2, <2>10, <2>11 DEF Sound, StartsAfresh, RowsFit
<1> QED BY <1>6, <1>7, <1>8

\* A recent dispatch excuses what the check has not seen of it, but for the
\* conflict of the default lane; a settling lane is excused by its role.
LEMMA KeptFacts ==
    ASSUME TypeOK, NEW c \in Checks, Sound(c), At(c, "evaluate"),
           NEW f \in KeptFindings(c)
    PROVE  OvertakenByDispatch(c, f) \/ UnnamedSettles(c, f) \/ OldObservation(c, f)
<1> USE DEF Stuck, Hang, Conflict, Orphan
<1>1. check[c] \in CheckState /\ check[c].at = "evaluate"
    BY DEF TypeOK, At
<1>2. ViewFits(c) /\ NoOldRows(c)
    BY DEF Sound
<1>3. f \in Findings /\ f \in RawFindings(c) /\ ~Excused(c, f)
    BY DEF KeptFindings, RawFindings
<1>4. f # Stuck
    <2> SUFFICES ASSUME f = Stuck PROVE FALSE
        OBVIOUS
    <2>1. check[c].rows[DefaultLane] # "none" /\ check[c].view[DefaultLane] = "none"
        BY <1>3 DEF RawFindings
    <2>2. DefaultLane \in recent
        BY <1>1, <1>2, <2>1, LaneAssumption DEF ViewFits
    <2> QED BY <1>3, <2>1, <2>2, LaneAssumption DEF Excused
<1>5. f # Hang
    BY <1>1, <1>2, <1>3 DEF RawFindings, NoOldRows, Looking
<1>6. CASE f = Conflict
    <2>1. /\ check[c].rows[DefaultLane] = "none" /\ check[c].view[DefaultLane] # "none"
          /\ ~(DefaultLane \in Settling(c) /\ check[c].rows = Nothing)
        BY <1>3, <1>6 DEF RawFindings
    <2>2. CASE check[c].view[DefaultLane] = "live"
        BY <1>1, <1>2, <1>6, <2>1, <2>2, LaneAssumption DEF ViewFits, OvertakenByDispatch
    <2>3. CASE check[c].view[DefaultLane] = "settling"
        <3>1. DefaultLane \in Settling(c)
            BY <2>1, <2>3, LaneAssumption DEF Settling
        <3>2. \E l \in Lanes : check[c].rows[l] # "none"
            BY <1>1, <2>1, <3>1 DEF CheckState, Nothing
        <3>3. setup.role[DefaultLane] # "gpu"
            BY <1>3, <1>6, <3>1 DEF Excused, HeldBack
        <3> QED BY <1>6, <3>1, <3>2, <3>3 DEF UnnamedSettles
    <2>4. check[c].view[DefaultLane] \in Views
        BY <1>1, LaneAssumption DEF CheckState
    <2> QED BY <2>1, <2>2, <2>3, <2>4 DEF Views
<1>7. CASE f \notin {Stuck, Hang, Conflict}
    <2>1. PICK l \in Lanes : f = Orphan(l)
        BY <1>3, <1>7 DEF Findings
    <2>2. check[c].rows[l] = "none" /\ check[c].view[l] = "live"
        BY <1>3, <2>1 DEF RawFindings
    <2>3. l \notin recent
        BY <1>3, <2>1 DEF Excused
    <2> QED BY <1>1, <1>2, <2>1, <2>2, <2>3 DEF ViewFits, OldObservation
<1> QED BY <1>4, <1>5, <1>6, <1>7

LEMMA EvaluateSound ==
    ASSUME TypeOK, NEW c \in Checks, Evaluate(c)
    PROVE  Sound(c)'
<1>1. CASE KeptFindings(c) = {}
    <2>1. check'[c] = Finished(c, FALSE)
        BY <1>1 DEF Evaluate, TypeOK
    <2> QED BY <2>1, RestFacts, SoundAtRest DEF Reading
<1>2. CASE KeptFindings(c) # {}
    <2>1. check'[c] =
              [Idle EXCEPT !.at = "judged", !.plan = check[c].plan, !.flag = check[c].flag,
                           !.replayed = check[c].replayed,
                           !.key = [findings |-> KeptFindings(c), bucket |-> bucket]]
        BY <1>2 DEF Evaluate, TypeOK
    <2>2. check'[c].at = "judged"
        BY <2>1 DEF Idle
    <2> QED BY <2>2, SoundAtRest DEF Reading
<1> QED BY <1>1, <1>2

LEMMA WatchInit == Init => WatchInv
BY DEF Init, WatchInv, RunsHoldRows, Sound, StartsAfresh, RowsFit, ViewFits, NoOldRows,
       Looking, Nothing, Idle

LEMMA TimerSound ==
    ASSUME TypeOK, RunsHoldRows, \A c \in Checks : Sound(c),
           StartTick \/ Readiness \/ Pump
    PROVE  RunsHoldRows' /\ \A c \in Checks : Sound(c)'
<1> USE DEF lanes, supply, pages
<1>0. Timer \in Checks
    BY DEF Checks
<1>1. CASE StartTick
    <2>1. \A d \in Checks \ {Timer} : check'[d] = check[d]
        BY <1>1 DEF StartTick, TypeOK
    <2>2. /\ check'[Timer].at \in {"readiness", "started"} /\ check'[Timer].gone = {}
          /\ ~check'[Timer].replayed
        BY <1>0, <1>1 DEF StartTick, TypeOK, Idle
    <2>3. Sound(Timer)'
        BY <2>2, SoundAtRest DEF Reading
    <2>4. RunsHoldRows' /\ UNCHANGED lanes
        BY <1>1 DEF StartTick, RunsHoldRows
    <2>5. ASSUME NEW d \in Checks \ {Timer} PROVE Sound(d)'
        BY <2>1, <2>4, SoundKept
    <2> QED BY <2>3, <2>4, <2>5
<1>2. CASE Readiness \/ PumpLaunches
    <2>1. RunsHoldRows' /\ UNCHANGED lanes
        BY <1>2
        DEF Readiness, ReadinessOk, ReadinessPaged, ReadinessPushFails, PumpLaunches,
            Pumps, RunsHoldRows
    <2>2. MoveTo(Timer, "pump") \/ MoveTo(Timer, "launched")
        BY <1>2
        DEF Readiness, ReadinessOk, ReadinessPaged, ReadinessPushFails, PumpLaunches
    <2>3. ASSUME NEW d \in Checks PROVE Sound(d)'
        BY <1>0, <2>1, <2>2, MovedSound, SoundKept
    <2> QED BY <2>1, <2>3
<1>3. CASE PumpRests \/ PumpDrafts \/ PumpWaits
    <2>1. /\ RunsHoldRows' /\ UNCHANGED lanes
          /\ check' = [check EXCEPT ![Timer] = Idle]
        BY <1>3
        DEF PumpRests, PumpDrafts, PumpWaits, Pumps, EndTick, RunsHoldRows
    <2>2. check'[Timer] = Idle /\ \A d \in Checks \ {Timer} : check'[d] = check[d]
        BY <1>0, <2>1 DEF TypeOK
    <2>3. Sound(Timer)'
        BY <1>0, <2>2, RestFacts, SoundAtRest DEF Reading
    <2>4. ASSUME NEW d \in Checks \ {Timer} PROVE Sound(d)'
        BY <2>1, <2>2, SoundKept
    <2> QED BY <2>1, <2>3, <2>4
<1>4. CASE DispatchNext
    <2>1. check'[Timer] = Idle
        BY <1>4, DispatchNextChecks
    <2>2. Sound(Timer)'
        BY <1>0, <2>1, RestFacts, SoundAtRest DEF Reading
    <2>3. CASE \E l \in Lanes :
                  /\ Dispatchable(l) /\ Dispatched(l)
                  /\ \A c \in Checks \ {Timer} : check'[c] = Outdated(l, check)[c]
        <3>1. PICK l \in Lanes :
                  /\ Dispatchable(l) /\ Dispatched(l)
                  /\ \A c \in Checks \ {Timer} : check'[c] = Outdated(l, check)[c]
            BY <2>3
        <3>2. RunsHoldRows'
            BY <3>1, DispatchedHolds
        <3>3. ASSUME NEW d \in Checks \ {Timer} PROVE Sound(d)'
            BY <3>1, DispatchSound
        <3> QED BY <2>2, <3>2, <3>3
    <2>4. CASE /\ UNCHANGED lanes
               /\ \A c \in Checks \ {Timer} : check'[c] = check[c]
        <3>1. ASSUME NEW d \in Checks \ {Timer} PROVE Sound(d)'
            BY <2>4, SoundKept
        <3> QED BY <2>2, <2>4, <3>1 DEF RunsHoldRows
    <2> QED BY <1>4, <2>3, <2>4, DispatchNextChecks
<1> QED
    BY <1>1, <1>2, <1>3, <1>4 DEF Pump, PumpDispatches, LaunchedDispatches

LEMMA CheckSound ==
    ASSUME TypeOK, Healthy, RunsHoldRows, \A c \in Checks : Sound(c),
           NEW c \in Checks, Check(c)
    PROVE  RunsHoldRows' /\ \A d \in Checks : Sound(d)'
<1> USE DEF lanes, supply, pages
<1>1. CASE AutoReconcile(c)
    <2>1. RunsHoldRows'
        BY <1>1, ReconcileHolds
    <2>2. Sound(c)'
        BY <1>1, ReconcileSound
    <2>3. ASSUME NEW d \in Checks \ {c} PROVE Sound(d)'
        <3>1. check'[d] = check[d] /\ run' = run /\ recent' = recent
            BY <1>1 DEF AutoReconcile, TypeOK
        <3>2. \A l \in Lanes : row'[l] # "none" => row[l] # "none"
            BY <1>1, ReconcileHolds
        <3> QED BY <3>1, <3>2, SoundKept
    <2> QED BY <2>1, <2>2, <2>3
<1>2. CASE ~AutoReconcile(c)
    <2>1. UNCHANGED lanes
        BY <1>2
        DEF Check, ReadRows, Observe, Evaluate, AppendAlert, PushOk, PushFails, Answer
    <2>2. RunsHoldRows'
        BY <2>1 DEF RunsHoldRows
    <2>3. \A d \in Checks \ {c} : check'[d] = check[d]
        BY <1>2
        DEF Check, ReadRows, Observe, Evaluate, AppendAlert, PushOk, PushFails, Answer,
            MoveTo, TypeOK
    <2>4. ASSUME NEW d \in Checks \ {c} PROVE Sound(d)'
        BY <2>1, <2>3, SoundKept
    <2>5. Sound(c)'
        <3>1. CASE ReadRows(c) \/ Observe(c) \/ Evaluate(c)
            BY <3>1, ReadSound, ObserveSound, EvaluateSound
        <3>2. CASE check' = [check EXCEPT ![c] = Finished(c, TRUE)]
            <4>1. check'[c] = Finished(c, TRUE)
                BY <3>2 DEF TypeOK
            <4> QED BY <4>1, RestFacts, SoundAtRest DEF Reading
        <3>3. CASE MoveTo(c, "push") \/ MoveTo(c, "told")
            BY <2>1, <3>3, MovedSound, SoundKept
        <3>4. CASE check' = [check EXCEPT ![c] = [@ EXCEPT !.at = "push"]]
            <4>1. MoveTo(c, "push")
                BY <3>4 DEF MoveTo, TypeOK
            <4> QED BY <3>3, <4>1
        <3> QED
            BY <1>2, <3>1, <3>2, <3>3, <3>4
            DEF Check, AppendAlert, PushOk, PushFails, Answer
    <2> QED BY <2>2, <2>4, <2>5
<1> QED BY <1>1, <1>2

LEMMA LaneSound ==
    ASSUME TypeOK, Healthy, RunsHoldRows, \A c \in Checks : Sound(c),
           NEW l \in Lanes,
           \/ Enqueue(l) \/ OtherDispatch(l) \/ Worker(l)
           \/ Expire(l) \/ Grow(l) \/ Vanish(l) \/ Detach(l)
    PROVE  RunsHoldRows' /\ \A c \in Checks : Sound(c)'
<1> USE DEF lanes, supply, pages
<1>1. CASE Enqueue(l)
    <2>1. RunsHoldRows' /\ UNCHANGED lanes /\ check' = check
        BY <1>1 DEF Enqueue, RunsHoldRows
    <2>2. ASSUME NEW c \in Checks PROVE Sound(c)'
        BY <2>1, SoundKept
    <2> QED BY <2>1, <2>2
<1>2. CASE OtherDispatch(l)
    <2>1. RunsHoldRows'
        BY <1>2, DispatchedHolds DEF OtherDispatch
    <2>2. ASSUME NEW c \in Checks PROVE Sound(c)'
        BY <1>2, DispatchSound DEF OtherDispatch
    <2> QED BY <2>1, <2>2
<1>3. CASE Worker(l) \/ Expire(l) \/ Grow(l) \/ Vanish(l) \/ Detach(l)
    <2>1. RunsHoldRows'
        BY <1>3, WorkerHolds
    <2>2. check' = check
        BY <1>3
        DEF Worker, WorkerStarts, WorkerEnds, ReportRun, Quiet, Expire, Grow, Vanish, Detach
    <2>3. CASE WorkerStarts(l) \/ WorkerEnds(l) \/ ReportRun(l)
        <3>1. /\ recent' = recent
              /\ \A m \in Lanes :
                    /\ run[m] # "none" => run'[m] # "none"
                    /\ row'[m] # "none" => row[m] # "none"
                    /\ run'[m] \in {"posted", "running"} => run[m] \in {"posted", "running"}
            BY <2>3 DEF WorkerStarts, WorkerEnds, ReportRun, TypeOK
        <3>2. ASSUME NEW c \in Checks PROVE Sound(c)'
            BY <2>2, <3>1, SoundKept
        <3> QED BY <2>1, <3>2
    <2>4. CASE Quiet(l) \/ Expire(l)
        <3>1. \A c \in Checks : check[c].at \notin Reading
            BY <2>4, HealthyFacts DEF Quiet, Expire, Unhurried, Looking, Reading
        <3>2. ASSUME NEW c \in Checks PROVE Sound(c)'
            BY <2>2, <3>1, SoundKept
        <3> QED BY <2>1, <3>2
    <2>5. ~Grow(l) /\ ~Vanish(l) /\ ~Detach(l)
        BY HealthyFacts DEF Grow, Vanish, Detach, RunsHoldRows, TypeOK
    <2> QED BY <1>3, <2>3, <2>4, <2>5 DEF Worker
<1> QED BY <1>1, <1>2, <1>3

LEMMA NextWatch ==
    ASSUME TypeOK, WatchInv, [Next]_vars
    PROVE  WatchInv'
<1> USE DEF lanes, supply, pages
<1>1. setup' = setup
    BY DEF Next, StartTick, Readiness, ReadinessOk, ReadinessPaged, ReadinessPushFails, Pump,
           PumpRests, PumpDrafts, PumpDispatches, PumpWaits, PumpLaunches,
           LaunchedDispatches, Check, ReadRows, Observe, AutoReconcile, Evaluate,
           AppendAlert, PushOk, PushFails, Answer, Environment, Enqueue, OtherDispatch,
           Worker, WorkerStarts, WorkerEnds, ReportRun, Quiet, Expire, Grow, Vanish, Detach,
           Hold, Resume, NewBucket, CoolDown, vars
<1> SUFFICES ASSUME Healthy
             PROVE  RunsHoldRows' /\ \A c \in Checks : Sound(c)'
    BY <1>1 DEF WatchInv, Healthy
<1>2. RunsHoldRows /\ \A c \in Checks : Sound(c)
    BY DEF WatchInv
<1>3. CASE UNCHANGED lanes /\ check' = check
    <2>1. ASSUME NEW c \in Checks PROVE Sound(c)'
        BY <1>2, <1>3, SoundKept
    <2> QED BY <1>2, <1>3, <2>1 DEF RunsHoldRows
<1>4. CASE UNCHANGED vars \/ Hold \/ Resume \/ NewBucket \/ CoolDown
    BY <1>3, <1>4 DEF vars, Hold, Resume, NewBucket, CoolDown
<1>5. CASE StartTick \/ Readiness \/ Pump
    BY <1>2, <1>5, TimerSound
<1>6. CASE \E c \in Checks : Check(c)
    BY <1>2, <1>6, CheckSound
<1>7. CASE \E l \in Lanes :
              \/ Enqueue(l) \/ OtherDispatch(l) \/ Worker(l)
              \/ Expire(l) \/ Grow(l) \/ Vanish(l) \/ Detach(l)
    BY <1>2, <1>7, LaneSound
<1> QED BY <1>4, <1>5, <1>6, <1>7 DEF Next, Environment

\* However many lanes there are, and whatever is dispatched, ends and reports
\* while checks look, healthy work is not paged about, but for the default lane's
\* conflict after a dispatch that the check overlooked, or with a lane settling
\* that names no GPU worker, and for the orphan of a check that has read its rows
\* again.
THEOREM HealthyWorkIsNotPagedAbout == Spec => []NoFalseAlarm
<1>1. TypeOK /\ WatchInv => NoFalseAlarm
    BY KeptFacts DEF WatchInv, NoFalseAlarm
<1> QED BY <1>1, InitTyped, NextTyped, WatchInit, NextWatch, PTL DEF Spec
=============================================================================
