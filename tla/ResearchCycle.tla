--------------------------- MODULE ResearchCycle ---------------------------
(***************************************************************************)
(* The bounded research cycle: generate candidates, admit and promote them *)
(* into the queue, launch follow-ups of completed projects, and dispatch   *)
(* queued projects on idle worker lanes.                                   *)
(*                                                                         *)
(* A project is <<c, n>>: <<c, 0>> is what candidate c is promoted to, and *)
(* <<c, n + 1>> is the follow-up of <<c, n>>.  A cycle plans from one read *)
(* of the active rows and a later one of the queue, and then acts on them  *)
(* in a thread of its own, one transaction at a time, while callbacks, the *)
(* operator and other cycles go on.  Claiming a lane is atomic here: that  *)
(* it is, is the subject of QueueLedger.                                   *)
(***************************************************************************)
EXTENDS FiniteSets, Naturals

CONSTANTS
    Lanes,
    Candidates,
    LaneOf,         \* machine target of each candidate
    Cycles,         \* calls of the run-cycle endpoint
    MinDepth,       \* min_queue_depth_per_lane
    MaxPromotions,  \* max_promotions_per_run
    MaxDispatches,  \* max_dispatches_per_run
    MaxDepth,       \* max_followup_depth
    MaxClaim,       \* bound: depths a worker may claim
    MaxBatch,       \* bound: candidates of one generated batch
    Setups,         \* scenarios
    None

\* A scenario is the calls that may overlap (calls), the candidates the provider
\* may generate (supply), those of them whose projects may recommend follow-ups
\* (parents), and its hazards.
\*  operator  promotions, launches and dispatches by hand
\*  repeat    the provider generates a candidate once more
\*  failure   a provider call, a run or a dispatch fails
AllHazards == {"operator", "repeat", "failure"}

ASSUME CandidatesAssumption == IsFiniteSet(Candidates)
ASSUME LanesAssumption == LaneOf \in [Candidates -> Lanes] /\ None \notin Lanes
ASSUME BoundsAssumption ==
    /\ MinDepth \in Nat /\ MaxPromotions \in Nat /\ MaxDispatches \in Nat
    /\ MaxDepth \in Nat /\ MaxClaim \in Nat /\ MaxBatch \in Nat
ASSUME SetupsAssumption ==
    Setups \subseteq [calls : SUBSET Cycles, supply : SUBSET Candidates,
                      parents : SUBSET Candidates, hazards : SUBSET AllHazards]

\* One level more than follow-ups are launched to.
Projects == Candidates \X (0 .. MaxDepth + 1)

Lane(p) == LaneOf[p[1]]
NextOf(p) == <<p[1], p[2] + 1>>

VARIABLES
    queue,     \* status of the queue row of each project
    depth,     \* follow-up depth stored with the idea of each project
    decided,   \* depth of the recorded follow-up recommendation, or None
    launched,  \* projects with a followup.launch event
    ledger,    \* the research ledger of each candidate
    cycle,     \* what each cycle is doing, and what it has read
    setup      \* the scenario; never changes

projects == <<queue, depth, decided, launched>>
vars == <<projects, ledger, cycle, setup>>

QueueStatuses == {"none", "queued", "active", "completed", "blocked"}
Decisions == {"admitted", "needs_review"}
Keys == Decisions \cup {"janitor", "promotion"}

Phases ==
    {"idle", "plan", "idle_lanes", "followup", "launch", "launched",
     "generate", "select", "promote", "promoted", "wait"}

Idle == [at |-> "idle", busy |-> {}, deficit |-> [l \in Lanes |-> 0],
         target |-> None, todo |-> {}, count |-> 0, parent |-> None]

Hazard(h) == h \in setup.hazards

ActiveLanes == {Lane(p) : p \in {q \in Projects : queue[q] = "active"}}
QueuedIn(l) == {p \in Projects : Lane(p) = l /\ queue[p] = "queued"}

(***************************************************************************)
(* The research ledger                                                     *)
(***************************************************************************)

\* The workbench shows the latest admission of a candidate.
Promotable(c) ==
    /\ ledger[c].latest = "admitted"
    /\ ~ledger[c].linked

\* Faulty variant: the admission does not name the idea.
AdmitUnlinked(row, key, decision, linked) ==
    [row EXCEPT !.keys = @ \cup {key}, !.latest = decision, !.linked = FALSE]

\* An admission is written once per key.
Admit(row, key, decision, linked) ==
    IF key \in row.keys
    THEN row
    ELSE [row EXCEPT !.keys = @ \cup {key}, !.latest = decision, !.linked = linked]

\* A repeated candidate overwrites the status, whatever became of it.
Recorded(row, decision) ==
    [Admit(row, decision, decision, FALSE) EXCEPT !.status = decision]

\* Admissions of a candidate that has left needs_review are skipped.
Reviewed(row) ==
    IF row.status = "needs_review"
    THEN [Admit(row, "janitor", "admitted", FALSE) EXCEPT !.status = "admitted"]
    ELSE row

\* What the gate of a promotion lets through when it runs.
Admissible(c) ==
    /\ ledger[c].status = "admitted"
    /\ Promotable(c)

\* The key of the first promotion is in use, with another score.
PromotionConflict(c) == Admissible(c) /\ "promotion" \in ledger[c].keys

PromoteAll(batch) ==
    LET written == {c \in batch : Admissible(c)} IN
    /\ queue' = [p \in Projects |->
                    IF p[2] = 0 /\ p[1] \in written
                       /\ queue[p] = "none"    \* a row keeps its status
                    THEN "queued" ELSE queue[p]]
    /\ ledger' = [c \in Candidates |->
                    IF c \in written
                    THEN Admit(ledger[c], "promotion", "admitted", TRUE)
                    ELSE ledger[c]]

(***************************************************************************)
(* Follow-ups                                                              *)
(***************************************************************************)

\* Faulty variant: the worker may reset the depth.
ClaimedDepth(p, claim) == claim

EnforcedDepth(p, claim) == IF claim > depth[p] THEN claim ELSE depth[p]

FollowupReady(p) ==
    /\ queue[p] = "completed"
    /\ decided[p] # None
    /\ decided[p] < MaxDepth
    /\ p \notin launched

\* Faulty variant: an existing child is taken for a fresh one.
NoConflict(p) == FALSE

\* The child is what it was when it was launched, or it is a conflict.
LaunchConflict(p) == queue[NextOf(p)] \notin {"none", "queued"}

Launch(p) ==
    /\ queue' = [queue EXCEPT ![NextOf(p)] = "queued"]
    /\ depth' = [depth EXCEPT ![NextOf(p)] = decided[p] + 1]
    /\ launched' = launched \cup {p}
    /\ UNCHANGED decided

Init ==
    /\ queue = [p \in Projects |-> "none"]
    /\ depth = [p \in Projects |-> 0]
    /\ decided = [p \in Projects |-> None]
    /\ launched = {}
    /\ ledger = [c \in Candidates |->
                    [status |-> "none", latest |-> "none", linked |-> FALSE, keys |-> {}]]
    /\ cycle = [i \in Cycles |-> Idle]
    /\ setup \in Setups

(***************************************************************************)
(* A cycle plans                                                           *)
(***************************************************************************)
At(i, phase) == cycle[i].at = phase
MoveTo(i, phase) == cycle' = [cycle EXCEPT ![i].at = phase]

Finish(i) == cycle' = [cycle EXCEPT ![i] = Idle]

\* Blocked rows need attention first.
BeginCycle(i) ==
    /\ i \in setup.calls
    /\ At(i, "idle")
    /\ \A p \in Projects : queue[p] # "blocked"
    /\ cycle' = [cycle EXCEPT ![i].at = "plan", ![i].busy = ActiveLanes]
    /\ UNCHANGED <<projects, ledger, setup>>

\* The janitor admits some candidates under review, or its transaction fails
\* because an earlier admission of one has used the key.
JanitorOutcomes ==
    LET under == {c \in Candidates : ledger[c].status = "needs_review"}
        batches == {s \in SUBSET under : Cardinality(s) <= MaxPromotions}
    IN  {[c \in Candidates |-> IF c \in s THEN Reviewed(ledger[c]) ELSE ledger[c]] :
            s \in {b \in batches : \A c \in b : "janitor" \notin ledger[c].keys}}

PromotableIn(l, rows) ==
    {c \in Candidates : LaneOf[c] = l /\ rows[c].latest = "admitted" /\ ~rows[c].linked}

\* Missing rows up to the desired depth.
Deficits == [l \in Lanes |->
    IF Cardinality(QueuedIn(l)) < MinDepth THEN MinDepth - Cardinality(QueuedIn(l)) ELSE 0]

\* Fresh candidates go to the lane that lacks most, unless admitted
\* candidates are enough to fill it.
Targets(rows) ==
    LET short == {l \in Lanes : Deficits[l] > Cardinality(PromotableIn(l, rows))}
    IN  IF short = {} THEN {None}
        ELSE {l \in short : \A m \in short : Deficits[m] <= Deficits[l]}

\* The first queued row of each lane that was idle when the cycle began.
IdleLaneCandidates(busy) ==
    LET open == {l \in Lanes \ busy : QueuedIn(l) # {}}
    IN  {s \in SUBSET UNION {QueuedIn(l) : l \in open} :
            \A l \in open : Cardinality(s \cap QueuedIn(l)) = 1}

\* Nothing to do for any lane that is idle.
Backpressure(busy, rows, target) ==
    /\ busy # {}
    /\ target = None
    /\ \A l \in Lanes \ busy : PromotableIn(l, rows) = {} /\ QueuedIn(l) = {}

\* The janitor writes before backpressure is known.
Plan(i) ==
    /\ At(i, "plan")
    /\ \E rows \in JanitorOutcomes, todo \in IdleLaneCandidates(cycle[i].busy) :
       \E target \in Targets(rows) :
          /\ ledger' = rows
          /\ IF Backpressure(cycle[i].busy, rows, target)
             THEN Finish(i)
             ELSE cycle' = [cycle EXCEPT ![i].at = "idle_lanes", ![i].todo = todo,
                                         ![i].deficit = Deficits, ![i].target = target]
    /\ UNCHANGED <<projects, setup>>

(***************************************************************************)
(* A cycle dispatches                                                      *)
(***************************************************************************)

\* Dispatches are counted over the whole cycle.
Capacity(i) == cycle[i].count < MaxDispatches

MayDispatch(i, p) ==
    /\ cycle[i].at \in {"idle_lanes", "launched", "promoted", "wait"}
    /\ Capacity(i)
    /\ p \in cycle[i].todo

\* A row was claimed for its idle lane.
Dispatch(i, p) ==
    /\ MayDispatch(i, p)
    /\ queue[p] = "queued"
    /\ Lane(p) \notin ActiveLanes
    /\ queue' = [queue EXCEPT ![p] = "active"]
    /\ cycle' = [cycle EXCEPT ![i].todo = @ \ {p}, ![i].count = @ + 1]
    /\ UNCHANGED <<depth, decided, launched, ledger, setup>>

\* A row that is no longer queued is skipped; a lane in use, or a worker that
\* is not ready, is backpressure.
DispatchRefused(i, p) ==
    /\ MayDispatch(i, p)
    /\ Hazard("failure") \/ queue[p] # "queued" \/ Lane(p) \in ActiveLanes
    /\ cycle' = [cycle EXCEPT ![i].todo = @ \ {p}]
    /\ UNCHANGED <<projects, ledger, setup>>

\* Any other failure ends the cycle, and may block the row.
DispatchFails(i, p) ==
    /\ Hazard("failure")
    /\ MayDispatch(i, p)
    /\ queue[p] = "queued"
    /\ \E status \in {"queued", "blocked"} : queue' = [queue EXCEPT ![p] = status]
    /\ Finish(i)
    /\ UNCHANGED <<depth, decided, launched, ledger, setup>>

Dispatched(i, phase, next) ==
    /\ At(i, phase)
    /\ cycle[i].todo = {} \/ ~Capacity(i)
    /\ cycle' = [cycle EXCEPT ![i].at = next, ![i].todo = {}]
    /\ UNCHANGED <<projects, ledger, setup>>

(***************************************************************************)
(* A cycle launches a follow-up, generates, and promotes                   *)
(***************************************************************************)

\* Not at the expense of a lane that generation would fill, and not on top of
\* a lane that was full.
Launchable(i, p) ==
    /\ Capacity(i)
    /\ cycle[i].target \in {None, Lane(p)}
    /\ cycle[i].deficit[Lane(p)] > 0

\* The candidate is read here, and written in another transaction.
ReadFollowup(i) ==
    /\ At(i, "followup")
    /\ LET ready == {p \in Projects : FollowupReady(p)} IN
       \/ /\ ready = {}
          /\ MoveTo(i, "generate")
       \/ \E p \in ready :
             IF Launchable(i, p)
             THEN cycle' = [cycle EXCEPT ![i].at = "launch", ![i].parent = p]
             ELSE MoveTo(i, "generate")
    /\ UNCHANGED <<projects, ledger, setup>>

\* A conflict ends the cycle.
LaunchFollowup(i) ==
    /\ At(i, "launch")
    /\ LET p == cycle[i].parent IN
       IF LaunchConflict(p)
       THEN Finish(i) /\ UNCHANGED projects
       ELSE /\ Launch(p)
            /\ cycle' = [cycle EXCEPT ![i].at = "launched", ![i].todo = {NextOf(p)}]
    /\ UNCHANGED <<ledger, setup>>

\* The plans of a batch are recorded together or not at all; a key that was
\* used for another content undoes them all.
Generate(i) ==
    /\ At(i, "generate")
    /\ \/ cycle[i].target = None /\ UNCHANGED ledger
       \/ /\ cycle[i].target # None
          /\ \E batch \in SUBSET setup.supply :
                /\ Cardinality(batch) <= MaxBatch
                /\ Hazard("repeat") \/ \A c \in batch : ledger[c].status = "none"
                /\ \E decision \in [batch -> Decisions] :
                      ledger' = [c \in Candidates |->
                                    IF c \in batch THEN Recorded(ledger[c], decision[c])
                                    ELSE ledger[c]]
       \/ /\ cycle[i].target # None
          /\ Hazard("failure") \/ Hazard("repeat")
          /\ UNCHANGED ledger
    /\ MoveTo(i, IF cycle[i].parent # None /\ cycle[i].target = None
                 THEN "promoted" ELSE "select")
    /\ UNCHANGED <<projects, setup>>

\* Faulty variant: every admitted candidate of a lane that lacks rows.
EveryRow(i, c) == Cardinality(Candidates)

\* As many of a lane as it lacked when the cycle planned.
LaneLimit(i, c) == cycle[i].deficit[LaneOf[c]]

\* Idle lanes first; at most MaxPromotions in all, and no fewer than there are.
Selections(i) ==
    LET rows == {c \in Candidates : Promotable(c) /\ cycle[i].deficit[LaneOf[c]] > 0}
        open == {c \in rows : LaneOf[c] \notin cycle[i].busy}
        from == IF open = {} THEN rows ELSE open
        lane(c, s) == {d \in s : LaneOf[d] = LaneOf[c]}
        fits == {s \in SUBSET from :
                    /\ Cardinality(s) <= MaxPromotions
                    /\ \A c \in s : Cardinality(lane(c, s)) <= LaneLimit(i, c)}
    IN  {s \in fits : \A t \in fits : Cardinality(t) <= Cardinality(s)}

Select(i) ==
    /\ At(i, "select")
    /\ \E s \in Selections(i) :
          cycle' = [cycle EXCEPT ![i].at = "promote", ![i].todo = {<<c, 0>> : c \in s}]
    /\ UNCHANGED <<projects, ledger, setup>>

\* One transaction; a conflict in it undoes all of it and ends the cycle.
Promote(i) ==
    /\ At(i, "promote")
    /\ LET batch == {p[1] : p \in cycle[i].todo} IN
       IF \E c \in batch : PromotionConflict(c)
       THEN Finish(i) /\ UNCHANGED <<queue, ledger>>
       ELSE PromoteAll(batch) /\ MoveTo(i, "promoted")
    /\ UNCHANGED <<depth, decided, launched, setup>>

\* While it waits for what it dispatched, a cycle refills idle lanes.
Refill(i) ==
    /\ At(i, "wait")
    /\ cycle[i].count > 0
    /\ cycle[i].todo = {}
    /\ Capacity(i)
    /\ ActiveLanes # {}
    /\ \E todo \in IdleLaneCandidates(ActiveLanes) :
          /\ todo # {}
          /\ cycle' = [cycle EXCEPT ![i].todo = todo]
    /\ UNCHANGED <<projects, ledger, setup>>

\* All is completed, or the deadline has passed.
EndCycle(i) ==
    /\ At(i, "wait")
    /\ Finish(i)
    /\ UNCHANGED <<projects, ledger, setup>>

(***************************************************************************)
(* The worker, the callbacks and the operator                              *)
(***************************************************************************)

Complete(p) ==
    /\ queue[p] = "active"
    /\ \/ queue' = [queue EXCEPT ![p] = "completed"]
       \/ Hazard("failure") /\ queue' = [queue EXCEPT ![p] = "blocked"]
    /\ UNCHANGED <<depth, decided, launched, ledger, cycle, setup>>

Requeue(p) ==
    /\ queue[p] = "blocked"
    /\ queue' = [queue EXCEPT ![p] = "queued"]
    /\ UNCHANGED <<depth, decided, launched, ledger, cycle, setup>>

\* The decision artifact recommends a follow-up and claims a depth.
RecordDecision(p, claim) ==
    /\ p[1] \in setup.parents
    /\ p[2] <= MaxDepth
    /\ queue[p] = "completed"
    /\ decided[p] = None
    /\ decided' = [decided EXCEPT ![p] = EnforcedDepth(p, claim)]
    /\ UNCHANGED <<queue, depth, launched, ledger, cycle, setup>>

OperatorPromotes(c) ==
    /\ Hazard("operator")
    /\ Admissible(c)
    /\ ~PromotionConflict(c)
    /\ PromoteAll({c})
    /\ UNCHANGED <<depth, decided, launched, cycle, setup>>

OperatorLaunches(p) ==
    /\ Hazard("operator")
    /\ FollowupReady(p)
    /\ ~LaunchConflict(p)
    /\ Launch(p)
    /\ UNCHANGED <<ledger, cycle, setup>>

OperatorDispatches(p) ==
    /\ Hazard("operator")
    /\ queue[p] = "queued"
    /\ Lane(p) \notin ActiveLanes
    /\ queue' = [queue EXCEPT ![p] = "active"]
    /\ UNCHANGED <<depth, decided, launched, ledger, cycle, setup>>

CycleStep(i) ==
    \/ Plan(i)
    \/ \E p \in Projects : Dispatch(i, p) \/ DispatchRefused(i, p) \/ DispatchFails(i, p)
    \/ Dispatched(i, "idle_lanes", "followup")
    \/ ReadFollowup(i) \/ LaunchFollowup(i)
    \/ Dispatched(i, "launched", "generate")
    \/ Generate(i) \/ Select(i) \/ Promote(i)
    \/ Dispatched(i, "promoted", "wait")
    \/ Refill(i) \/ EndCycle(i)

Next ==
    \/ \E i \in Cycles : BeginCycle(i) \/ CycleStep(i)
    \/ \E p \in Projects :
          \/ Complete(p) \/ Requeue(p)
          \/ \E claim \in 0 .. MaxClaim : RecordDecision(p, claim)
          \/ OperatorLaunches(p) \/ OperatorDispatches(p)
    \/ \E c \in Candidates : OperatorPromotes(c)

Spec == Init /\ [][Next]_vars

(***************************************************************************)
(* Properties                                                              *)
(***************************************************************************)

\* Shape of the state; an idle cycle remembers nothing.
TypeOK ==
    /\ queue \in [Projects -> QueueStatuses]
    /\ depth \in [Projects -> 0 .. MaxDepth + MaxClaim + 1]
    /\ decided \in [Projects -> (0 .. MaxDepth + MaxClaim + 1) \cup {None}]
    /\ launched \subseteq Projects
    /\ ledger \in [Candidates -> [status : Decisions \cup {"none"},
                                   latest : Decisions \cup {"none"},
                                   linked : BOOLEAN, keys : SUBSET Keys]]
    /\ cycle \in [Cycles -> [at : Phases, busy : SUBSET Lanes,
                              deficit : [Lanes -> 0 .. MinDepth],
                              target : Lanes \cup {None}, todo : SUBSET Projects,
                              count : Nat, parent : Projects \cup {None}]]
    /\ \A i \in Cycles : At(i, "idle") => cycle[i] = Idle
    /\ setup \in Setups

\* One cycle at a time, and no hazards.
Undisturbed == setup.hazards = {} /\ \A i, j \in setup.calls : i = j

\* Chains of follow-ups end, whatever depth each worker claims.
ChainsEnd == \A p \in Projects : queue[p] # "none" => p[2] <= MaxDepth

\* A single cycle at a time, planning from what it read at its start, promotes no
\* more than a lane lacks; one follow-up may come on top.
QueueStaysShallow ==
    Undisturbed =>
        \A l \in Lanes :
            /\ Cardinality({p \in QueuedIn(l) : p[2] = 0}) <= MinDepth
            /\ Cardinality(QueuedIn(l)) <= MinDepth + 1

\* What was promoted is not offered for promotion again.
PromotedNotOffered ==
    \A c \in Candidates : "promotion" \in ledger[c].keys => ~Promotable(c)

\* That holds while no candidate is generated twice.
PromotedOnce == ~Hazard("repeat") => PromotedNotOffered

\* No promotion or launch, by a cycle or by hand, puts a project that runs or has
\* run back into the queue.
NoRevival ==
    [][\A p \in Projects :
          queue[p] \in {"active", "completed"} => queue'[p] # "queued"]_vars
=============================================================================
