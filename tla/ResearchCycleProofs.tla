------------------------ MODULE ResearchCycleProofs ------------------------
(***************************************************************************)
(* Proofs about ResearchCycle, for any lanes, candidates, overlapping      *)
(* cycles and limits, under every hazard.                                  *)
(*                                                                         *)
(* That chains of follow-ups end rests on depths that never lag behind the *)
(* place of a project in its chain (Deepening), and on a cycle that        *)
(* launches only what was ready when it looked (Sound): a recorded depth   *)
(* is never changed, so the answer it got is still right.                  *)
(***************************************************************************)
EXTENDS ResearchCycle, FiniteSetTheorems, TLAPS

Depths == 0 .. MaxDepth + MaxClaim + 1

LedgerRow ==
    [status : Decisions \cup {"none"}, latest : Decisions \cup {"none"},
     linked : BOOLEAN, keys : SUBSET Keys]

CycleRow ==
    [at : Phases, busy : SUBSET Lanes, deficit : [Lanes -> 0 .. MinDepth],
     target : Lanes \cup {None}, todo : SUBSET Projects, count : Nat,
     parent : Projects \cup {None}]

\* Rows exist within the bound, and depths keep up with them.
Deepening ==
    \A p \in Projects :
        /\ queue[p] # "none" => p[2] <= MaxDepth /\ p[2] <= depth[p]
        /\ decided[p] # None => p[2] <= decided[p]

ProjectInv ==
    /\ queue \in [Projects -> QueueStatuses]
    /\ depth \in [Projects -> Depths]
    /\ decided \in [Projects -> Depths \cup {None}]
    /\ launched \in SUBSET Projects
    /\ Deepening

\* A promoted candidate is linked, and stays admitted unless it is repeated.
PromotedLinked(rows) ==
    ~Hazard("repeat") =>
        \A c \in Candidates :
            "promotion" \in rows[c].keys => rows[c].status = "admitted" /\ rows[c].linked

LedgerInv == ledger \in [Candidates -> LedgerRow] /\ PromotedLinked(ledger)

\* A cycle that is about to launch has a parent that is ready for it.
Sound(f) ==
    /\ f \in CycleRow
    /\ f.at = "idle" => f = Idle
    /\ f.at = "launch" =>
          /\ f.parent \in Projects
          /\ decided[f.parent] # None /\ decided[f.parent] < MaxDepth

CycleInv ==
    /\ cycle \in [Cycles -> CycleRow]
    /\ \A i \in Cycles : Sound(cycle[i])

ResearchInv == ProjectInv /\ LedgerInv /\ CycleInv /\ setup \in Setups

-----------------------------------------------------------------------------
(* What the operators return *)

LEMMA BoundFacts ==
    /\ MinDepth \in Nat /\ MaxDepth \in Nat /\ MaxClaim \in Nat
    /\ 0 \in Depths
    /\ \A c \in Candidates : <<c, 0>> \in Projects
    /\ \A p \in Projects : p[1] \in Candidates /\ p[2] \in Nat /\ Lane(p) \in Lanes
BY BoundsAssumption, LanesAssumption DEF Depths, Projects, Lane

\* The next project of a chain is one as long as the chain may go on.
LEMMA NextFacts ==
    ASSUME NEW p \in Projects, p[2] <= MaxDepth
    PROVE  NextOf(p) \in Projects /\ NextOf(p)[2] = p[2] + 1
BY BoundFacts DEF NextOf, Projects

LEMMA DeficitFacts == Deficits \in [Lanes -> 0 .. MinDepth]
<1>1. IsFiniteSet(Projects)
    <2>1. IsFiniteSet(0 .. MaxDepth + 1)
        BY BoundFacts, FS_Interval
    <2> QED BY <2>1, CandidatesAssumption, FS_Product DEF Projects
<1>2. ASSUME NEW l \in Lanes PROVE Cardinality(QueuedIn(l)) \in Nat
    <2>1. QueuedIn(l) \subseteq Projects
        BY DEF QueuedIn
    <2> QED BY <1>1, <2>1, FS_Subset, FS_CardinalityType
<1> QED BY <1>2, BoundFacts DEF Deficits

LEMMA AdmitFacts ==
    ASSUME NEW row \in LedgerRow, NEW key \in Keys, NEW decision \in Decisions,
           NEW linked \in BOOLEAN
    PROVE  /\ Admit(row, key, decision, linked) \in LedgerRow
           /\ Admit(row, key, decision, linked).status = row.status
           /\ Admit(row, key, decision, linked).keys = row.keys \cup {key}
<1>1. CASE key \in row.keys
    BY <1>1 DEF Admit
<1>2. CASE key \notin row.keys
    <2> DEFINE keys == row.keys \cup {key}
    <2>1. keys \in SUBSET Keys
        BY DEF LedgerRow
    <2> HIDE DEF keys
    <2>2. Admit(row, key, decision, linked)
            = [row EXCEPT !.keys = keys, !.latest = decision, !.linked = linked]
        BY <1>2 DEF Admit, keys
    <2> QED BY <1>2, <2>1, <2>2 DEF LedgerRow, keys
<1> QED BY <1>1, <1>2

LEMMA PromotionFacts ==
    ASSUME NEW row \in LedgerRow
    PROVE  /\ Admit(row, "promotion", "admitted", TRUE) \in LedgerRow
           /\ Admit(row, "promotion", "admitted", TRUE).status = row.status
           /\ \/ Admit(row, "promotion", "admitted", TRUE).linked
              \/ /\ "promotion" \in row.keys
                 /\ Admit(row, "promotion", "admitted", TRUE) = row
<1>1. CASE "promotion" \in row.keys
    BY <1>1 DEF Admit
<1>2. CASE "promotion" \notin row.keys
    <2> DEFINE keys == row.keys \cup {"promotion"}
    <2>1. keys \in SUBSET Keys
        BY DEF LedgerRow, Keys
    <2> HIDE DEF keys
    <2>2. Admit(row, "promotion", "admitted", TRUE)
            = [row EXCEPT !.keys = keys, !.latest = "admitted", !.linked = TRUE]
        BY <1>2 DEF Admit, keys
    <2>3. "admitted" \in Decisions \cup {"none"}
        BY DEF Decisions
    <2> QED BY <2>1, <2>2, <2>3 DEF LedgerRow
<1> QED BY <1>1, <1>2

LEMMA RecordedFacts ==
    ASSUME NEW row \in LedgerRow, NEW decision \in Decisions
    PROVE  /\ Recorded(row, decision) \in LedgerRow
           /\ Recorded(row, decision).keys = row.keys \cup {decision}
<1> DEFINE new == Admit(row, decision, decision, FALSE)
<1>1. new \in LedgerRow /\ new.keys = row.keys \cup {decision}
    BY AdmitFacts DEF Keys
<1>2. Recorded(row, decision) = [new EXCEPT !.status = decision]
    BY DEF Recorded
<1> HIDE DEF new
<1> QED BY <1>1, <1>2 DEF LedgerRow

LEMMA ReviewedFacts ==
    ASSUME NEW row \in LedgerRow
    PROVE  /\ Reviewed(row) \in LedgerRow
           /\ row.status = "admitted" => Reviewed(row) = row
           /\ "promotion" \in Reviewed(row).keys => "promotion" \in row.keys
<1> DEFINE new == Admit(row, "janitor", "admitted", FALSE)
<1>1. new \in LedgerRow /\ new.keys = row.keys \cup {"janitor"}
    BY AdmitFacts DEF Keys, Decisions
<1> HIDE DEF new
<1>2. Reviewed(row) = IF row.status = "needs_review" THEN [new EXCEPT !.status = "admitted"] ELSE row
    BY DEF Reviewed, new
<1> QED BY <1>1, <1>2 DEF LedgerRow, Decisions

LEMMA IdleFacts == Idle \in CycleRow /\ Idle.at = "idle"
BY BoundFacts DEF Idle, CycleRow, Phases

\* A cycle goes on with what it has read.
LEMMA MovedFacts ==
    ASSUME CycleInv, NEW i \in Cycles, NEW phase \in Phases \ {"idle", "launch"}, MoveTo(i, phase)
    PROVE  \E f : Sound(f) /\ cycle' = [cycle EXCEPT ![i] = f]
<1> DEFINE new == [cycle[i] EXCEPT !.at = phase]
<1>1. cycle' = [cycle EXCEPT ![i] = new]
    BY DEF MoveTo
<1>2. new \in CycleRow /\ new.at = phase
    BY Zenon DEF CycleInv, CycleRow
<1> HIDE DEF new
<1> QED BY <1>1, <1>2 DEF Sound

LEMMA FinishFacts ==
    ASSUME NEW i \in Cycles, Finish(i)
    PROVE  \E f : Sound(f) /\ cycle' = [cycle EXCEPT ![i] = f]
BY IdleFacts DEF Finish, Sound

LEMMA CycleKeeps ==
    ASSUME CycleInv, NEW i \in Cycles, decided' = decided,
           \E f : Sound(f) /\ cycle' = [cycle EXCEPT ![i] = f]
    PROVE  CycleInv'
<1>1. PICK f : Sound(f) /\ cycle' = [cycle EXCEPT ![i] = f]
    OBVIOUS
<1>2. cycle' \in [Cycles -> CycleRow]
    BY <1>1 DEF CycleInv, Sound
<1>3. \A j \in Cycles : Sound(cycle'[j])
    BY <1>1 DEF CycleInv
<1>4. \A g : Sound(g) => Sound(g)'
    BY DEF Sound
<1> QED BY <1>2, <1>3 DEF CycleInv, Sound

LEMMA ProjectsKept == ProjectInv /\ UNCHANGED projects => ProjectInv'
BY DEF ProjectInv, Deepening, projects

LEMMA LedgerKept == LedgerInv /\ UNCHANGED <<ledger, setup>> => LedgerInv'
BY DEF LedgerInv, PromotedLinked, Hazard

LEMMA CyclesKept == CycleInv /\ UNCHANGED <<cycle, decided>> => CycleInv'
BY DEF CycleInv, Sound

-----------------------------------------------------------------------------
(* Projects *)

\* One row changes its status.
LEMMA StatusKeeps ==
    ASSUME ProjectInv, NEW p \in Projects, queue[p] # "none", NEW s \in QueueStatuses,
           queue' = [queue EXCEPT ![p] = s], UNCHANGED <<depth, decided, launched>>
    PROVE  ProjectInv'
BY DEF ProjectInv, Deepening

LEMMA LaunchKeeps ==
    ASSUME ProjectInv, NEW p \in Projects, decided[p] # None, decided[p] < MaxDepth, Launch(p)
    PROVE  ProjectInv'
<1>1. decided[p] \in 0 .. MaxDepth - 1 /\ p[2] <= decided[p]
    BY BoundFacts DEF ProjectInv, Deepening, Depths
<1>2. p[2] < MaxDepth
    BY <1>1, BoundFacts
<1>3. NextOf(p) \in Projects /\ NextOf(p)[2] = p[2] + 1
    BY <1>2, NextFacts, BoundFacts
<1>4. decided[p] + 1 \in Depths /\ p[2] + 1 <= decided[p] + 1 /\ p[2] + 1 <= MaxDepth
    BY <1>1, <1>2, BoundFacts DEF Depths
<1> DEFINE child == NextOf(p)
           d == decided[p] + 1
<1>5. /\ queue' = [queue EXCEPT ![child] = "queued"] /\ depth' = [depth EXCEPT ![child] = d]
      /\ launched' = launched \cup {p} /\ decided' = decided
    BY DEF Launch
<1>6. child \in Projects /\ d \in Depths /\ child[2] <= d /\ child[2] <= MaxDepth
    BY <1>3, <1>4
<1> HIDE DEF child, d
<1>7. "queued" \in QueueStatuses
    BY DEF QueueStatuses
<1> QED BY <1>5, <1>6, <1>7 DEF ProjectInv, Deepening

LEMMA PromoteAllKeeps ==
    ASSUME ProjectInv, LedgerInv, NEW batch \in SUBSET Candidates, PromoteAll(batch),
           UNCHANGED <<depth, decided, launched, setup>>
    PROVE  ProjectInv' /\ LedgerInv'
<1>1. ProjectInv'
    <2>1. queue' \in [Projects -> QueueStatuses]
        BY DEF PromoteAll, ProjectInv, QueueStatuses
    <2>2. \A p \in Projects : queue'[p] = queue[p] \/ p[2] = 0
        BY DEF PromoteAll, ProjectInv
    <2>3. Deepening'
        BY <2>2, BoundFacts DEF ProjectInv, Deepening, Depths
    <2> QED BY <2>1, <2>3 DEF ProjectInv
<1>2. LedgerInv'
    <2>1. ASSUME NEW c \in Candidates
          PROVE  /\ Admit(ledger[c], "promotion", "admitted", TRUE) \in LedgerRow
                 /\ Admit(ledger[c], "promotion", "admitted", TRUE).status = ledger[c].status
                 /\ \/ Admit(ledger[c], "promotion", "admitted", TRUE).linked
                    \/ /\ "promotion" \in ledger[c].keys
                       /\ Admit(ledger[c], "promotion", "admitted", TRUE) = ledger[c]
        BY PromotionFacts DEF LedgerInv
    <2>2. \A c \in Candidates :
             ledger'[c] = IF c \in batch /\ Admissible(c)
                          THEN Admit(ledger[c], "promotion", "admitted", TRUE) ELSE ledger[c]
        BY DEF PromoteAll
    <2>3. ledger' \in [Candidates -> LedgerRow]
        BY <2>1, <2>2 DEF PromoteAll, LedgerInv
    <2>4. PromotedLinked(ledger)'
        <3> SUFFICES ASSUME ~Hazard("repeat"), NEW c \in Candidates, "promotion" \in ledger'[c].keys
                     PROVE  ledger'[c].status = "admitted" /\ ledger'[c].linked
            BY DEF PromotedLinked, Hazard
        <3>1. CASE c \in batch /\ Admissible(c)
            BY <2>1, <2>2, <3>1 DEF Admissible, LedgerInv, PromotedLinked
        <3>2. CASE ~(c \in batch /\ Admissible(c))
            BY <2>2, <3>2 DEF LedgerInv, PromotedLinked
        <3> QED BY <3>1, <3>2
    <2> QED BY <2>3, <2>4 DEF LedgerInv
<1> QED BY <1>1, <1>2

LEMMA DecisionKeeps ==
    ASSUME ProjectInv, CycleInv, NEW p \in Projects, NEW claim \in 0 .. MaxClaim,
           RecordDecision(p, claim)
    PROVE  ProjectInv' /\ CycleInv'
<1> DEFINE d == EnforcedDepth(p, claim)
<1>1. /\ queue[p] = "completed" /\ decided[p] = None
      /\ decided' = [decided EXCEPT ![p] = d]
      /\ UNCHANGED <<queue, depth, launched, cycle>>
    BY DEF RecordDecision
<1>2. depth[p] \in Depths /\ p[2] <= depth[p]
    BY <1>1 DEF ProjectInv, Deepening
<1>3. d \in Depths /\ p[2] <= d
    BY <1>2, BoundFacts DEF EnforcedDepth, Depths
<1> HIDE DEF d
<1>4. ProjectInv'
    BY <1>1, <1>3 DEF ProjectInv, Deepening
<1>5. CycleInv'
    <2>1. \A i \in Cycles : Sound(cycle[i])'
        BY <1>1 DEF CycleInv, Sound, ProjectInv
    <2> QED BY <1>1, <2>1 DEF CycleInv
<1> QED BY <1>4, <1>5

-----------------------------------------------------------------------------
(* Cycles *)

\* A cycle that writes nothing but its own plan.
LEMMA PlanningKeeps ==
    ASSUME ResearchInv, NEW i \in Cycles, UNCHANGED <<projects, ledger, setup>>,
           \E f : Sound(f) /\ cycle' = [cycle EXCEPT ![i] = f]
    PROVE  ResearchInv'
BY ProjectsKept, LedgerKept, CycleKeeps DEF ResearchInv, projects

LEMMA BeginKeeps ==
    ASSUME ResearchInv, NEW i \in Cycles, BeginCycle(i)
    PROVE  ResearchInv'
<1> DEFINE lanes == ActiveLanes
           new == [cycle[i] EXCEPT !.at = "plan", !.busy = lanes]
<1>1. lanes \in SUBSET Lanes
    BY BoundFacts DEF ActiveLanes
<1>2. cycle' = [cycle EXCEPT ![i] = new]
    BY Zenon DEF BeginCycle, ResearchInv, CycleInv
<1> HIDE DEF lanes
<1>3. new \in CycleRow /\ new.at = "plan"
    BY <1>1, Zenon DEF ResearchInv, CycleInv, CycleRow, Phases
<1> HIDE DEF new
<1>4. Sound(new) /\ UNCHANGED <<projects, ledger, setup>>
    BY <1>3 DEF Sound, BeginCycle
<1> QED BY <1>2, <1>4, PlanningKeeps

\* The janitor's rows.
LEMMA JanitorFacts ==
    ASSUME LedgerInv, NEW rows \in JanitorOutcomes
    PROVE  rows \in [Candidates -> LedgerRow] /\ PromotedLinked(rows)
<1>1. PICK s \in SUBSET Candidates :
         rows = [c \in Candidates |-> IF c \in s THEN Reviewed(ledger[c]) ELSE ledger[c]]
    BY DEF JanitorOutcomes
<1>2. \A c \in Candidates : ledger[c] \in LedgerRow
    BY DEF LedgerInv
<1>3. rows \in [Candidates -> LedgerRow]
    BY <1>1, <1>2, ReviewedFacts
<1>4. PromotedLinked(rows)
    BY <1>1, <1>2, ReviewedFacts DEF LedgerInv, PromotedLinked
<1> QED BY <1>3, <1>4

LEMMA PlanKeeps ==
    ASSUME ResearchInv, NEW i \in Cycles, Plan(i)
    PROVE  ResearchInv'
<1> DEFINE lack == Deficits
<1>1. PICK rows \in JanitorOutcomes, todo \in IdleLaneCandidates(cycle[i].busy) :
      \E target \in Targets(rows) :
         /\ ledger' = rows
         /\ \/ Finish(i)
            \/ cycle' = [cycle EXCEPT ![i].at = "idle_lanes", ![i].todo = todo,
                                      ![i].deficit = lack, ![i].target = target]
    BY DEF Plan
<1>2. PICK target \in Targets(rows) :
         /\ ledger' = rows
         /\ \/ Finish(i)
            \/ cycle' = [cycle EXCEPT ![i].at = "idle_lanes", ![i].todo = todo,
                                      ![i].deficit = lack, ![i].target = target]
    BY <1>1
<1>3. todo \in SUBSET Projects
    BY DEF IdleLaneCandidates, QueuedIn
<1>4. target \in Lanes \cup {None}
    BY DEF Targets
<1>5. lack \in [Lanes -> 0 .. MinDepth]
    BY DeficitFacts
<1>6. UNCHANGED <<projects, setup>> /\ decided' = decided
    BY DEF Plan, projects
<1> HIDE DEF lack
<1>7. LedgerInv'
    BY <1>2, <1>6, JanitorFacts DEF ResearchInv, LedgerInv, PromotedLinked, Hazard
<1>8. CycleInv'
    <2>1. CASE Finish(i)
        BY <1>6, <2>1, FinishFacts, CycleKeeps DEF ResearchInv
    <2>2. CASE ~Finish(i)
        <3> DEFINE new == [cycle[i] EXCEPT !.at = "idle_lanes", !.todo = todo,
                                           !.deficit = lack, !.target = target]
        <3>1. cycle' = [cycle EXCEPT ![i] = new]
            BY <1>2, <2>2, Zenon DEF ResearchInv, CycleInv
        <3>2. new \in CycleRow /\ new.at = "idle_lanes"
            BY <1>3, <1>4, <1>5, Zenon DEF ResearchInv, CycleInv, CycleRow, Phases
        <3> HIDE DEF new
        <3>3. Sound(new)
            BY <3>2 DEF Sound
        <3> QED BY <1>6, <3>1, <3>3, CycleKeeps DEF ResearchInv
    <2> QED BY <2>1, <2>2
<1> QED BY <1>6, <1>7, <1>8, ProjectsKept DEF ResearchInv

LEMMA DispatchKeeps ==
    ASSUME ResearchInv, NEW i \in Cycles, NEW p \in Projects,
           Dispatch(i, p) \/ DispatchRefused(i, p) \/ DispatchFails(i, p)
    PROVE  ResearchInv'
<1>1. cycle[i] \in CycleRow
    BY DEF ResearchInv, CycleInv
<1> DEFINE todo == cycle[i].todo \ {p}
           count == cycle[i].count + 1
<1>2. todo \in SUBSET Projects /\ count \in Nat
    BY <1>1 DEF CycleRow
<1>3. CASE Dispatch(i, p)
    <2> DEFINE new == [cycle[i] EXCEPT !.todo = todo, !.count = count]
    <2>1. cycle' = [cycle EXCEPT ![i] = new]
        BY <1>3, Zenon DEF Dispatch, ResearchInv, CycleInv
    <2>2. cycle[i].at \in {"idle_lanes", "launched", "promoted", "wait"}
        BY <1>3 DEF Dispatch, MayDispatch
    <2> HIDE DEF todo, count
    <2>3. new \in CycleRow /\ new.at = cycle[i].at
        BY <1>1, <1>2, Zenon DEF CycleRow
    <2> HIDE DEF new
    <2>4. Sound(new)
        BY <2>2, <2>3 DEF Sound
    <2>5. decided' = decided /\ UNCHANGED <<ledger, setup>>
        BY <1>3 DEF Dispatch
    <2>6. ProjectInv'
        BY <1>3, StatusKeeps DEF Dispatch, QueueStatuses, ResearchInv
    <2> QED BY <2>1, <2>4, <2>5, <2>6, CycleKeeps, LedgerKept DEF ResearchInv
<1>4. CASE DispatchRefused(i, p)
    <2> DEFINE new == [cycle[i] EXCEPT !.todo = todo]
    <2>1. cycle' = [cycle EXCEPT ![i] = new]
        BY <1>4 DEF DispatchRefused, ResearchInv, CycleInv
    <2>2. cycle[i].at \in {"idle_lanes", "launched", "promoted", "wait"}
        BY <1>4 DEF DispatchRefused, MayDispatch
    <2> HIDE DEF todo
    <2>3. new \in CycleRow /\ new.at = cycle[i].at
        BY <1>1, <1>2, Zenon DEF CycleRow
    <2> HIDE DEF new
    <2>4. Sound(new) /\ UNCHANGED <<projects, ledger, setup>>
        BY <1>4, <2>2, <2>3 DEF Sound, DispatchRefused
    <2> QED BY <2>1, <2>4, PlanningKeeps
<1>5. CASE DispatchFails(i, p)
    <2>1. PICK s \in {"queued", "blocked"} : queue' = [queue EXCEPT ![p] = s]
        BY <1>5 DEF DispatchFails
    <2>2. /\ queue[p] = "queued" /\ Finish(i) /\ UNCHANGED <<depth, decided, launched>>
          /\ UNCHANGED <<ledger, setup>>
        BY <1>5 DEF DispatchFails
    <2>3. ProjectInv'
        BY <2>1, <2>2, StatusKeeps DEF QueueStatuses, ResearchInv
    <2>4. CycleInv'
        BY <2>2, FinishFacts, CycleKeeps DEF ResearchInv
    <2> QED BY <2>2, <2>3, <2>4, LedgerKept DEF ResearchInv
<1> QED BY <1>3, <1>4, <1>5

LEMMA RefilledFacts ==
    ASSUME ResearchInv, NEW i \in Cycles, NEW todo \in SUBSET Projects,
           NEW phase \in Phases \ {"idle", "launch"},
           cycle' = [cycle EXCEPT ![i].at = phase, ![i].todo = todo]
    PROVE  \E f : Sound(f) /\ cycle' = [cycle EXCEPT ![i] = f]
<1> DEFINE new == [cycle[i] EXCEPT !.at = phase, !.todo = todo]
<1>1. cycle' = [cycle EXCEPT ![i] = new]
    BY Zenon DEF ResearchInv, CycleInv
<1>2. new \in CycleRow /\ new.at = phase
    BY Zenon DEF ResearchInv, CycleInv, CycleRow
<1> HIDE DEF new
<1> QED BY <1>1, <1>2 DEF Sound

LEMMA DispatchedKeeps ==
    ASSUME ResearchInv, NEW i \in Cycles, NEW phase,
           NEW next \in {"followup", "generate", "wait"}, Dispatched(i, phase, next)
    PROVE  ResearchInv'
<1>1. /\ cycle' = [cycle EXCEPT ![i].at = next, ![i].todo = {}]
      /\ UNCHANGED <<projects, ledger, setup>>
    BY DEF Dispatched
<1>2. next \in Phases \ {"idle", "launch"} /\ {} \in SUBSET Projects
    BY DEF Phases
<1> QED BY <1>1, <1>2, RefilledFacts, PlanningKeeps

LEMMA FollowupKeeps ==
    ASSUME ResearchInv, NEW i \in Cycles, ReadFollowup(i) \/ LaunchFollowup(i)
    PROVE  ResearchInv'
<1>1. CASE ReadFollowup(i)
    <2>1. UNCHANGED <<projects, ledger, setup>>
        BY <1>1 DEF ReadFollowup
    <2>2. CASE MoveTo(i, "generate")
        BY <2>1, <2>2, MovedFacts, PlanningKeeps DEF Phases, ResearchInv
    <2>3. CASE ~MoveTo(i, "generate")
        <3>1. PICK p \in Projects :
                 /\ FollowupReady(p)
                 /\ cycle' = [cycle EXCEPT ![i].at = "launch", ![i].parent = p]
            BY <1>1, <2>3 DEF ReadFollowup
        <3> DEFINE new == [cycle[i] EXCEPT !.at = "launch", !.parent = p]
        <3>2. cycle' = [cycle EXCEPT ![i] = new]
            BY <3>1, Zenon DEF ResearchInv, CycleInv
        <3>3. new \in CycleRow /\ new.at = "launch" /\ new.parent = p
            BY Zenon DEF ResearchInv, CycleInv, CycleRow, Phases
        <3> HIDE DEF new
        <3>4. Sound(new)
            BY <3>1, <3>3 DEF Sound, FollowupReady
        <3> QED BY <2>1, <3>2, <3>4, PlanningKeeps
    <2> QED BY <2>2, <2>3
<1>2. CASE LaunchFollowup(i)
    <2> DEFINE p == cycle[i].parent
               todo == {NextOf(p)}
    <2>1. p \in Projects /\ decided[p] # None /\ decided[p] < MaxDepth
        BY <1>2 DEF LaunchFollowup, At, ResearchInv, CycleInv, Sound
    <2>2. UNCHANGED <<ledger, setup>>
        BY <1>2 DEF LaunchFollowup
    <2>3. CASE LaunchConflict(p)
        <3>1. Finish(i) /\ UNCHANGED projects
            BY <1>2, <2>3 DEF LaunchFollowup
        <3> QED BY <2>2, <3>1, FinishFacts, PlanningKeeps
    <2>4. CASE ~LaunchConflict(p)
        <3>1. /\ Launch(p)
              /\ cycle' = [cycle EXCEPT ![i].at = "launched", ![i].todo = todo]
            BY <1>2, <2>4 DEF LaunchFollowup
        <3>2. ProjectInv' /\ decided' = decided
            BY <2>1, <3>1, LaunchKeeps DEF ResearchInv, Launch
        <3>3. todo \in SUBSET Projects
            <4>1. decided[p] \in Nat /\ p[2] <= decided[p] /\ p[2] \in Nat
                BY <2>1, BoundFacts DEF ResearchInv, ProjectInv, Deepening, Depths
            <4>2. p[2] <= MaxDepth
                BY <2>1, <4>1, BoundFacts
            <4> QED BY <2>1, <4>2, NextFacts
        <3>4. "launched" \in Phases \ {"idle", "launch"}
            BY DEF Phases
        <3> HIDE DEF todo
        <3>5. CycleInv'
            BY <3>1, <3>2, <3>3, <3>4, RefilledFacts, CycleKeeps DEF ResearchInv
        <3> QED BY <2>2, <3>2, <3>5, LedgerKept DEF ResearchInv
    <2> QED BY <2>3, <2>4
<1> QED BY <1>1, <1>2

\* A fresh candidate has not been promoted; a repeated one is the hazard.
LEMMA GenerateKeeps ==
    ASSUME ResearchInv, NEW i \in Cycles, Generate(i)
    PROVE  ResearchInv'
<1>1. UNCHANGED <<projects, setup>> /\ decided' = decided
    BY DEF Generate, projects
<1>2. CycleInv'
    <2>1. MoveTo(i, "promoted") \/ MoveTo(i, "select")
        BY DEF Generate
    <2>2. \E f : Sound(f) /\ cycle' = [cycle EXCEPT ![i] = f]
        BY <2>1, MovedFacts DEF Phases, ResearchInv
    <2> QED BY <1>1, <2>2, CycleKeeps DEF ResearchInv
<1>3. LedgerInv'
    <2>1. CASE ledger' = ledger
        BY <1>1, <2>1, LedgerKept DEF ResearchInv
    <2>2. CASE ledger' # ledger
        <3>1. PICK batch \in SUBSET setup.supply :
                 /\ Hazard("repeat") \/ \A c \in batch : ledger[c].status = "none"
                 /\ \E decision \in [batch -> Decisions] :
                       ledger' = [c \in Candidates |->
                                     IF c \in batch THEN Recorded(ledger[c], decision[c])
                                     ELSE ledger[c]]
            BY <2>2 DEF Generate
        <3>2. PICK decision \in [batch -> Decisions] :
                 ledger' = [c \in Candidates |->
                               IF c \in batch THEN Recorded(ledger[c], decision[c])
                               ELSE ledger[c]]
            BY <3>1
        <3>3. \A c \in Candidates : ledger[c] \in LedgerRow
            BY DEF ResearchInv, LedgerInv
        <3>4. \A c \in batch \cap Candidates : Recorded(ledger[c], decision[c]) \in LedgerRow
            BY <3>3, RecordedFacts
        <3>5. ledger' \in [Candidates -> LedgerRow]
            BY <3>2, <3>3, <3>4
        <3>6. PromotedLinked(ledger)'
            <4> SUFFICES ASSUME ~Hazard("repeat"), NEW c \in Candidates,
                                "promotion" \in ledger'[c].keys
                         PROVE  ledger'[c].status = "admitted" /\ ledger'[c].linked
                BY <1>1 DEF PromotedLinked, Hazard
            <4>1. CASE c \in batch
                <5>1. ledger'[c].keys = ledger[c].keys \cup {decision[c]}
                    <6>1. decision[c] \in Decisions /\ ledger[c] \in LedgerRow
                        BY <3>3, <4>1
                    <6>2. ledger'[c] = Recorded(ledger[c], decision[c])
                        BY <3>2, <4>1
                    <6> QED BY <6>1, <6>2, RecordedFacts
                <5>2. "promotion" \in ledger[c].keys
                    BY <4>1, <5>1 DEF Decisions
                <5>3. ledger[c].status = "admitted"
                    BY <5>2 DEF ResearchInv, LedgerInv, PromotedLinked
                <5> QED BY <3>1, <4>1, <5>3
            <4>2. CASE c \notin batch
                BY <3>2, <4>2 DEF ResearchInv, LedgerInv, PromotedLinked
            <4> QED BY <4>1, <4>2
        <3> QED BY <3>5, <3>6 DEF LedgerInv
    <2> QED BY <2>1, <2>2
<1> QED BY <1>1, <1>2, <1>3, ProjectsKept DEF ResearchInv

LEMMA SelectKeeps ==
    ASSUME ResearchInv, NEW i \in Cycles, Select(i) \/ Refill(i)
    PROVE  ResearchInv'
<1>1. UNCHANGED <<projects, ledger, setup>>
    BY DEF Select, Refill
<1>2. CASE Select(i)
    <2>1. PICK s \in Selections(i) :
             cycle' = [cycle EXCEPT ![i].at = "promote", ![i].todo = {<<c, 0>> : c \in s}]
        BY <1>2 DEF Select
    <2> DEFINE todo == {<<c, 0>> : c \in s}
    <2>2. todo \in SUBSET Projects
        BY BoundFacts DEF Selections
    <2>3. "promote" \in Phases \ {"idle", "launch"}
        BY DEF Phases
    <2>4. cycle' = [cycle EXCEPT ![i].at = "promote", ![i].todo = todo]
        BY <2>1
    <2> HIDE DEF todo
    <2> QED BY <1>1, <2>2, <2>3, <2>4, RefilledFacts, PlanningKeeps
<1>3. CASE Refill(i)
    <2>1. PICK todo \in IdleLaneCandidates(ActiveLanes) :
             cycle' = [cycle EXCEPT ![i].todo = todo]
        BY <1>3 DEF Refill
    <2>2. todo \in SUBSET Projects
        BY DEF IdleLaneCandidates, QueuedIn
    <2> DEFINE new == [cycle[i] EXCEPT !.todo = todo]
    <2>3. cycle' = [cycle EXCEPT ![i] = new]
        BY <2>1 DEF ResearchInv, CycleInv
    <2>4. cycle[i].at = "wait"
        BY <1>3 DEF Refill, At
    <2>5. new \in CycleRow /\ new.at = cycle[i].at
        BY <2>2, Zenon DEF ResearchInv, CycleInv, CycleRow
    <2> HIDE DEF new
    <2>6. Sound(new)
        BY <2>4, <2>5 DEF Sound
    <2> QED BY <1>1, <2>3, <2>6, PlanningKeeps
<1> QED BY <1>2, <1>3

LEMMA PromoteKeeps ==
    ASSUME ResearchInv, NEW i \in Cycles, Promote(i)
    PROVE  ResearchInv'
<1> DEFINE batch == {p[1] : p \in cycle[i].todo}
<1>1. batch \in SUBSET Candidates
    BY BoundFacts DEF ResearchInv, CycleInv, CycleRow
<1>2. UNCHANGED <<depth, decided, launched, setup>>
    BY DEF Promote
<1>3. CASE Finish(i) /\ UNCHANGED <<queue, ledger>>
    BY <1>2, <1>3, FinishFacts, PlanningKeeps DEF projects
<1>4. CASE PromoteAll(batch) /\ MoveTo(i, "promoted")
    <2>1. CycleInv'
        BY <1>2, <1>4, MovedFacts, CycleKeeps DEF Phases, ResearchInv
    <2> HIDE DEF batch
    <2>2. ProjectInv' /\ LedgerInv'
        BY <1>1, <1>2, <1>4, PromoteAllKeeps DEF ResearchInv
    <2> QED BY <1>2, <2>1, <2>2 DEF ResearchInv
<1> QED BY <1>3, <1>4 DEF Promote

-----------------------------------------------------------------------------
(* The invariant *)

LEMMA ResearchInit == Init => ResearchInv
<1> SUFFICES ASSUME Init PROVE ResearchInv
    OBVIOUS
<1>1. ProjectInv
    BY BoundFacts DEF Init, ProjectInv, Deepening, QueueStatuses
<1>2. LedgerInv
    <2> DEFINE row == [status |-> "none", latest |-> "none", linked |-> FALSE, keys |-> {}]
    <2>1. row \in LedgerRow /\ row.keys = {}
        BY DEF LedgerRow
    <2>2. ledger = [c \in Candidates |-> row]
        BY DEF Init
    <2> HIDE DEF row
    <2> QED BY <2>1, <2>2 DEF LedgerInv, PromotedLinked
<1>3. CycleInv
    BY IdleFacts DEF Init, CycleInv, Sound
<1> QED BY <1>1, <1>2, <1>3 DEF Init, ResearchInv

LEMMA CycleStepKeeps ==
    ASSUME ResearchInv, NEW i \in Cycles, CycleStep(i)
    PROVE  ResearchInv'
<1>1. CASE EndCycle(i)
    BY <1>1, FinishFacts, PlanningKeeps DEF EndCycle
<1>2. CASE \/ Dispatched(i, "idle_lanes", "followup") \/ Dispatched(i, "launched", "generate")
           \/ Dispatched(i, "promoted", "wait")
    BY <1>2, DispatchedKeeps
<1> QED BY <1>1, <1>2, PlanKeeps, DispatchKeeps, FollowupKeeps, GenerateKeeps, SelectKeeps,
           PromoteKeeps DEF CycleStep

\* Workers, callbacks and the operator.
LEMMA OthersKeep ==
    ASSUME ResearchInv, NEW p \in Projects,
           \/ Complete(p) \/ Requeue(p)
           \/ \E claim \in 0 .. MaxClaim : RecordDecision(p, claim)
           \/ OperatorLaunches(p) \/ OperatorDispatches(p)
    PROVE  ResearchInv'
<1>1. CASE Complete(p) \/ Requeue(p) \/ OperatorDispatches(p)
    <2>1. /\ queue[p] # "none" /\ UNCHANGED <<depth, decided, launched, ledger, cycle, setup>>
          /\ \E s \in QueueStatuses : queue' = [queue EXCEPT ![p] = s]
        BY <1>1 DEF Complete, Requeue, OperatorDispatches, QueueStatuses
    <2>2. ProjectInv'
        BY <2>1, StatusKeeps DEF ResearchInv
    <2> QED BY <2>1, <2>2, LedgerKept, CyclesKept DEF ResearchInv
<1>2. ASSUME NEW claim \in 0 .. MaxClaim, RecordDecision(p, claim) PROVE ResearchInv'
    BY <1>2, DecisionKeeps, LedgerKept DEF ResearchInv, RecordDecision
<1>3. CASE OperatorLaunches(p)
    <2>1. /\ decided[p] # None /\ decided[p] < MaxDepth /\ Launch(p)
          /\ UNCHANGED <<decided, ledger, cycle, setup>>
        BY <1>3 DEF OperatorLaunches, FollowupReady, Launch
    <2> QED BY <2>1, LaunchKeeps, LedgerKept, CyclesKept DEF ResearchInv
<1> QED BY <1>1, <1>2, <1>3

LEMMA ResearchStep == ResearchInv /\ [Next]_vars => ResearchInv'
<1> SUFFICES ASSUME ResearchInv, [Next]_vars PROVE ResearchInv'
    OBVIOUS
<1>1. ASSUME NEW c \in Candidates, OperatorPromotes(c) PROVE ResearchInv'
    <2>1. PromoteAll({c}) /\ UNCHANGED <<depth, decided, launched, cycle, setup>>
        BY <1>1 DEF OperatorPromotes
    <2>2. ProjectInv' /\ LedgerInv'
        BY <2>1, PromoteAllKeeps DEF ResearchInv
    <2> QED BY <2>1, <2>2, CyclesKept DEF ResearchInv
<1>2. CASE UNCHANGED vars
    BY <1>2, ProjectsKept, LedgerKept, CyclesKept DEF vars, projects, ResearchInv
<1> QED BY <1>1, <1>2, BeginKeeps, CycleStepKeeps, OthersKeep DEF Next

LEMMA ResearchInvariant == Spec => []ResearchInv
BY ResearchInit, ResearchStep, PTL DEF Spec

-----------------------------------------------------------------------------
(* The theorems *)

\* Every reachable state of the research cycle is well typed; an idle cycle
\* remembers nothing.
THEOREM TypeCorrect == Spec => []TypeOK
<1>1. ResearchInv => TypeOK
    BY DEF ResearchInv, ProjectInv, LedgerInv, CycleInv, Sound, TypeOK, Depths, LedgerRow,
           CycleRow, At
<1> QED BY <1>1, ResearchInvariant, PTL

\* Chains of follow-ups end at max_followup_depth, whatever depths the workers
\* claim, however cycles overlap and whoever launches.
THEOREM FollowupsEnd == Spec => []ChainsEnd
<1>1. ResearchInv => ChainsEnd
    BY DEF ResearchInv, ProjectInv, Deepening, ChainsEnd
<1> QED BY <1>1, ResearchInvariant, PTL

\* While no candidate is generated twice, a promoted one is not offered again.
THEOREM OfferedOnce == Spec => []PromotedOnce
<1>1. ResearchInv => PromotedOnce
    BY DEF ResearchInv, LedgerInv, PromotedLinked, PromotedOnce, PromotedNotOffered, Promotable
<1> QED BY <1>1, ResearchInvariant, PTL

\* No promotion and no launch puts a project that runs or has run back into the
\* queue, although both are decided on earlier reads.
THEOREM NothingRevived == Spec => NoRevival
<1>1. ResearchInv /\ [Next]_vars =>
         [\A p \in Projects :
             queue[p] \in {"active", "completed"} => queue'[p] # "queued"]_vars
    <2> SUFFICES ASSUME ResearchInv, Next, NEW p \in Projects,
                        queue[p] \in {"active", "completed"}
                 PROVE  queue'[p] # "queued"
        OBVIOUS
    <2>1. queue \in [Projects -> QueueStatuses]
        BY DEF ResearchInv, ProjectInv
    <2>2. ASSUME NEW batch, PromoteAll(batch) PROVE queue'[p] # "queued"
        BY <2>2 DEF PromoteAll
    <2>3. ASSUME NEW q, ~LaunchConflict(q), Launch(q) PROVE queue'[p] # "queued"
        BY <2>1, <2>3 DEF LaunchConflict, Launch
    <2>4. ASSUME NEW i \in Cycles, BeginCycle(i) \/ CycleStep(i) PROVE queue'[p] # "queued"
        <3>1. CASE Promote(i)
            BY <2>2, <3>1 DEF Promote
        <3>2. CASE LaunchFollowup(i)
            BY <2>3, <3>2 DEF LaunchFollowup, projects
        <3>3. ASSUME NEW q \in Projects,
                     Dispatch(i, q) \/ DispatchRefused(i, q) \/ DispatchFails(i, q)
              PROVE  queue'[p] # "queued"
            BY <2>1, <3>3 DEF Dispatch, DispatchRefused, DispatchFails, projects
        <3> QED BY <2>4, <3>1, <3>2, <3>3 DEF CycleStep, BeginCycle, Plan, Dispatched,
                    ReadFollowup, Generate, Select, Refill, EndCycle, projects
    <2>5. ASSUME NEW q \in Projects, OperatorLaunches(q) PROVE queue'[p] # "queued"
        BY <2>3, <2>5 DEF OperatorLaunches
    <2>6. ASSUME NEW q \in Projects,
                 \/ Complete(q) \/ Requeue(q) \/ OperatorDispatches(q)
                 \/ \E claim \in 0 .. MaxClaim : RecordDecision(q, claim)
          PROVE  queue'[p] # "queued"
        BY <2>1, <2>6 DEF Complete, Requeue, OperatorDispatches, RecordDecision
    <2>7. ASSUME NEW c \in Candidates, OperatorPromotes(c) PROVE queue'[p] # "queued"
        BY <2>2, <2>7 DEF OperatorPromotes
    <2> QED BY <2>4, <2>5, <2>6, <2>7 DEF Next
<1> QED BY <1>1, ResearchInvariant, PTL DEF Spec, NoRevival
-----------------------------------------------------------------------------
(***************************************************************************)
(* How many rows wait                                                      *)
(*                                                                         *)
(* A single undisturbed cycle plans once and may then write twice: a       *)
(* follow-up and a batch of promotions.  Between its plan and each of them *)
(* nobody else adds a row, so what a lane lacked it still lacks (Room): up *)
(* to the launch for all its rows, after it for its fresh ones, and for    *)
(* all with one more.                                                      *)
(***************************************************************************)
Waiting(q, l) == {p \in Projects : Lane(p) = l /\ q[p] = "queued"}
FreshWaiting(q, l) == {p \in Waiting(q, l) : p[2] = 0}
Toward(todo, l) == {p \in todo : Lane(p) = l}

Total(q, l) == Cardinality(Waiting(q, l))
Fresh(q, l) == Cardinality(FreshWaiting(q, l))

BeforeLaunch == {"idle_lanes", "followup", "launch"}
BeforePromotion == BeforeLaunch \cup {"launched", "generate", "select", "promote"}

\* What cycle f may still write fits the lanes of queue q.
Room(f, q) ==
    /\ f.at \in BeforePromotion =>
          \A l \in Lanes : f.deficit[l] > 0 =>
              /\ Fresh(q, l) + f.deficit[l] <= MinDepth
              /\ Total(q, l) + f.deficit[l] <= MinDepth + 1
    /\ f.at \in BeforeLaunch =>
          \A l \in Lanes : f.deficit[l] > 0 => Total(q, l) + f.deficit[l] <= MinDepth
    /\ f.at = "launch" => f.deficit[Lane(f.parent)] > 0
    /\ f.at = "promote" =>
          /\ \A p \in f.todo : p[2] = 0
          /\ \A l \in Lanes : Cardinality(Toward(f.todo, l)) <= f.deficit[l]

Level(q) == \A l \in Lanes : Fresh(q, l) <= MinDepth /\ Total(q, l) <= MinDepth + 1

Running == \A p \in Projects : queue[p] # "blocked"

Called == \A i \in Cycles : ~At(i, "idle") => i \in setup.calls

ShallowInv ==
    Undisturbed =>
        Running /\ Called /\ Level(queue) /\ \A i \in Cycles : Room(cycle[i], queue)

LEMMA CountFacts ==
    ASSUME NEW S \in SUBSET Projects
    PROVE  IsFiniteSet(S) /\ Cardinality(S) \in Nat
<1>1. IsFiniteSet(Projects)
    <2>1. IsFiniteSet(0 .. MaxDepth + 1)
        BY BoundFacts, FS_Interval
    <2> QED BY <2>1, CandidatesAssumption, FS_Product DEF Projects
<1> QED BY <1>1, FS_Subset, FS_CardinalityType

LEMMA WaitingFacts ==
    ASSUME NEW q, NEW l
    PROVE  Total(q, l) \in Nat /\ Fresh(q, l) \in Nat /\ Fresh(q, l) <= Total(q, l)
<1>1. /\ Waiting(q, l) \in SUBSET Projects
      /\ FreshWaiting(q, l) \in SUBSET Projects
      /\ FreshWaiting(q, l) \in SUBSET Waiting(q, l)
    BY DEF Waiting, FreshWaiting
<1>2. IsFiniteSet(Waiting(q, l)) /\ Total(q, l) \in Nat /\ Fresh(q, l) \in Nat
    BY <1>1, CountFacts DEF Total, Fresh
<1> QED BY <1>1, <1>2, FS_Subset DEF Total, Fresh

\* A set that is within the union of two has no more elements than they have.
LEMMA UnionBound ==
    ASSUME NEW S \in SUBSET Projects, NEW T \in SUBSET Projects, NEW U, U \subseteq S \cup T
    PROVE  Cardinality(U) <= Cardinality(S) + Cardinality(T)
<1>1. S \cup T \in SUBSET Projects /\ S \cap T \in SUBSET Projects /\ U \in SUBSET Projects
    OBVIOUS
<1>2. /\ IsFiniteSet(S) /\ IsFiniteSet(T) /\ IsFiniteSet(S \cup T)
      /\ Cardinality(S) \in Nat /\ Cardinality(T) \in Nat /\ Cardinality(U) \in Nat
      /\ Cardinality(S \cap T) \in Nat /\ Cardinality(S \cup T) \in Nat
    BY <1>1, CountFacts
<1>3. Cardinality(U) <= Cardinality(S \cup T)
    BY <1>2, FS_Subset
<1>4. Cardinality(S \cup T) = Cardinality(S) + Cardinality(T) - Cardinality(S \cap T)
    BY <1>2, FS_Union
<1> QED BY <1>2, <1>3, <1>4

\* Queue r has the rows of queue q, but for those of todo.
LEMMA MoreWaiting ==
    ASSUME NEW q, NEW r, NEW todo \in SUBSET Projects, NEW l,
           \A p \in Projects : r[p] = "queued" => q[p] = "queued" \/ p \in todo
    PROVE  /\ Total(r, l) <= Total(q, l) + Cardinality(Toward(todo, l))
           /\ Fresh(r, l) <= Fresh(q, l) + Cardinality(Toward(todo, l))
<1>1. /\ Waiting(r, l) \subseteq Waiting(q, l) \cup Toward(todo, l)
      /\ FreshWaiting(r, l) \subseteq FreshWaiting(q, l) \cup Toward(todo, l)
    BY DEF Waiting, FreshWaiting, Toward
<1>2. /\ Waiting(q, l) \in SUBSET Projects /\ FreshWaiting(q, l) \in SUBSET Projects
      /\ Toward(todo, l) \in SUBSET Projects
    BY DEF Waiting, FreshWaiting, Toward
<1> QED BY <1>1, <1>2, UnionBound DEF Total, Fresh

LEMMA FewerWaiting ==
    ASSUME NEW q, NEW r, \A p \in Projects : r[p] = "queued" => q[p] = "queued"
    PROVE  \A l : Total(r, l) <= Total(q, l) /\ Fresh(r, l) <= Fresh(q, l)
<1> SUFFICES ASSUME NEW l PROVE Total(r, l) <= Total(q, l) /\ Fresh(r, l) <= Fresh(q, l)
    OBVIOUS
<1>1. {} \in SUBSET Projects /\ Toward({}, l) = {} /\ Cardinality({}) = 0
    BY FS_EmptySet DEF Toward
<1>2. /\ Total(r, l) <= Total(q, l) + Cardinality(Toward({}, l))
      /\ Fresh(r, l) <= Fresh(q, l) + Cardinality(Toward({}, l))
    BY <1>1, MoreWaiting
<1> QED BY <1>1, <1>2, WaitingFacts

\* A follow-up counts for the rows of its lane, and for none of the fresh ones.
LEMMA OneMoreWaiting ==
    ASSUME NEW q, NEW r, NEW child \in Projects, child[2] > 0,
           \A p \in Projects : r[p] = "queued" => q[p] = "queued" \/ p = child
    PROVE  \A l : /\ Total(r, l) <= Total(q, l) + 1
                  /\ l # Lane(child) => Total(r, l) <= Total(q, l)
                  /\ Fresh(r, l) <= Fresh(q, l)
<1> SUFFICES ASSUME NEW l
             PROVE  /\ Total(r, l) <= Total(q, l) + 1
                    /\ l # Lane(child) => Total(r, l) <= Total(q, l)
                    /\ Fresh(r, l) <= Fresh(q, l)
    OBVIOUS
<1>1. Total(q, l) \in Nat /\ Fresh(q, l) \in Nat /\ Total(r, l) \in Nat /\ Fresh(r, l) \in Nat
    BY WaitingFacts
<1>2. Total(r, l) <= Total(q, l) + Cardinality(Toward({child}, l))
    BY MoreWaiting
<1>3. Fresh(r, l) <= Fresh(q, l)
    <2>1. FreshWaiting(r, l) \in SUBSET FreshWaiting(q, l) /\ FreshWaiting(q, l) \in SUBSET Projects
        BY DEF Waiting, FreshWaiting
    <2>2. IsFiniteSet(FreshWaiting(q, l))
        BY <2>1, CountFacts
    <2> QED BY <2>1, <2>2, FS_Subset DEF Fresh
<1>4. CASE l = Lane(child)
    <2>1. Toward({child}, l) = {child}
        BY <1>4 DEF Toward
    <2>2. Cardinality(Toward({child}, l)) = 1
        BY <2>1, FS_Singleton
    <2> QED BY <1>1, <1>2, <1>3, <1>4, <2>2
<1>5. CASE l # Lane(child)
    <2>1. Toward({child}, l) = {}
        BY <1>5 DEF Toward
    <2>2. Cardinality(Toward({child}, l)) = 0
        BY <2>1, FS_EmptySet
    <2> QED BY <1>1, <1>2, <1>3, <2>2
<1> QED BY <1>4, <1>5

\* Fewer rows leave more room.
LEMMA RoomGrows ==
    ASSUME NEW f, f.deficit \in [Lanes -> 0 .. MinDepth], NEW q, NEW r, Room(f, q),
           \A l : Total(r, l) <= Total(q, l) /\ Fresh(r, l) <= Fresh(q, l)
    PROVE  Room(f, r)
<1>1. \A l \in Lanes :
         /\ Total(q, l) \in Nat /\ Fresh(q, l) \in Nat
         /\ Total(r, l) \in Nat /\ Fresh(r, l) \in Nat
         /\ f.deficit[l] \in Nat
    BY WaitingFacts, BoundFacts
<1> QED BY <1>1, BoundFacts DEF Room

LEMMA LevelKept ==
    ASSUME NEW q, NEW r, Level(q),
           \A l : Total(r, l) <= Total(q, l) /\ Fresh(r, l) <= Fresh(q, l)
    PROVE  Level(r)
BY WaitingFacts, BoundFacts DEF Level

\* A step of cycle i, while the others are idle.
LEMMA ShallowKeeps ==
    ASSUME ShallowInv, NEW i \in Cycles, setup' = setup,
           Undisturbed =>
              /\ i \in setup.calls
              /\ \A j \in Cycles : j # i => cycle'[j] = cycle[j]
              /\ Running' /\ Level(queue') /\ Room(cycle'[i], queue')
    PROVE  ShallowInv'
<1> SUFFICES ASSUME Undisturbed
             PROVE  Running' /\ Called' /\ Level(queue')
                    /\ \A j \in Cycles : Room(cycle'[j], queue')
    BY DEF ShallowInv, Undisturbed
<1>1. \A j \in Cycles : j # i => cycle'[j].at = "idle"
    BY DEF ShallowInv, Undisturbed, Called, At
<1>2. Called'
    BY <1>1 DEF Called, At
<1>3. \A j \in Cycles : j # i => Room(cycle'[j], queue')
    BY <1>1 DEF Room, BeforePromotion, BeforeLaunch
<1> QED BY <1>2, <1>3

\* A step of cycle i that writes no row.
LEMMA ReadingKeeps ==
    ASSUME ShallowInv, NEW i \in Cycles, UNCHANGED <<queue, setup>>,
           Undisturbed =>
              /\ i \in setup.calls
              /\ \A j \in Cycles : j # i => cycle'[j] = cycle[j]
              /\ Room(cycle'[i], queue)
    PROVE  ShallowInv'
<1>1. ASSUME Undisturbed PROVE Running' /\ Level(queue') /\ Room(cycle'[i], queue')
    BY <1>1 DEF ShallowInv, Running
<1> QED BY <1>1, ShallowKeeps

LEMMA ShallowInit == Init => ShallowInv
<1> SUFFICES ASSUME Init PROVE ShallowInv
    OBVIOUS
<1>1. \A i \in Cycles : cycle[i].at = "idle"
    BY IdleFacts DEF Init
<1>2. \A p \in Projects : queue[p] = "none"
    BY DEF Init
<1>3. Level(queue)
    <2> SUFFICES ASSUME NEW l \in Lanes
                 PROVE  Fresh(queue, l) <= MinDepth /\ Total(queue, l) <= MinDepth + 1
        BY DEF Level
    <2>1. Waiting(queue, l) = {} /\ FreshWaiting(queue, l) = {}
        BY <1>2 DEF Waiting, FreshWaiting
    <2> QED BY <2>1, FS_EmptySet, BoundFacts DEF Total, Fresh
<1> QED BY <1>1, <1>2, <1>3 DEF ShallowInv, Running, Called, At, Room, BeforePromotion,
                              BeforeLaunch

\* What a step leaves of the plan of a cycle.
LEMMA MovedPlan ==
    ASSUME ResearchInv, NEW i \in Cycles, NEW phase, MoveTo(i, phase)
    PROVE  /\ \A j \in Cycles : j # i => cycle'[j] = cycle[j]
           /\ cycle'[i].at = phase
           /\ cycle'[i].deficit = cycle[i].deficit /\ cycle'[i].todo = cycle[i].todo
BY DEF MoveTo, ResearchInv, CycleInv, CycleRow

LEMMA FinishedPlan ==
    ASSUME ResearchInv, NEW i \in Cycles, Finish(i)
    PROVE  /\ \A j \in Cycles : j # i => cycle'[j] = cycle[j]
           /\ cycle'[i].at = "idle"
BY IdleFacts DEF Finish, ResearchInv, CycleInv

\* Past the promotion a cycle adds no row.
LEMMA NoMoreRoom ==
    ASSUME NEW f, f.at \in {"idle", "plan", "promoted", "wait"}, NEW q
    PROVE  Room(f, q)
BY DEF Room, BeforePromotion, BeforeLaunch

LEMMA DeficitTypes ==
    ASSUME ResearchInv, NEW i \in Cycles
    PROVE  cycle[i].deficit \in [Lanes -> 0 .. MinDepth]
BY DEF ResearchInv, CycleInv, CycleRow

\* The plan counts what waits and lacks no more than is missing.
LEMMA PlannedRoom ==
    ASSUME NEW f, f.at = "idle_lanes", f.deficit = Deficits
    PROVE  Room(f, queue)
<1> SUFFICES ASSUME NEW l \in Lanes, f.deficit[l] > 0
             PROVE  /\ Fresh(queue, l) + f.deficit[l] <= MinDepth
                    /\ Total(queue, l) + f.deficit[l] <= MinDepth + 1
                    /\ Total(queue, l) + f.deficit[l] <= MinDepth
    BY DEF Room
<1>1. QueuedIn(l) = Waiting(queue, l)
    BY DEF QueuedIn, Waiting
<1>2. f.deficit[l] = IF Total(queue, l) < MinDepth THEN MinDepth - Total(queue, l) ELSE 0
    BY <1>1 DEF Deficits, Total
<1> QED BY <1>2, WaitingFacts, BoundFacts

LEMMA BeginShallow ==
    ASSUME ResearchInv, ShallowInv, NEW i \in Cycles, BeginCycle(i)
    PROVE  ShallowInv'
<1>1. i \in setup.calls /\ UNCHANGED <<queue, setup>>
    BY DEF BeginCycle, projects
<1>2. cycle'[i].at = "plan" /\ \A j \in Cycles : j # i => cycle'[j] = cycle[j]
    BY DEF BeginCycle, ResearchInv, CycleInv, CycleRow
<1>3. Room(cycle'[i], queue)
    BY <1>2, NoMoreRoom
<1> QED BY <1>1, <1>2, <1>3, ReadingKeeps

LEMMA PlanShallow ==
    ASSUME ResearchInv, ShallowInv, NEW i \in Cycles, Plan(i), i \in setup.calls
    PROVE  ShallowInv'
<1>1. UNCHANGED <<queue, setup>>
    BY DEF Plan, projects
<1>2. CASE Finish(i)
    BY <1>1, <1>2, FinishedPlan, NoMoreRoom, ReadingKeeps
<1>3. CASE ~Finish(i)
    <2> DEFINE lack == Deficits
    <2>1. PICK todo, target :
             cycle' = [cycle EXCEPT ![i].at = "idle_lanes", ![i].todo = todo,
                                    ![i].deficit = lack, ![i].target = target]
        BY <1>3 DEF Plan
    <2> HIDE DEF lack
    <2>2. /\ cycle'[i].at = "idle_lanes" /\ cycle'[i].deficit = lack
          /\ \A j \in Cycles : j # i => cycle'[j] = cycle[j]
        BY <2>1 DEF ResearchInv, CycleInv, CycleRow
    <2>3. Room(cycle'[i], queue)
        BY <2>2, PlannedRoom DEF lack
    <2> QED BY <1>1, <2>2, <2>3, ReadingKeeps
<1> QED BY <1>2, <1>3

LEMMA DispatchShallow ==
    ASSUME ResearchInv, ShallowInv, NEW i \in Cycles, i \in setup.calls, NEW p \in Projects,
           Dispatch(i, p) \/ DispatchRefused(i, p) \/ DispatchFails(i, p)
    PROVE  ShallowInv'
<1>1. ASSUME Undisturbed, DispatchFails(i, p) PROVE FALSE
    BY <1>1 DEF Undisturbed, DispatchFails, Hazard
<1>2. setup' = setup
    BY DEF Dispatch, DispatchRefused, DispatchFails
<1>3. CASE Dispatch(i, p) \/ DispatchRefused(i, p)
    <2>1. /\ \A j \in Cycles : j # i => cycle'[j] = cycle[j]
          /\ cycle'[i].at = cycle[i].at /\ cycle'[i].deficit = cycle[i].deficit
        BY <1>3 DEF Dispatch, DispatchRefused, ResearchInv, CycleInv, CycleRow
    <2>2. cycle[i].at \notin {"launch", "promote"}
        BY <1>3 DEF Dispatch, DispatchRefused, MayDispatch
    <2>3. /\ \A q \in Projects : queue'[q] = "queued" => queue[q] = "queued"
          /\ Running => Running'
        BY <1>3 DEF Dispatch, DispatchRefused, projects, ResearchInv, ProjectInv, Running
    <2>4. \A l : Total(queue', l) <= Total(queue, l) /\ Fresh(queue', l) <= Fresh(queue, l)
        BY <2>3, FewerWaiting
    <2>5. ASSUME Undisturbed PROVE Level(queue') /\ Room(cycle'[i], queue')
        <3>1. Level(queue) /\ Room(cycle[i], queue)
            BY <2>5 DEF ShallowInv
        <3>2. Room(cycle[i], queue')
            BY <2>4, <3>1, DeficitTypes, RoomGrows
        <3>3. Room(cycle'[i], queue')
            BY <2>1, <2>2, <3>2 DEF Room
        <3> QED BY <2>4, <3>1, <3>3, LevelKept
    <2> QED BY <1>2, <2>1, <2>3, <2>5, ShallowKeeps DEF ShallowInv
<1>4. CASE DispatchFails(i, p)
    BY <1>1, <1>2, <1>4 DEF ShallowInv, Undisturbed
<1> QED BY <1>3, <1>4

LEMMA DispatchedShallow ==
    ASSUME ResearchInv, ShallowInv, NEW i \in Cycles, i \in setup.calls,
           \/ Dispatched(i, "idle_lanes", "followup") \/ Dispatched(i, "launched", "generate")
           \/ Dispatched(i, "promoted", "wait")
    PROVE  ShallowInv'
<1>1. PICK next : /\ cycle' = [cycle EXCEPT ![i].at = next, ![i].todo = {}]
                  /\ \/ cycle[i].at = "idle_lanes" /\ next = "followup"
                     \/ cycle[i].at = "launched" /\ next = "generate"
                     \/ next = "wait"
    BY DEF Dispatched, At
<1>2. UNCHANGED <<queue, setup>>
    BY DEF Dispatched, projects
<1>3. /\ \A j \in Cycles : j # i => cycle'[j] = cycle[j]
      /\ cycle'[i].at = next /\ cycle'[i].deficit = cycle[i].deficit
    BY <1>1 DEF ResearchInv, CycleInv, CycleRow
<1>4. ASSUME Undisturbed PROVE Room(cycle'[i], queue)
    <2>1. Room(cycle[i], queue)
        BY <1>4 DEF ShallowInv
    <2> QED BY <1>1, <1>3, <2>1 DEF Room, BeforeLaunch, BeforePromotion
<1> QED BY <1>2, <1>3, <1>4, ReadingKeeps

LEMMA ReadFollowupShallow ==
    ASSUME ResearchInv, ShallowInv, NEW i \in Cycles, i \in setup.calls, ReadFollowup(i)
    PROVE  ShallowInv'
<1>1. cycle[i].at = "followup" /\ UNCHANGED <<queue, setup>>
    BY DEF ReadFollowup, At, projects
<1>2. CASE MoveTo(i, "generate")
    <2>1. ASSUME Undisturbed PROVE Room(cycle'[i], queue)
        <3>1. Room(cycle[i], queue)
            BY <2>1 DEF ShallowInv
        <3> QED BY <1>1, <1>2, <3>1, MovedPlan DEF Room, BeforeLaunch, BeforePromotion
    <2> QED BY <1>1, <1>2, <2>1, MovedPlan, ReadingKeeps
<1>3. CASE ~MoveTo(i, "generate")
    <2>1. PICK p \in Projects :
             /\ Launchable(i, p)
             /\ cycle' = [cycle EXCEPT ![i].at = "launch", ![i].parent = p]
        BY <1>3 DEF ReadFollowup
    <2>2. /\ \A j \in Cycles : j # i => cycle'[j] = cycle[j]
          /\ cycle'[i].at = "launch" /\ cycle'[i].deficit = cycle[i].deficit
          /\ cycle'[i].parent = p
        BY <2>1 DEF ResearchInv, CycleInv, CycleRow
    <2>3. ASSUME Undisturbed PROVE Room(cycle'[i], queue)
        <3>1. Room(cycle[i], queue) /\ cycle[i].deficit[Lane(p)] > 0
            BY <2>1, <2>3 DEF ShallowInv, Launchable
        <3> QED BY <1>1, <2>2, <3>1 DEF Room, BeforeLaunch, BeforePromotion
    <2> QED BY <1>1, <2>2, <2>3, ReadingKeeps
<1> QED BY <1>2, <1>3

\* A follow-up is launched for a lane that still lacks it.
LEMMA LaunchFollowupShallow ==
    ASSUME ResearchInv, ShallowInv, NEW i \in Cycles, i \in setup.calls, LaunchFollowup(i)
    PROVE  ShallowInv'
<1> DEFINE p == cycle[i].parent
           child == NextOf(p)
           todo == {child}
<1>1. cycle[i].at = "launch" /\ UNCHANGED <<ledger, setup>>
    BY DEF LaunchFollowup, At
<1>2. p \in Projects /\ decided[p] # None /\ decided[p] < MaxDepth
    BY <1>1 DEF ResearchInv, CycleInv, Sound
<1>3. CASE LaunchConflict(p)
    <2>1. Finish(i) /\ UNCHANGED queue
        BY <1>3 DEF LaunchFollowup, projects
    <2> QED BY <1>1, <2>1, FinishedPlan, NoMoreRoom, ReadingKeeps
<1>4. CASE ~LaunchConflict(p)
    <2>1. /\ queue' = [queue EXCEPT ![child] = "queued"]
          /\ cycle' = [cycle EXCEPT ![i].at = "launched", ![i].todo = todo]
        BY <1>4 DEF LaunchFollowup, Launch
    <2>2. child \in Projects /\ child[2] > 0 /\ Lane(child) = Lane(p)
        <3>1. decided[p] \in Nat /\ p[2] <= decided[p] /\ p[2] \in Nat
            BY <1>2, BoundFacts DEF ResearchInv, ProjectInv, Deepening, Depths
        <3>2. p[2] <= MaxDepth
            BY <1>2, <3>1, BoundFacts
        <3> QED BY <1>2, <3>1, <3>2, NextFacts DEF Lane, NextOf
    <2> HIDE DEF child, todo
    <2>3. /\ \A j \in Cycles : j # i => cycle'[j] = cycle[j]
          /\ cycle'[i].at = "launched" /\ cycle'[i].deficit = cycle[i].deficit
        BY <2>1 DEF ResearchInv, CycleInv, CycleRow
    <2>4. \A l : /\ Total(queue', l) <= Total(queue, l) + 1
                 /\ l # Lane(child) => Total(queue', l) <= Total(queue, l)
                 /\ Fresh(queue', l) <= Fresh(queue, l)
        BY <2>1, <2>2, OneMoreWaiting DEF ResearchInv, ProjectInv
    <2>5. ASSUME Undisturbed PROVE Running' /\ Level(queue') /\ Room(cycle'[i], queue')
        <3>1. Running /\ Level(queue) /\ Room(cycle[i], queue)
            BY <2>5 DEF ShallowInv
        <3>2. Running'
            BY <2>1, <3>1 DEF Running, ResearchInv, ProjectInv
        <3>3. /\ cycle[i].deficit[Lane(child)] > 0
              /\ \A l \in Lanes : cycle[i].deficit[l] > 0 =>
                    /\ Fresh(queue, l) + cycle[i].deficit[l] <= MinDepth
                    /\ Total(queue, l) + cycle[i].deficit[l] <= MinDepth
            BY <1>1, <2>2, <3>1 DEF Room, BeforeLaunch, BeforePromotion
        <3>4. ASSUME NEW l \in Lanes
              PROVE  /\ Fresh(queue', l) <= MinDepth /\ Total(queue', l) <= MinDepth + 1
                     /\ cycle[i].deficit[l] > 0 =>
                           /\ Fresh(queue', l) + cycle[i].deficit[l] <= MinDepth
                           /\ Total(queue', l) + cycle[i].deficit[l] <= MinDepth + 1
            <4>1. /\ Total(queue, l) \in Nat /\ Fresh(queue, l) \in Nat
                  /\ Total(queue', l) \in Nat /\ Fresh(queue', l) \in Nat
                BY WaitingFacts
            <4>2. cycle[i].deficit[l] \in 0 .. MinDepth
                BY DeficitTypes
            <4>3. Fresh(queue, l) <= MinDepth /\ Total(queue, l) <= MinDepth + 1
                BY <3>1 DEF Level
            <4>4. CASE l = Lane(child)
                BY <2>4, <3>3, <4>1, <4>2, <4>3, <4>4, BoundFacts
            <4>5. CASE l # Lane(child)
                BY <2>4, <3>3, <4>1, <4>2, <4>3, <4>5, BoundFacts
            <4> QED BY <4>4, <4>5
        <3>5. Level(queue')
            BY <3>4 DEF Level
        <3>6. Room(cycle'[i], queue')
            BY <2>3, <3>4 DEF Room, BeforeLaunch, BeforePromotion
        <3> QED BY <3>2, <3>5, <3>6
    <2> QED BY <1>1, <2>3, <2>5, ShallowKeeps
<1> QED BY <1>3, <1>4

LEMMA GenerateShallow ==
    ASSUME ResearchInv, ShallowInv, NEW i \in Cycles, i \in setup.calls, Generate(i)
    PROVE  ShallowInv'
<1>1. /\ cycle[i].at = "generate" /\ UNCHANGED <<queue, setup>>
      /\ MoveTo(i, "promoted") \/ MoveTo(i, "select")
    BY DEF Generate, At, projects
<1>2. PICK phase \in {"promoted", "select"} : MoveTo(i, phase)
    BY <1>1
<1>3. /\ \A j \in Cycles : j # i => cycle'[j] = cycle[j]
      /\ cycle'[i].at = phase /\ cycle'[i].deficit = cycle[i].deficit
    BY <1>2, MovedPlan
<1>4. ASSUME Undisturbed PROVE Room(cycle'[i], queue)
    <2>1. Room(cycle[i], queue)
        BY <1>4 DEF ShallowInv
    <2> QED BY <1>1, <1>3, <2>1 DEF Room, BeforeLaunch, BeforePromotion
<1> QED BY <1>1, <1>3, <1>4, ReadingKeeps

\* A selection has no more candidates of a lane than the lane lacks.
LEMMA SelectionFits ==
    ASSUME ResearchInv, NEW i \in Cycles, NEW s \in Selections(i), NEW l \in Lanes
    PROVE  Cardinality(Toward({<<c, 0>> : c \in s}, l)) <= cycle[i].deficit[l]
<1> DEFINE todo == {<<c, 0>> : c \in s}
           mine == {d \in s : LaneOf[d] = l}
           name == [p \in Toward(todo, l) |-> p[1]]
<1>1. /\ s \in SUBSET Candidates
      /\ \A c \in s : Cardinality({d \in s : LaneOf[d] = LaneOf[c]}) <= cycle[i].deficit[LaneOf[c]]
    BY DEF Selections, LaneLimit
<1>2. cycle[i].deficit[l] \in 0 .. MinDepth
    BY DeficitTypes
<1>3. CASE mine = {}
    <2>1. Toward(todo, l) = {}
        BY <1>3 DEF Toward, Lane
    <2> QED BY <1>2, <2>1, FS_EmptySet, BoundFacts
<1>4. CASE mine # {}
    <2>1. Cardinality(mine) <= cycle[i].deficit[l]
        BY <1>1, <1>4
    <2>2. name \in Injection(Toward(todo, l), mine)
        <3>1. name \in [Toward(todo, l) -> mine]
            BY DEF Toward, Lane
        <3>2. \A p, q \in Toward(todo, l) : name[p] = name[q] => p = q
            BY DEF Toward
        <3> QED BY <3>1, <3>2 DEF Injection, IsInjective
    <2>3. IsFiniteSet(mine) /\ Cardinality(mine) \in Nat
        BY <1>1, CandidatesAssumption, FS_Subset, FS_CardinalityType
    <2>4. /\ Cardinality(Toward(todo, l)) <= Cardinality(mine)
          /\ IsFiniteSet(Toward(todo, l))
        BY <2>2, <2>3, FS_Injection
    <2>5. Cardinality(Toward(todo, l)) \in Nat
        BY <2>4, FS_CardinalityType
    <2> QED BY <1>2, <2>1, <2>3, <2>4, <2>5, BoundFacts
<1> QED BY <1>3, <1>4

LEMMA SelectShallow ==
    ASSUME ResearchInv, ShallowInv, NEW i \in Cycles, i \in setup.calls, Select(i)
    PROVE  ShallowInv'
<1>1. PICK s \in Selections(i) :
         cycle' = [cycle EXCEPT ![i].at = "promote", ![i].todo = {<<c, 0>> : c \in s}]
    BY DEF Select
<1> DEFINE todo == {<<c, 0>> : c \in s}
<1>2. cycle[i].at = "select" /\ UNCHANGED <<queue, setup>>
    BY DEF Select, At, projects
<1>3. /\ \A p \in todo : p[2] = 0
      /\ \A l \in Lanes : Cardinality(Toward(todo, l)) <= cycle[i].deficit[l]
    BY SelectionFits
<1>4. cycle' = [cycle EXCEPT ![i].at = "promote", ![i].todo = todo]
    BY <1>1
<1> HIDE DEF todo
<1>5. /\ \A j \in Cycles : j # i => cycle'[j] = cycle[j]
      /\ cycle'[i].at = "promote" /\ cycle'[i].deficit = cycle[i].deficit
      /\ cycle'[i].todo = todo
    BY <1>4 DEF ResearchInv, CycleInv, CycleRow
<1>6. ASSUME Undisturbed PROVE Room(cycle'[i], queue)
    <2>1. Room(cycle[i], queue)
        BY <1>6 DEF ShallowInv
    <2> QED BY <1>2, <1>3, <1>5, <2>1 DEF Room, BeforeLaunch, BeforePromotion
<1> QED BY <1>2, <1>5, <1>6, ReadingKeeps

\* What is promoted was selected, for lanes that still lack it.
LEMMA PromoteShallow ==
    ASSUME ResearchInv, ShallowInv, NEW i \in Cycles, i \in setup.calls, Promote(i)
    PROVE  ShallowInv'
<1> DEFINE todo == cycle[i].todo
           batch == {p[1] : p \in todo}
<1>1. cycle[i].at = "promote" /\ setup' = setup /\ todo \in SUBSET Projects
    BY DEF Promote, At, ResearchInv, CycleInv, CycleRow
<1>2. CASE Finish(i) /\ UNCHANGED <<queue, ledger>>
    BY <1>1, <1>2, FinishedPlan, NoMoreRoom, ReadingKeeps
<1>3. CASE PromoteAll(batch) /\ MoveTo(i, "promoted")
    <2>1. /\ \A j \in Cycles : j # i => cycle'[j] = cycle[j]
          /\ cycle'[i].at = "promoted"
        BY <1>3, MovedPlan
    <2>2. \A p \in Projects :
             queue'[p] # queue[p] => queue'[p] = "queued" /\ p[2] = 0 /\ p[1] \in batch
        BY <1>3 DEF PromoteAll
    <2>3. ASSUME Undisturbed PROVE Running' /\ Level(queue')
        <3>1. Running /\ Level(queue) /\ Room(cycle[i], queue)
            BY <2>3 DEF ShallowInv
        <3>2. Running'
            BY <2>2, <3>1 DEF Running
        <3>3. \A p \in todo : p[2] = 0
            BY <1>1, <3>1 DEF Room
        <3>4. \A p \in Projects : p[2] = 0 /\ p[1] \in batch => p \in todo
            BY <1>1, <3>3 DEF Projects
        <3>5. \A p \in Projects : queue'[p] = "queued" => queue[p] = "queued" \/ p \in todo
            BY <2>2, <3>4
        <3> HIDE DEF batch
        <3>6. ASSUME NEW l \in Lanes
              PROVE  Fresh(queue', l) <= MinDepth /\ Total(queue', l) <= MinDepth + 1
            <4>1. /\ Total(queue', l) <= Total(queue, l) + Cardinality(Toward(todo, l))
                  /\ Fresh(queue', l) <= Fresh(queue, l) + Cardinality(Toward(todo, l))
                BY <1>1, <3>5, MoreWaiting
            <4>2. /\ Total(queue, l) \in Nat /\ Fresh(queue, l) \in Nat
                  /\ Total(queue', l) \in Nat /\ Fresh(queue', l) \in Nat
                BY WaitingFacts
            <4>3. Cardinality(Toward(todo, l)) \in Nat /\ cycle[i].deficit[l] \in 0 .. MinDepth
                <5>1. Toward(todo, l) \in SUBSET Projects
                    BY <1>1 DEF Toward
                <5> QED BY <5>1, CountFacts, DeficitTypes
            <4>4. /\ Cardinality(Toward(todo, l)) <= cycle[i].deficit[l]
                  /\ cycle[i].deficit[l] > 0 =>
                        /\ Fresh(queue, l) + cycle[i].deficit[l] <= MinDepth
                        /\ Total(queue, l) + cycle[i].deficit[l] <= MinDepth + 1
                BY <1>1, <3>1 DEF Room, BeforePromotion
            <4>5. Fresh(queue, l) <= MinDepth /\ Total(queue, l) <= MinDepth + 1
                BY <3>1 DEF Level
            <4> HIDE DEF todo
            <4> QED BY <4>1, <4>2, <4>3, <4>4, <4>5, BoundFacts
        <3> QED BY <3>2, <3>6 DEF Level
    <2>4. Room(cycle'[i], queue')
        BY <2>1, NoMoreRoom
    <2> QED BY <1>1, <2>1, <2>3, <2>4, ShallowKeeps
<1> QED BY <1>2, <1>3 DEF Promote

LEMMA WaitShallow ==
    ASSUME ResearchInv, ShallowInv, NEW i \in Cycles, i \in setup.calls, Refill(i) \/ EndCycle(i)
    PROVE  ShallowInv'
<1>1. UNCHANGED <<queue, setup>>
    BY DEF Refill, EndCycle, projects
<1>2. /\ \A j \in Cycles : j # i => cycle'[j] = cycle[j]
      /\ cycle'[i].at \in {"idle", "wait"}
    <2>1. CASE Refill(i)
        BY <2>1 DEF Refill, At, ResearchInv, CycleInv, CycleRow
    <2>2. CASE EndCycle(i)
        BY <2>2, FinishedPlan DEF EndCycle
    <2> QED BY <2>1, <2>2
<1>3. Room(cycle'[i], queue)
    BY <1>2, NoMoreRoom
<1> QED BY <1>1, <1>2, <1>3, ReadingKeeps

LEMMA CycleStepShallow ==
    ASSUME ResearchInv, ShallowInv, NEW i \in Cycles, CycleStep(i)
    PROVE  ShallowInv'
<1>1. setup' = setup /\ ~At(i, "idle")
    BY DEF CycleStep, Plan, Dispatch, DispatchRefused, DispatchFails, MayDispatch, Dispatched,
           ReadFollowup, LaunchFollowup, Generate, Select, Promote, Refill, EndCycle, At
<1>2. CASE i \in setup.calls
    BY <1>2, PlanShallow, DispatchShallow, DispatchedShallow, ReadFollowupShallow,
       LaunchFollowupShallow, GenerateShallow, SelectShallow, PromoteShallow, WaitShallow
       DEF CycleStep
<1>3. CASE i \notin setup.calls
    BY <1>1, <1>3 DEF ShallowInv, Called, Undisturbed
<1> QED BY <1>2, <1>3

\* A step of somebody else, which puts nothing into the queue.
LEMMA OutsideShallow ==
    ASSUME ResearchInv, ShallowInv, UNCHANGED <<cycle, setup>>,
           Undisturbed =>
              /\ Running => Running'
              /\ \A p \in Projects : queue'[p] = "queued" => queue[p] = "queued"
    PROVE  ShallowInv'
<1> SUFFICES ASSUME Undisturbed
             PROVE  Running' /\ Called' /\ Level(queue')
                    /\ \A i \in Cycles : Room(cycle[i], queue')
    BY DEF ShallowInv, Undisturbed
<1>1. Running /\ Called /\ Level(queue) /\ \A i \in Cycles : Room(cycle[i], queue)
    BY DEF ShallowInv
<1>2. \A l : Total(queue', l) <= Total(queue, l) /\ Fresh(queue', l) <= Fresh(queue, l)
    BY FewerWaiting
<1>3. \A i \in Cycles : Room(cycle[i], queue')
    BY <1>1, <1>2, DeficitTypes, RoomGrows
<1> QED BY <1>1, <1>2, <1>3, LevelKept DEF Called, At

LEMMA ShallowStep == ResearchInv /\ ShallowInv /\ [Next]_vars => ShallowInv'
<1> SUFFICES ASSUME ResearchInv, ShallowInv, [Next]_vars PROVE ShallowInv'
    OBVIOUS
<1>1. queue \in [Projects -> QueueStatuses]
    BY DEF ResearchInv, ProjectInv
<1>2. ASSUME NEW p \in Projects,
             \/ Complete(p) \/ Requeue(p)
             \/ \E claim \in 0 .. MaxClaim : RecordDecision(p, claim)
             \/ OperatorLaunches(p) \/ OperatorDispatches(p)
      PROVE  ShallowInv'
    <2>1. UNCHANGED <<cycle, setup>>
        BY <1>2 DEF Complete, Requeue, RecordDecision, OperatorLaunches, OperatorDispatches
    <2>2. ASSUME Undisturbed, Running
          PROVE  /\ Running'
                 /\ \A q \in Projects : queue'[q] = "queued" => queue[q] = "queued"
        <3>1. ~Requeue(p) /\ ~OperatorLaunches(p) /\ ~OperatorDispatches(p)
            BY <2>2 DEF Running, Requeue, OperatorLaunches, OperatorDispatches, Undisturbed, Hazard
        <3>2. CASE Complete(p)
            BY <1>1, <2>2, <3>2 DEF Complete, Undisturbed, Hazard, Running
        <3>3. CASE \E claim \in 0 .. MaxClaim : RecordDecision(p, claim)
            BY <2>2, <3>3 DEF RecordDecision, Running
        <3> QED BY <1>2, <3>1, <3>2, <3>3
    <2>3. Undisturbed => Running
        BY DEF ShallowInv
    <2> QED BY <2>1, <2>2, <2>3, OutsideShallow
<1>3. ASSUME NEW c \in Candidates, OperatorPromotes(c) PROVE ShallowInv'
    BY <1>3 DEF OperatorPromotes, Hazard, ShallowInv, Undisturbed
<1>4. CASE UNCHANGED vars
    BY <1>4, OutsideShallow DEF vars, projects, Running
<1> QED BY <1>2, <1>3, <1>4, BeginShallow, CycleStepShallow DEF Next

\* A single cycle at a time promotes no more than a lane lacks, and leaves at
\* most one follow-up on top of it, although it acts on what it planned from
\* reads before.
THEOREM QueuesStayShallow == Spec => []QueueStaysShallow
<1>1. ShallowInv => QueueStaysShallow
    <2> SUFFICES ASSUME ShallowInv, Undisturbed, NEW l \in Lanes
                 PROVE  /\ Cardinality({p \in QueuedIn(l) : p[2] = 0}) <= MinDepth
                        /\ Cardinality(QueuedIn(l)) <= MinDepth + 1
        BY DEF QueueStaysShallow
    <2>1. QueuedIn(l) = Waiting(queue, l)
        BY DEF QueuedIn, Waiting
    <2>2. {p \in QueuedIn(l) : p[2] = 0} = FreshWaiting(queue, l)
        BY <2>1 DEF FreshWaiting
    <2> QED BY <2>1, <2>2 DEF ShallowInv, Level, Total, Fresh
<1>2. Spec => [](ResearchInv /\ ShallowInv)
    BY ResearchInit, ResearchStep, ShallowInit, ShallowStep, PTL DEF Spec
<1> QED BY <1>1, <1>2, PTL
=============================================================================
