--------------------------- MODULE DispatchLease ---------------------------
(***************************************************************************)
(* What the queue promises its operator about worker lanes: a lane is      *)
(* leased to at most one project at a time, a lease is either given back   *)
(* unused or started, and a settled project never holds a lease again.     *)
(* QueueLedger implements it while its dispatches are undisturbed.         *)
(***************************************************************************)
CONSTANTS Projects, LaneOf

VARIABLE phase  \* "waiting", "handoff", "running" or "settled", per project

Phases == {"waiting", "handoff", "running", "settled"}
Holds(p) == phase[p] \in {"handoff", "running"}

Init == phase = [p \in Projects |-> "waiting"]

Grant(p) ==
    /\ phase[p] = "waiting"
    /\ \A q \in Projects : LaneOf[q] = LaneOf[p] => ~Holds(q)
    /\ phase' = [phase EXCEPT ![p] = "handoff"]

Return(p) ==
    /\ phase[p] = "handoff"
    /\ phase' = [phase EXCEPT ![p] = "waiting"]

Start(p) ==
    /\ phase[p] = "handoff"
    /\ phase' = [phase EXCEPT ![p] = "running"]

\* By a report of the run, or by the alert check on its behalf.
Settle(p) ==
    /\ Holds(p)
    /\ phase' = [phase EXCEPT ![p] = "settled"]

Next == \E p \in Projects : Grant(p) \/ Return(p) \/ Start(p) \/ Settle(p)

Spec == Init /\ [][Next]_phase
=============================================================================
