-------------------------- MODULE DurableCallback --------------------------
(***************************************************************************)
(* What the callback outbox promises a runner: from the moment its         *)
(* callback is written it is on file, until it is settled, by delivery or  *)
(* by being set aside for the operator.  CallbackOutbox implements it as   *)
(* long as its deliverers do not overlap.                                  *)
(***************************************************************************)
VARIABLE phase  \* "unwritten", "held" or "settled"

Init == phase = "unwritten"

Write  == phase = "unwritten" /\ phase' = "held"
Settle == phase = "held" /\ phase' = "settled"

Next == Write \/ Settle

Spec == Init /\ [][Next]_phase
=============================================================================
