--------------------------- MODULE MCQueueLedger ---------------------------
(***************************************************************************)
(* Instances of QueueLedger for TLC.  Two projects share the default lane, *)
(* so that the lane is contended; project pa has a second run, so that a   *)
(* released project is claimed again.                                      *)
(***************************************************************************)
EXTENDS QueueLedger, TLC

CONSTANTS pa, pb, la, ra1, ra2, rb1, h1, h2

OneLane == [p \in Projects |-> la]
RunOwner == [r \in Runs |-> IF r = rb1 THEN pb ELSE pa]

\* A runner that finishes or fails, and a wake gate that times out.
SuccessOrFailure == {<<"runner", "wake_ready">>, <<"gate", "gate_timeout">>}

\* Request threads are interchangeable.
HandlerSymmetry == Permutations(Handlers)
=============================================================================
