-------------------------- MODULE MCCallbackOutbox --------------------------
(***************************************************************************)
(* Instances of CallbackOutbox for TLC: the runner, the gate's loop and an *)
(* operator's replay command over one callback.                            *)
(***************************************************************************)
EXTENDS CallbackOutbox

CONSTANTS runner, gate, operator
=============================================================================
