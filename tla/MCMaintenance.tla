--------------------------- MODULE MCMaintenance ---------------------------
(***************************************************************************)
(* Two units: one that dispatches and is in both lists, and one that the   *)
(* resume script rearms only when asked to. Two threads that meet on the   *)
(* lane of one worker, and a worker with nothing to do.                    *)
(***************************************************************************)
EXTENDS Maintenance, TLC

CONSTANTS research, draft, t1, t2, gpu, cpu

MCHostOf == t1 :> gpu @@ t2 :> gpu
MCRegimes ==
    {{"stop", "desk"}, {"resume", "desk"}, {"resume", "systemctl", "abort"},
     {"stop", "systemctl"}, {"stop", "override", "unreachable"},
     {"stop", "giveup", "watch"}, {"desk", "watch"},
     {"desk", "stranded", "watch"}}
=============================================================================
