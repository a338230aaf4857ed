--------------------------- MODULE MCQueueWatch ---------------------------
(***************************************************************************)
(* The default lane and another one.  Pumping is checked where nothing     *)
(* goes wrong; two checks at a time get fewer jobs.                        *)
(***************************************************************************)
EXTENDS QueueWatch

CONSTANTS gpu, cpu

\* The default lane is a named target, or only the configured default.
Named == [l \in Lanes |-> IF l = gpu THEN "gpu" ELSE "cpu"]
Unnamed == [l \in Lanes |-> IF l = gpu THEN "other" ELSE "cpu"]

Scenario(jobs, drafts, followups, holds, asks, role, hazards) ==
    [jobs |-> jobs, drafts |-> drafts, followups |-> followups, holds |-> holds,
     asks |-> asks, role |-> role, hazards |-> hazards]

MCSetups ==
    {Scenario(1, 1, 1, 0, 0, Named, {}),
     Scenario(2, 0, 0, 0, 0, Named, {}),
     Scenario(2, 0, 0, 0, 0, Unnamed, {}),
     Scenario(1, 0, 0, 0, 1, Named, {}),
     Scenario(2, 0, 0, 0, 0, Named, {"vanish"}),
     Scenario(1, 0, 0, 1, 0, Named, {"vanish", "push_fails", "not_ready"}),
     Scenario(1, 0, 0, 0, 1, Named, {"detach"}),
     Scenario(1, 0, 0, 0, 0, Unnamed, {"detach", "push_fails"}),
     Scenario(1, 0, 0, 0, 1, Named, {"vanish", "no_evidence", "force"}),
     Scenario(1, 0, 0, 0, 0, Named, {"vanish", "no_evidence", "db_fails"}),
     Scenario(1, 0, 0, 0, 0, Unnamed, {"overlong", "late_report", "hasty"})}
=============================================================================
