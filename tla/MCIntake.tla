----------------------------- MODULE MCIntake -----------------------------
(***************************************************************************)
(* Two projects on two lanes and two requests that meet.                   *)
(***************************************************************************)
EXTENDS Intake, TLC

CONSTANTS pa, pb, gpu, cpu, i1, i2, d1, d2

Queued(l) == [status |-> "queued", run |-> NoRun, lane |-> l, updated |-> 0]
Absent == [status |-> "absent", run |-> NoRun, lane |-> gpu, updated |-> 0]

Scenario(first, kind1, kind2, n, hazards) ==
    [first |-> (pa :> Queued(gpu)) @@ (pb :> first),
     kinds |-> (i1 :> kind1) @@ (i2 :> kind2), claims |-> n, hazards |-> hazards]

MCSetups ==
    {Scenario(Queued(cpu), "ideas", "none", 2, {}),
     Scenario(Queued(cpu), "import", "ideas", 2, {}),
     Scenario(Queued(cpu), "import", "none", 3, {"undated"}),
     Scenario(Absent, "ideas", "ideas", 2, {"fails", "lost"}),
     Scenario(Absent, "import", "ideas", 2, {"undated", "fails"})}

Symmetry == Permutations({d1, d2})
=============================================================================
