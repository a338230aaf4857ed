-------------------------- MODULE MCResearchCycle --------------------------
(***************************************************************************)
(* Two candidates for one lane and a third one for the other.              *)
(***************************************************************************)
EXTENDS ResearchCycle

CONSTANTS c1, c2, c3, gpu, cpu

Scenario(calls, supply, parents, hazards) ==
    [calls |-> calls, supply |-> supply, parents |-> parents, hazards |-> hazards]

\* Overlapping calls are the large scenarios: they get fewer candidates.
MCSetups ==
    {Scenario({1}, {c1, c2, c3}, {c1}, {}),
     Scenario({1, 2}, {c1}, {c1}, {}),
     Scenario({1}, {c1, c2}, {}, {"repeat"}),
     Scenario({1}, {c1, c3}, {c3}, {"failure"}),
     Scenario({1}, {c1, c2}, {c1}, {"operator"})}

MCLaneOf == [c \in Candidates |-> IF c = c3 THEN cpu ELSE gpu]
=============================================================================
