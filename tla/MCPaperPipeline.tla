-------------------------- MODULE MCPaperPipeline --------------------------
(***************************************************************************)
(* The calls of the TLC instances of PaperPipeline: a rewrite by the drain *)
(* and one by the batch, a finalization, a claim, a checklist answer, and  *)
(* two requests for a status, one of which the endpoint always refuses.    *)
(***************************************************************************)
EXTENDS PaperPipeline

CONSTANTS drain, batch, package, claim, answer, reject, finish

AllCalls == {drain, batch, package, claim, answer, reject, finish}

Kind ==
    [c \in AllCalls |->
        CASE c = drain -> "rewrite" [] c = batch -> "batch" 
          [] c = package -> "finalize" [] c = claim -> "claim"
          [] c = answer -> "checklist" [] OTHER -> "status"]

Asked == [c \in AllCalls |-> IF c = finish THEN "finalized" ELSE "rejected"]
=============================================================================
