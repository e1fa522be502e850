------------------------- MODULE MCMitreAssessment -------------------------
(* A dump of two rules parsed under one of two column mappings: rule f1     *)
(* carries the customer's tag under the right mapping only, f2 never.       *)
EXTENDS MitreAssessment, TLC

CONSTANTS f1, f2, good, bad

MCParsed ==
    good :> (f1 :> "customer_tagged" @@ f2 :> "unmapped") @@
    bad  :> (f1 :> "unmapped" @@ f2 :> "absent")

\* The dump of f2 alone, which only the AI can map.
MCParsedUntagged == good :> (f2 :> "unmapped")

Symmetry == Permutations(Clients) \cup Permutations(Pipelines)
============================================================================
