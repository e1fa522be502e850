------------------------- MODULE MCReviewLifecycle -------------------------
(* Issues, requests and clients are interchangeable.                        *)
EXTENDS ReviewLifecycle, TLC

Symmetry == Permutations(Requests) \cup Permutations(Issues)
============================================================================
