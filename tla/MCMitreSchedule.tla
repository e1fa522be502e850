-------------------------- MODULE MCMitreSchedule --------------------------
(* The processes of the worker container are interchangeable.               *)
EXTENDS MitreSchedule, TLC

Symmetry == Permutations(Workers)
============================================================================
