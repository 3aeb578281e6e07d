------------------------------ MODULE MCJobRun ------------------------------
(* Model-checking instance of JobRun: videos are interchangeable.           *)
EXTENDS JobRun, TLC

Symmetry == Permutations(Videos)
=============================================================================
