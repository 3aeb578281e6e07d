----------------------------- MODULE MCJobQueue -----------------------------
(* Model-checking instance of JobQueue: threads and settings are            *)
(* interchangeable model values, and so are the videos.                     *)
EXTENDS JobQueueClaims, TLC

Symmetry == Permutations(Requests) \cup Permutations(Options) \cup Permutations(Videos)
=============================================================================
