----------------------------- MODULE MCHandsOff -----------------------------
(* Model-checking instance of HandsOff.                                     *)
EXTENDS HandsOff, TLC

(* Past a post lost sight of on every platform nothing is claimed.           *)
Seen == slips # Platforms

Symmetry == Permutations(Platforms)
=============================================================================
