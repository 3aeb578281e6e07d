------------------------------ MODULE MCRender ------------------------------
(* Model-checking instance of RenderDispatch: the render PCs are alike.    *)
EXTENDS RenderDispatch, TLC

Symmetry == Permutations(Workers)
=============================================================================
