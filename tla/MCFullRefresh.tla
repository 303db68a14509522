---------------------------- MODULE MCFullRefresh ----------------------------
(* Constants of the model-checking runs of FullRefresh.  Requests are        *)
(* interchangeable: they are told apart only by what happens to them.        *)
EXTENDS FullRefresh, TLC

Symmetry == Permutations(Requests)
=============================================================================
