------------------------- MODULE MCControllerEngine -------------------------
(***************************************************************************)
(* Instances of ControllerEngine for TLC: sets of model values from the    *)
(* cfg, and the symmetry between them.                                     *)
(***************************************************************************)
EXTENDS ControllerEngine, TLC

Symmetry == Permutations(Callers) \cup Permutations(Instances)
=============================================================================
