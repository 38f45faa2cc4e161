---------------------- MODULE MCInformerTrackingCache ----------------------
(***************************************************************************)
(* Instances of InformerTrackingCache for TLC.                             *)
(***************************************************************************)
EXTENDS InformerTrackingCache, TLC

Symmetry == Permutations(Readers) \cup Permutations(Gvks)
=============================================================================
