------------------------ MODULE MCDependencyWatches -------------------------
(* Small instances of DependencyWatches.                                   *)
EXTENDS DependencyWatches
=============================================================================
