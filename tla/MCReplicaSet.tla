---------------------------- MODULE MCReplicaSet ----------------------------
(* Small instances of ReplicaSet.                                          *)
EXTENDS ReplicaSet
=============================================================================
