-------------------------- MODULE MCPackageManager --------------------------
(* Small instances of PackageManager.                                      *)
EXTENDS PackageManager
=============================================================================
