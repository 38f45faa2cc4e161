------------------------------- MODULE MCClaim -------------------------------
(* Small instances of Claim.                                               *)
EXTENDS Claim
=============================================================================
